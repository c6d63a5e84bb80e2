------------------------------ MODULE LpProofs ------------------------------
(***************************************************************************)
(* Proofs about LpStaking, for any stakers, tokens, schedules, weights and *)
(* amounts: type correctness, which includes that no subtraction of the    *)
(* reward computations fails; that the totals of a pool account for the    *)
(* stakes behind them; that the unbond orders of a token implement         *)
(* RedemptionQueue; that the calls of an instant agree about claims; and   *)
(* that the schedules cover the rewards.                                   *)
(***************************************************************************)
EXTENDS LpStaking, Arithmetic

\* The parts of TypeOK.
ConfigType ==
  /\ owner \in Owners /\ total_weight \in Nat /\ now \in Nat /\ rebonds \in Nat
  /\ repriced \in BOOLEAN
  /\ prism \in Nat /\ held \in [Tokens -> Nat]
  /\ distribution_schedule \in Seq(Schedule)
  /\ \A i \in DOMAIN distribution_schedule : ValidSchedule(distribution_schedule[i])

PoolsType ==
  /\ DOMAIN pools \subseteq Tokens /\ pools \in [DOMAIN pools -> PoolInfo]
  /\ \A t \in DOMAIN pools : pools[t].last_distributed <= now

StakesType ==
  /\ DOMAIN reward_info \subseteq Users \X (DOMAIN pools)
  /\ reward_info \in [DOMAIN reward_info -> RewardInfo]
  /\ \A k \in DOMAIN reward_info : reward_info[k].reward_index <= pools[k[2]].reward_index
  /\ staker_by_token \subseteq (DOMAIN pools) \X Users

OrdersType ==
  /\ DOMAIN unbond_orders \subseteq Users \X (DOMAIN pools) \X (0..now)
  /\ unbond_orders \in [DOMAIN unbond_orders -> Nat]

LEMMA TypeParts == TypeOK <=> ConfigType /\ PoolsType /\ StakesType /\ OrdersType
  BY DEF TypeOK, ConfigType, PoolsType, StakesType, OrdersType

LEMMA TypePartsNext == TypeOK' <=> ConfigType' /\ PoolsType' /\ StakesType' /\ OrdersType'
  BY DEF TypeOK, ConfigType, PoolsType, StakesType, OrdersType

-----------------------------------------------------------------------------
\* What a schedule brings a pool is a natural, if it applies: the time that counts is
\* not negative.
LEMMA DistributedNat ==
  ASSUME ConfigType, NEW p \in PoolInfo, p.last_distributed <= now, NEW n \in Nat \ {0},
         NEW s \in Schedule, ValidSchedule(s), Applies(s, p)
  PROVE  DistributedBy(s, p, n) \in Nat
<1>1. s.start \in Nat /\ s.end \in Nat /\ s.amount \in Nat /\ s.start < s.end
  BY DEF Schedule, ValidSchedule
<1>2. p.weight \in Nat /\ p.last_distributed \in Nat /\ now \in Nat
  BY DEF PoolInfo, ConfigType
<1>3. s.start <= now /\ s.end >= p.last_distributed
  BY DEF Applies
<1>4. PICK sec \in Nat : sec = smaller(s.end, now) - later(s.start, p.last_distributed)
  BY <1>1, <1>2, <1>3 DEF smaller, later
<1>5. PICK r \in Nat : r = from_ratio(p.weight, n)
  BY <1>2, RatioNat
<1>6. PICK m \in Nat : m = mul(s.amount, r)
  BY <1>1, MulNat
<1>7. PICK d \in Nat \ {0} : d = s.end - s.start
  BY <1>1
<1>8. PICK q \in Nat : q = from_ratio(m, d)
  BY RatioNat
<1>9. mul(sec, q) \in Nat
  BY MulNat
<1>10. QED BY <1>4, <1>5, <1>6, <1>7, <1>8, <1>9 DEF DistributedBy

LEMMA DistributedAmountNat ==
  ASSUME ConfigType, NEW p \in PoolInfo, p.last_distributed <= now, NEW n \in Nat, Computable(p, n)
  PROVE  distributed_amount(p, n) \in Nat
<1>1. PICK D : D = DOMAIN distribution_schedule
  OBVIOUS
<1>2. IsFiniteSet(D)
  <2>1. distribution_schedule \in Seq(Schedule)
    BY DEF ConfigType
  <2>2. D = 1..Len(distribution_schedule) /\ Len(distribution_schedule) \in Nat
    BY <1>1, <2>1
  <2>3. QED BY <2>2, FS_Interval
<1>3. PICK f : f = [i \in D |-> IF Applies(distribution_schedule[i], p)
                                THEN DistributedBy(distribution_schedule[i], p, n) ELSE 0]
  OBVIOUS
<1>4. ASSUME NEW i \in D PROVE f[i] \in Nat
  <2>1. distribution_schedule[i] \in Schedule /\ ValidSchedule(distribution_schedule[i])
    BY <1>1 DEF ConfigType
  <2>2. CASE Applies(distribution_schedule[i], p)
    <3>1. n \in Nat \ {0}
      BY <1>1, <2>2 DEF Computable
    <3>2. DistributedBy(distribution_schedule[i], p, n) \in Nat
      BY <2>1, <2>2, <3>1, DistributedNat
    <3>3. QED BY <1>3, <2>2, <3>2
  <2>3. CASE ~ Applies(distribution_schedule[i], p)
    BY <1>3, <2>3
  <2>4. QED BY <2>2, <2>3
<1>5. SumFunctionOnSet(f, D) \in Nat
  BY <1>2, <1>4, SumNat
<1>6. QED BY <1>1, <1>3, <1>5 DEF distributed_amount

\* What bringing a pool up to now changes: its time, and its index and pending reward.
Brought(p, q) ==
  /\ q \in PoolInfo
  /\ q.last_distributed = now
  /\ q.weight = p.weight /\ q.unbond_period = p.unbond_period
  /\ q.total_bond_amount = p.total_bond_amount
  /\ q.total_pending_withdraw = p.total_pending_withdraw
  /\ p.reward_index <= q.reward_index

LEMMA ComputedIsBrought ==
  ASSUME ConfigType, NEW p \in PoolInfo, p.last_distributed <= now, NEW n \in Nat, Computable(p, n)
  PROVE  Brought(p, compute_pool_reward(p, n))
<1>1. PICK d \in Nat : d = distributed_amount(p, n)
  BY DistributedAmountNat
<1>2. /\ p.last_distributed \in Nat /\ p.weight \in Nat /\ p.total_bond_amount \in Nat
      /\ p.total_pending_withdraw \in Nat /\ p.reward_index \in Nat /\ p.pending_reward \in Nat
      /\ p.unbond_period \in Nat /\ now \in Nat
  BY DEF PoolInfo, ConfigType
<1>3. PICK a \in Nat : a = p.pending_reward + d
  BY <1>2
<1>4. CASE p.total_bond_amount = 0
  <2>1. compute_pool_reward(p, n) =
          [last_distributed |-> now, weight |-> p.weight, total_bond_amount |-> p.total_bond_amount,
           total_pending_withdraw |-> p.total_pending_withdraw, reward_index |-> p.reward_index,
           pending_reward |-> a, unbond_period |-> p.unbond_period]
    BY <1>1, <1>3, <1>4 DEF compute_pool_reward, PoolInfo
  <2>2. QED BY <1>2, <2>1 DEF Brought, PoolInfo
<1>5. CASE p.total_bond_amount # 0
  <2>1. PICK r \in Nat : r = from_ratio(a, p.total_bond_amount)
    BY <1>2, <1>5, RatioNat
  <2>2. compute_pool_reward(p, n) =
          [last_distributed |-> now, weight |-> p.weight, total_bond_amount |-> p.total_bond_amount,
           total_pending_withdraw |-> p.total_pending_withdraw, reward_index |-> p.reward_index + r,
           pending_reward |-> 0, unbond_period |-> p.unbond_period]
    BY <1>1, <1>3, <1>5, <2>1 DEF compute_pool_reward, PoolInfo
  <2>3. QED BY <1>2, <2>1, <2>2 DEF Brought, PoolInfo
<1>6. QED BY <1>4, <1>5

\* The same for a registered pool, of any total and of the one there is.
LEMMA PoolBroughtAt ==
  ASSUME TypeOK, NEW t \in DOMAIN pools, NEW n \in Nat, Computable(pools[t], n)
  PROVE  Brought(pools[t], compute_pool_reward(pools[t], n))
<1>1. ConfigType /\ PoolsType
  BY TypeParts
<1>2. pools[t] \in PoolInfo /\ pools[t].last_distributed <= now
  BY <1>1 DEF PoolsType
<1>3. QED BY <1>1, <1>2, ComputedIsBrought

LEMMA PoolBrought ==
  ASSUME TypeOK, NEW t \in DOMAIN pools, Computable(pools[t], total_weight)
  PROVE  Brought(pools[t], compute_pool_reward(pools[t], total_weight))
  BY PoolBroughtAt DEF TypeOK

\* What compute_staker_reward changes of a record.
LEMMA StakerComputed ==
  ASSUME NEW q \in PoolInfo, NEW r \in RewardInfo, r.reward_index <= q.reward_index
  PROVE  \E n \in Nat : compute_staker_reward(q, r) =
           [reward_index |-> q.reward_index, bond_amount |-> r.bond_amount,
            withdrawable_amount |-> r.withdrawable_amount, pending_reward |-> r.pending_reward + n]
<1>1. PICK b \in Nat, i \in Nat, j \in Nat, p \in Nat, w \in Nat :
        b = r.bond_amount /\ i = r.reward_index /\ j = q.reward_index /\ p = r.pending_reward
        /\ w = r.withdrawable_amount
  <2>1. r.bond_amount \in Nat /\ r.reward_index \in Nat /\ q.reward_index \in Nat
        /\ r.pending_reward \in Nat /\ r.withdrawable_amount \in Nat
    BY DEF PoolInfo, RewardInfo
  <2>2. QED BY ONLY <2>1, Zenon
<1>2. i <= j /\ b <= b
  BY <1>1
<1>3. mul(b, i) \in Nat /\ mul(b, j) \in Nat /\ mul(b, i) <= mul(b, j)
  BY ONLY <1>2, MulNat, MulGrows, b \in Nat, i \in Nat, j \in Nat
<1>4. PICK n \in Nat : n = mul(b, j) - mul(b, i)
  BY <1>3
<1>5. r = [reward_index |-> i, bond_amount |-> b, withdrawable_amount |-> w, pending_reward |-> p]
  BY <1>1 DEF RewardInfo
<1>a. compute_staker_reward(q, r) =
        [r EXCEPT !.reward_index = j, !.pending_reward = @ + (mul(b, j) - mul(b, i))]
  BY <1>1 DEF compute_staker_reward
<1>b. compute_staker_reward(q, r) =
           [reward_index |-> j, bond_amount |-> b,
            withdrawable_amount |-> w, pending_reward |-> p + n]
  BY <1>a, <1>5, <1>4
<1>6. QED BY <1>1, <1>b

-----------------------------------------------------------------------------
\* The sums of StakesAccountedFor.
BondTable(t) == [u \in Users |-> Record(u, t).bond_amount]
WithdrawTable(t) == [u \in Users |-> Record(u, t).withdrawable_amount]
OrdersIn(m, t) == {k \in DOMAIN m : k[2] = t}
SumIn(m, t) == SumFunctionOnSet([k \in OrdersIn(m, t) |-> m[k]], OrdersIn(m, t))

Accounted(t) ==
  /\ pools[t].total_bond_amount = SumFunctionOnSet(BondTable(t), Users)
  /\ pools[t].total_pending_withdraw
       = SumFunctionOnSet(WithdrawTable(t), Users) + SumIn(unbond_orders, t)
  /\ held[t] >= pools[t].total_bond_amount + pools[t].total_pending_withdraw

OrdersRecorded == \A k \in DOMAIN unbond_orders : <<k[1], k[2]>> \in DOMAIN reward_info
StakersIndexed == staker_by_token = {<<k[2], k[1]>> : k \in DOMAIN reward_info}

LEMMA AccountedParts ==
  StakesAccountedFor <=> (\A t \in DOMAIN pools : Accounted(t)) /\ OrdersRecorded /\ StakersIndexed
  BY DEF StakesAccountedFor, SumOver, Accounted, BondTable, WithdrawTable, SumIn, OrdersIn,
         OrdersOf, OrdersRecorded, StakersIndexed

\* The inductive invariant: types and accounts need each other, because an amount is
\* taken from a total, and so do total_weight and the pools' weights.
WeightTable == [t \in DOMAIN pools |-> pools[t].weight]
WeightsAgree == total_weight = SumFunctionOnSet(WeightTable, DOMAIN pools)
LpInv ==
  /\ TypeOK
  /\ IsFiniteSet(DOMAIN unbond_orders)
  /\ WeightsAgree
  /\ \A t \in DOMAIN pools : Accounted(t)
  /\ OrdersRecorded
  /\ StakersIndexed

-----------------------------------------------------------------------------
\* The orders of one staker.
LEMMA OrderTimesAre ==
  ASSUME TypeOK, NEW u, NEW t
  PROVE  /\ OrderTimes(u, t) = {o \in 0..now : <<u, t, o>> \in DOMAIN unbond_orders}
         /\ IsFiniteSet(OrderTimes(u, t))
<1>1. \A k \in DOMAIN unbond_orders : k = <<k[1], k[2], k[3]>> /\ k[3] \in 0..now
  BY DEF TypeOK
<1>2. \A o \in OrderTimes(u, t) : o \in 0..now /\ <<u, t, o>> \in DOMAIN unbond_orders
  BY <1>1 DEF OrderTimes
<1>3. \A o : <<u, t, o>> \in DOMAIN unbond_orders => o \in OrderTimes(u, t)
  BY DEF OrderTimes
<1>4. OrderTimes(u, t) = {o \in 0..now : <<u, t, o>> \in DOMAIN unbond_orders}
  BY <1>2, <1>3
<1>5. now \in Nat
  BY DEF TypeOK
<1>6. IsFiniteSet(0..now)
  BY <1>5, FS_Interval
<1>7. OrderTimes(u, t) \subseteq 0..now
  BY <1>4
<1>8. QED BY <1>4, <1>6, <1>7, FS_Subset

\* One call takes no more orders than the limit.
LEMMA ExpiredWithinLimit ==
  ASSUME TypeOK, NEW u, NEW t
  PROVE  /\ ExpiredOrders(u, t) \subseteq OrderTimes(u, t)
         /\ IsFiniteSet(ExpiredOrders(u, t))
         /\ Cardinality(ExpiredOrders(u, t)) \in Nat
         /\ Cardinality(ExpiredOrders(u, t)) <= MAX_ORDER_WITHDRAW_PER_TX
<1>1. ExpiredOrders(u, t) \subseteq OrderTimes(u, t)
  BY DEF ExpiredOrders
<1>2. IsFiniteSet(OrderTimes(u, t)) /\ OrderTimes(u, t) \subseteq 0..now /\ now \in Nat
  BY OrderTimesAre DEF TypeOK
<1>3. IsFiniteSet(ExpiredOrders(u, t)) /\ Cardinality(ExpiredOrders(u, t)) \in Nat
  BY <1>1, <1>2, FS_Subset, FS_CardinalityType
<1>4. CASE ExpiredOrders(u, t) = {}
  BY <1>1, <1>3, <1>4, FS_EmptySet, LpAssumption
<1>5. CASE ExpiredOrders(u, t) # {}
  <2>1. PICK E : E = ExpiredOrders(u, t)
    OBVIOUS
  <2>a. \A o \in E : o \in Nat /\ now - o \in Nat
    BY <1>1, <1>2, <2>1
  <2>2. PICK D \in SUBSET Nat : D = {now - o : o \in E}
    BY <2>a, {now - o : o \in E} \in SUBSET Nat
  <2>3. D # {}
    BY <1>5, <2>1, <2>2
  <2>4. PICK d \in D : \A e \in D : d <= e
    BY <2>3, NatLeast
  <2>5. PICK m \in E : \A o \in E : o <= m
    BY <1>2, <2>a, <2>2, <2>4
  <2>6. PICK F : F = {o \in OrderTimes(u, t) : o <= m}
    OBVIOUS
  <2>7. Cardinality(F) <= MAX_ORDER_WITHDRAW_PER_TX
    BY <2>1, <2>5, <2>6 DEF ExpiredOrders
  <2>8. F \subseteq OrderTimes(u, t) /\ E \subseteq F
    BY <1>1, <2>1, <2>5, <2>6
  <2>9. IsFiniteSet(F) /\ Cardinality(F) \in Nat /\ Cardinality(E) <= Cardinality(F)
    BY <1>2, <2>8, FS_Subset, FS_CardinalityType
  <2>10. QED BY <1>1, <1>3, <2>1, <2>7, <2>9, LpAssumption
<1>6. QED BY <1>4, <1>5

\* A staker none of whose orders is left pending has lost all of them to the call.
LEMMA NothingPending ==
  ASSUME TypeOK, NEW u, NEW t, ~ orders_pending(u, t)
  PROVE  ExpiredOrders(u, t) = OrderTimes(u, t)
<1>1. PICK n \in Nat : n = Cardinality(OrderTimes(u, t))
  BY OrderTimesAre, FS_CardinalityType
<1>2. PICK e \in Nat : e = Cardinality(ExpiredOrders(u, t))
  BY ExpiredWithinLimit
<1>3. e <= MAX_ORDER_WITHDRAW_PER_TX /\ MAX_ORDER_WITHDRAW_PER_TX \in Nat
  BY <1>2, ExpiredWithinLimit, LpAssumption
<1>4. ~ (smaller(n, MAX_ORDER_WITHDRAW_PER_TX + 1) > e)
  BY <1>1, <1>2 DEF orders_pending, order_count
<1>5. n <= e
  BY <1>3, <1>4 DEF smaller
<1>6. ExpiredOrders(u, t) \subseteq OrderTimes(u, t) /\ IsFiniteSet(OrderTimes(u, t))
  BY ExpiredWithinLimit, OrderTimesAre
<1>7. /\ Cardinality(ExpiredOrders(u, t)) <= Cardinality(OrderTimes(u, t))
      /\ Cardinality(OrderTimes(u, t)) = Cardinality(ExpiredOrders(u, t)) => ExpiredOrders(u, t) = OrderTimes(u, t)
  BY <1>6, FS_Subset
<1>8. QED BY <1>1, <1>2, <1>5, <1>7

-----------------------------------------------------------------------------
\* The keys of the orders a call of u takes from the pools of S.
PulledKeys(u, S) ==
  {k \in DOMAIN unbond_orders : k[1] = u /\ k[2] \in S /\ k[3] \in ExpiredOrders(u, k[2])}

LEMMA RemainingAre ==
  ASSUME NEW u, NEW S
  PROVE  /\ DOMAIN Remaining(u, S) = DOMAIN unbond_orders \ PulledKeys(u, S)
         /\ \A k \in DOMAIN Remaining(u, S) : Remaining(u, S)[k] = unbond_orders[k]
         /\ Remaining(u, S) = [k \in DOMAIN unbond_orders \ PulledKeys(u, S) |-> unbond_orders[k]]
<1>1. {k \in DOMAIN unbond_orders : ~(k[1] = u /\ k[2] \in S /\ k[3] \in ExpiredOrders(u, k[2]))}
        = DOMAIN unbond_orders \ PulledKeys(u, S)
  BY DEF PulledKeys
<1>2. QED BY <1>1 DEF Remaining, Restrict

LEMMA WithdrawableNat ==
  ASSUME TypeOK, NEW u, NEW t
  PROVE  withdrawable_amount(u, t) \in Nat
<1>1. PICK h : h = [o \in OrderTimes(u, t) |-> unbond_orders[<<u, t, o>>]]
  OBVIOUS
<1>2. \A o \in ExpiredOrders(u, t) : h[o] \in Nat
  BY <1>1, OrderTimesAre, ExpiredWithinLimit DEF TypeOK
<1>3. IsFiniteSet(ExpiredOrders(u, t))
  BY ExpiredWithinLimit
<1>4. SumFunctionOnSet(h, ExpiredOrders(u, t)) \in Nat
  BY <1>2, <1>3, SumNat
<1>5. QED BY <1>1, <1>4 DEF withdrawable_amount

\* The orders taken from one pool add up to what the call finds withdrawable.
LEMMA PulledAmount ==
  ASSUME TypeOK, NEW u, NEW t, NEW E, E = {k \in PulledKeys(u, {t}) : TRUE}
  PROVE  /\ E \subseteq OrdersIn(unbond_orders, t)
         /\ SumFunctionOnSet([k \in OrdersIn(unbond_orders, t) |-> unbond_orders[k]], E)
              = withdrawable_amount(u, t)
<1>1. PICK W : W = ExpiredOrders(u, t)
  OBVIOUS
<1>2. PICK h : h = [o \in OrderTimes(u, t) |-> unbond_orders[<<u, t, o>>]]
  OBVIOUS
<1>3. PICK f : f = [k \in OrdersIn(unbond_orders, t) |-> unbond_orders[k]]
  OBVIOUS
<1>4. PICK m : m = [k \in DOMAIN unbond_orders |-> k[3]]
  OBVIOUS
<1>5. IsFiniteSet(W) /\ W \subseteq OrderTimes(u, t)
  BY <1>1, ExpiredWithinLimit
<1>6. \A k \in E : /\ k \in DOMAIN unbond_orders /\ k[1] = u /\ k[2] = t /\ k[3] \in W
                   /\ k = <<u, t, k[3]>>
  <2>1. \A k \in DOMAIN unbond_orders : k = <<k[1], k[2], k[3]>>
    BY DEF TypeOK
  <2>2. \A k \in E : k \in DOMAIN unbond_orders /\ k[1] = u /\ k[2] = t /\ k[3] \in W
    BY <1>1 DEF PulledKeys
  <2>3. QED BY <2>1, <2>2
<1>7. E \subseteq OrdersIn(unbond_orders, t)
  BY <1>6 DEF OrdersIn
<1>8. \A k \in E : m[k] \in W /\ f[k] = h[m[k]]
  BY <1>2, <1>3, <1>4, <1>5, <1>6, <1>7
<1>9. \A j, k \in E : m[j] = m[k] => j = k
  BY <1>4, <1>6
<1>10. \A o \in W : h[o] \in Nat /\ \E k \in E : m[k] = o
  <2>1. SUFFICES ASSUME NEW o \in W PROVE h[o] \in Nat /\ \E k \in E : m[k] = o
    OBVIOUS
  <2>2. <<u, t, o>> \in DOMAIN unbond_orders
    BY <1>5, OrderTimesAre
  <2>3. h[o] \in Nat
    BY <1>2, <1>5, <2>2 DEF TypeOK
  <2>4. <<u, t, o>> \in E
    BY <1>1, <2>2 DEF PulledKeys
  <2>5. m[<<u, t, o>>] = o
    BY <1>4, <2>2
  <2>6. QED BY <2>3, <2>4, <2>5
<1>11. SumFunctionOnSet(f, E) = SumFunctionOnSet(h, W)
  BY ONLY <1>5, <1>8, <1>9, <1>10, SumByName
<1>12. QED BY <1>1, <1>2, <1>3, <1>7, <1>11 DEF withdrawable_amount

\* What pulling leaves of a pool's orders.
LEMMA PulledSum ==
  ASSUME TypeOK, IsFiniteSet(DOMAIN unbond_orders), NEW u, NEW S, NEW t
  PROVE  /\ SumIn(unbond_orders, t) \in Nat /\ SumIn(Remaining(u, S), t) \in Nat
         /\ SumIn(Remaining(u, S), t) = SumIn(unbond_orders, t)
                                          - (IF t \in S THEN withdrawable_amount(u, t) ELSE 0)
<1>1. PICK O : O = OrdersIn(unbond_orders, t)
  OBVIOUS
<1>2. PICK f : f = [k \in O |-> unbond_orders[k]]
  OBVIOUS
<1>3. PICK h : h = [k \in OrdersIn(Remaining(u, S), t) |-> Remaining(u, S)[k]]
  OBVIOUS
<1>4. PICK E : E = {k \in PulledKeys(u, S) : k[2] = t}
  OBVIOUS
<1>5. O \subseteq DOMAIN unbond_orders
  BY <1>1 DEF OrdersIn
<1>6. IsFiniteSet(O) /\ \A k \in O : f[k] \in Nat
  <2>1. IsFiniteSet(O)
    BY <1>5, FS_Subset
  <2>2. QED BY <1>2, <1>5, <2>1 DEF TypeOK
<1>a. PICK R : R = Remaining(u, S)
  OBVIOUS
<1>b. DOMAIN R = DOMAIN unbond_orders \ PulledKeys(u, S)
  BY <1>a, RemainingAre
<1>c. \A k \in DOMAIN R : R[k] = unbond_orders[k]
  <2>1. R = [k \in DOMAIN unbond_orders \ PulledKeys(u, S) |-> unbond_orders[k]]
    BY <1>a, RemainingAre
  <2>2. QED BY <2>1
<1>d. OrdersIn(R, t) = O \ E
  BY <1>1, <1>4, <1>b DEF OrdersIn
<1>7. OrdersIn(Remaining(u, S), t) = O \ E
  BY <1>a, <1>d
<1>8. E \subseteq O
  BY <1>1, <1>4 DEF OrdersIn, PulledKeys
<1>9. \A k \in O \ E : h[k] = f[k]
  <2>1. SUFFICES ASSUME NEW k \in O \ E PROVE h[k] = f[k]
    OBVIOUS
  <2>2. k \in OrdersIn(R, t)
    BY <1>d
  <2>3. k \in DOMAIN R
    BY <2>2 DEF OrdersIn
  <2>4. h[k] = R[k]
    BY <1>3, <1>a, <2>2
  <2>5. QED BY <1>2, <1>c, <2>3, <2>4
<1>10. SumFunctionOnSet(h, O \ E) = SumFunctionOnSet(f, O) - SumFunctionOnSet(f, E)
  BY ONLY <1>6, <1>8, <1>9, SumDrop
<1>11. SumFunctionOnSet(f, E) = IF t \in S THEN withdrawable_amount(u, t) ELSE 0
  <2>1. CASE t \in S
    <3>1. E = {k \in PulledKeys(u, {t}) : TRUE}
      BY <1>4, <2>1 DEF PulledKeys
    <3>2. SumFunctionOnSet([k \in OrdersIn(unbond_orders, t) |-> unbond_orders[k]], E)
            = withdrawable_amount(u, t)
      BY <3>1, PulledAmount
    <3>3. QED BY <1>1, <1>2, <2>1, <3>2
  <2>2. CASE t \notin S
    <3>1. E = {}
      BY <1>4, <2>2 DEF PulledKeys
    <3>2. IsFiniteSet(E)
      BY <3>1, FS_EmptySet
    <3>3. SumFunctionOnSet(f, E) = 0
      BY <3>1, <3>2, SumPick
    <3>4. QED BY <2>2, <3>3
  <2>3. QED BY <2>1, <2>2
<1>12. SumFunctionOnSet(f, O) \in Nat /\ SumFunctionOnSet(h, O \ E) \in Nat
  <2>1. IsFiniteSet(O \ E)
    BY <1>6, FS_Subset
  <2>2. \A k \in O \ E : h[k] \in Nat
    BY <1>6, <1>9
  <2>3. QED BY <1>6, <2>1, <2>2, SumNat
<1>13. SumIn(unbond_orders, t) = SumFunctionOnSet(f, O)
  BY <1>1, <1>2 DEF SumIn
<1>14. SumIn(Remaining(u, S), t) = SumFunctionOnSet(h, O \ E)
  BY <1>3, <1>7 DEF SumIn
<1>15. QED BY <1>10, <1>11, <1>12, <1>13, <1>14

\* What a new order adds.
LEMMA PlacedSum ==
  ASSUME NEW m, IsFiniteSet(DOMAIN m), \A k \in DOMAIN m : m[k] \in Nat,
         NEW p, p \notin DOMAIN m, NEW a \in Nat,
         NEW n, n = [k \in DOMAIN m \cup {p} |-> IF k = p THEN a ELSE m[k]]
  PROVE  \A t : SumIn(n, t) = SumIn(m, t) + (IF t = p[2] THEN a ELSE 0)
<1>1. SUFFICES ASSUME NEW t PROVE SumIn(n, t) = SumIn(m, t) + (IF t = p[2] THEN a ELSE 0)
  OBVIOUS
<1>2. PICK O : O = OrdersIn(m, t)
  OBVIOUS
<1>3. PICK f : f = [k \in O |-> m[k]]
  OBVIOUS
<1>4. PICK h : h = [k \in OrdersIn(n, t) |-> n[k]]
  OBVIOUS
<1>5. O \subseteq DOMAIN m /\ p \notin O
  BY <1>2 DEF OrdersIn
<1>6. IsFiniteSet(O) /\ \A k \in O : f[k] \in Nat
  <2>1. IsFiniteSet(O)
    BY <1>5, FS_Subset
  <2>2. QED BY <1>3, <1>5, <2>1
<1>7. SumIn(m, t) = SumFunctionOnSet(f, O)
  BY <1>2, <1>3 DEF SumIn
<1>8. SumFunctionOnSet(f, O) \in Nat
  BY <1>6, SumNat
<1>9. CASE t = p[2]
  <2>1. OrdersIn(n, t) = O \cup {p}
    BY <1>2, <1>9 DEF OrdersIn
  <2>2. h[p] = a /\ \A k \in O : h[k] = f[k]
    BY <1>3, <1>4, <1>5, <2>1
  <2>3. \A k \in O : f[k] \in Nat /\ h[k] = f[k]
    BY <1>6, <2>2
  <2>4. SumFunctionOnSet(h, O \cup {p}) = SumFunctionOnSet(f, O) + h[p]
    BY ONLY <1>5, <1>6, <2>2, <2>3, SumExtend, a \in Nat
  <2>5. SumIn(n, t) = SumFunctionOnSet(h, O \cup {p})
    BY <1>4, <2>1 DEF SumIn
  <2>6. QED BY <1>7, <1>9, <2>2, <2>4, <2>5
<1>10. CASE t # p[2]
  <2>1. OrdersIn(n, t) = O
    BY <1>2, <1>10 DEF OrdersIn
  <2>2. \A k \in O : f[k] \in Nat /\ h[k] = f[k]
    BY <1>3, <1>4, <1>5, <1>6, <2>1
  <2>3. SumFunctionOnSet(h, O) = SumFunctionOnSet(f, O)
    BY ONLY <1>6, <2>2, SumEqual
  <2>4. SumIn(n, t) = SumFunctionOnSet(h, O)
    BY <1>4, <2>1 DEF SumIn
  <2>5. QED BY <1>7, <1>8, <1>10, <2>3, <2>4
<1>11. QED BY <1>9, <1>10

-----------------------------------------------------------------------------
\* A staker's record, there or not, and what pulling and computing make of it.
LEMMA RecordIs ==
  ASSUME TypeOK, NEW u \in Users, NEW t \in DOMAIN pools
  PROVE  Record(u, t) \in RewardInfo /\ Record(u, t).reward_index <= pools[t].reward_index
<1>1. CASE <<u, t>> \in DOMAIN reward_info
  BY <1>1 DEF TypeOK, Record
<1>2. CASE <<u, t>> \notin DOMAIN reward_info
  <2>1. Record(u, t) = DefaultRewardInfo
    BY <1>2 DEF Record
  <2>2. pools[t].reward_index \in Nat
    BY DEF TypeOK, PoolInfo
  <2>3. QED BY <2>1, <2>2 DEF DefaultRewardInfo, RewardInfo
<1>3. QED BY <1>1, <1>2

LEMMA PulledIs ==
  ASSUME TypeOK, NEW u \in Users, NEW t \in DOMAIN pools
  PROVE  /\ Pulled(u, t) =
              [reward_index |-> Record(u, t).reward_index,
               bond_amount |-> Record(u, t).bond_amount,
               withdrawable_amount |-> Record(u, t).withdrawable_amount + withdrawable_amount(u, t),
               pending_reward |-> Record(u, t).pending_reward]
         /\ Pulled(u, t) \in RewardInfo
<1>1. PICK r \in RewardInfo : r = Record(u, t)
  BY RecordIs
<1>2. PICK w \in Nat : w = withdrawable_amount(u, t)
  BY WithdrawableNat
<1>3. Pulled(u, t) = [r EXCEPT !.withdrawable_amount = @ + w]
  BY <1>1, <1>2 DEF Pulled
<1>4. Pulled(u, t) =
        [reward_index |-> r.reward_index, bond_amount |-> r.bond_amount,
         withdrawable_amount |-> r.withdrawable_amount + w, pending_reward |-> r.pending_reward]
  BY <1>3 DEF RewardInfo
<1>5. Pulled(u, t) \in RewardInfo
  BY <1>4 DEF RewardInfo
<1>6. QED BY <1>1, <1>2, <1>4, <1>5

LEMMA EarnedIs ==
  ASSUME TypeOK, NEW u \in Users, NEW t \in DOMAIN pools, NEW q, Brought(pools[t], q)
  PROVE  \E n \in Nat :
           compute_staker_reward(q, Pulled(u, t)) =
              [reward_index |-> q.reward_index,
               bond_amount |-> Record(u, t).bond_amount,
               withdrawable_amount |-> Record(u, t).withdrawable_amount + withdrawable_amount(u, t),
               pending_reward |-> Record(u, t).pending_reward + n]
<1>1. q \in PoolInfo /\ pools[t].reward_index <= q.reward_index
  BY DEF Brought
<1>2. Pulled(u, t) \in RewardInfo /\ Pulled(u, t).reward_index = Record(u, t).reward_index
  BY PulledIs
<1>3. Pulled(u, t).reward_index <= q.reward_index
  <2>1. Record(u, t).reward_index <= pools[t].reward_index
    BY RecordIs
  <2>2. Record(u, t).reward_index \in Nat /\ pools[t].reward_index \in Nat /\ q.reward_index \in Nat
    BY <1>1, RecordIs DEF TypeOK, PoolInfo, RewardInfo
  <2>3. QED BY <1>1, <1>2, <2>1, <2>2
<1>4. PICK n \in Nat : compute_staker_reward(q, Pulled(u, t)) =
           [reward_index |-> q.reward_index, bond_amount |-> Pulled(u, t).bond_amount,
            withdrawable_amount |-> Pulled(u, t).withdrawable_amount,
            pending_reward |-> Pulled(u, t).pending_reward + n]
  BY <1>1, <1>2, <1>3, StakerComputed
<1>5. /\ Pulled(u, t).bond_amount = Record(u, t).bond_amount
      /\ Pulled(u, t).withdrawable_amount = Record(u, t).withdrawable_amount + withdrawable_amount(u, t)
      /\ Pulled(u, t).pending_reward = Record(u, t).pending_reward
  BY PulledIs
<1>6. QED BY <1>4, <1>5

-----------------------------------------------------------------------------
\* A call of u saves the records info of the pools of S, or removes them when there is
\* nothing in them, and touches no other record.
Emptied(i) == i.bond_amount = 0 /\ i.withdrawable_amount = 0 /\ i.pending_reward = 0
RecordsMoved(u, S, info) ==
  /\ DOMAIN reward_info' \subseteq DOMAIN reward_info \cup {<<u, t>> : t \in S}
  /\ \A k \in DOMAIN reward_info : k \in DOMAIN reward_info' \/ (k[1] = u /\ k[2] \in S)
  /\ reward_info' = [k \in DOMAIN reward_info' |->
                       IF k[1] = u /\ k[2] \in S THEN info[k[2]] ELSE reward_info[k]]
  /\ \A t \in S : <<u, t>> \in DOMAIN reward_info'
                  \/ Emptied(info[t])

LEMMA RecordsAfter ==
  ASSUME NEW u, NEW S, NEW info, RecordsMoved(u, S, info)
  PROVE  /\ \A x, t : ~(x = u /\ t \in S) => Record(x, t)' = Record(x, t)
         /\ \A t \in S : /\ Record(u, t)'.bond_amount = info[t].bond_amount
                         /\ Record(u, t)'.withdrawable_amount = info[t].withdrawable_amount
<1>1. ASSUME NEW x, NEW t, ~(x = u /\ t \in S) PROVE Record(x, t)' = Record(x, t)
  <2>1. <<x, t>> \in DOMAIN reward_info' <=> <<x, t>> \in DOMAIN reward_info
    BY <1>1 DEF RecordsMoved
  <2>2. <<x, t>> \in DOMAIN reward_info' => reward_info'[<<x, t>>] = reward_info[<<x, t>>]
    BY <1>1 DEF RecordsMoved
  <2>3. QED BY <2>1, <2>2 DEF Record
<1>2. ASSUME NEW t \in S
      PROVE  /\ Record(u, t)'.bond_amount = info[t].bond_amount
             /\ Record(u, t)'.withdrawable_amount = info[t].withdrawable_amount
  <2>1. CASE <<u, t>> \in DOMAIN reward_info'
    <3>1. reward_info'[<<u, t>>] = info[t]
      BY <2>1 DEF RecordsMoved
    <3>2. QED BY <2>1, <3>1 DEF Record
  <2>2. CASE <<u, t>> \notin DOMAIN reward_info'
    <3>1. Record(u, t)' = [reward_index |-> 0, bond_amount |-> 0,
                           withdrawable_amount |-> 0, pending_reward |-> 0]
      BY <2>2 DEF Record, DefaultRewardInfo
    <3>2. info[t].bond_amount = 0 /\ info[t].withdrawable_amount = 0
      BY <2>2 DEF RecordsMoved, Emptied
    <3>3. QED BY <3>1, <3>2
  <2>3. QED BY <2>1, <2>2
<1>3. QED BY <1>1, <1>2

\* What the pools do meanwhile: none comes or goes, and no index falls.
PoolsGrow ==
  /\ DOMAIN pools' = DOMAIN pools
  /\ pools' \in [DOMAIN pools -> PoolInfo]
  /\ \A t \in DOMAIN pools : pools[t].reward_index <= pools'[t].reward_index

LEMMA StakesTypeAfter ==
  ASSUME TypeOK, PoolsGrow, NEW u \in Users, NEW S \in SUBSET DOMAIN pools, NEW info,
         RecordsMoved(u, S, info), StakersIndexed',
         \A t \in S : info[t] \in RewardInfo /\ info[t].reward_index <= pools'[t].reward_index
  PROVE  StakesType'
<1>1. DOMAIN reward_info' \subseteq Users \X (DOMAIN pools')
  BY DEF TypeOK, PoolsGrow, RecordsMoved
<1>2. \A k \in DOMAIN reward_info' : k = <<k[1], k[2]>> /\ k[1] \in Users /\ k[2] \in DOMAIN pools
  BY <1>1 DEF PoolsGrow
<1>3. ASSUME NEW k \in DOMAIN reward_info'
      PROVE  reward_info'[k] \in RewardInfo /\ reward_info'[k].reward_index <= pools'[k[2]].reward_index
  <2>1. CASE k[1] = u /\ k[2] \in S
    <3>1. reward_info'[k] = info[k[2]]
      BY <2>1 DEF RecordsMoved
    <3>2. QED BY <2>1, <3>1
  <2>2. CASE ~(k[1] = u /\ k[2] \in S)
    <3>1. k \in DOMAIN reward_info
      BY <2>2 DEF RecordsMoved
    <3>2. reward_info'[k] = reward_info[k]
      BY <2>2 DEF RecordsMoved
    <3>3. /\ reward_info[k] \in RewardInfo /\ reward_info[k].reward_index <= pools[k[2]].reward_index
          /\ pools[k[2]] \in PoolInfo
      BY <1>2, <3>1 DEF TypeOK
    <3>4. pools[k[2]].reward_index <= pools'[k[2]].reward_index /\ pools'[k[2]] \in PoolInfo
      BY <1>2 DEF PoolsGrow
    <3>5. reward_info[k].reward_index \in Nat /\ pools[k[2]].reward_index \in Nat
          /\ pools'[k[2]].reward_index \in Nat
      BY <3>3, <3>4 DEF PoolInfo, RewardInfo
    <3>6. QED BY <3>2, <3>3, <3>4, <3>5
  <2>3. QED BY <2>1, <2>2
<1>4. reward_info' \in [DOMAIN reward_info' -> RewardInfo]
  <2>1. reward_info' = [k \in DOMAIN reward_info' |-> reward_info'[k]]
    BY DEF RecordsMoved
  <2>2. QED BY <1>3, <2>1
<1>5. staker_by_token' \subseteq (DOMAIN pools') \X Users
  BY <1>2 DEF StakersIndexed, PoolsGrow
<1>6. QED BY <1>1, <1>3, <1>4, <1>5 DEF StakesType

\* The sums over the stakers of a pool, when one of them changes.
LEMMA TablesAre ==
  ASSUME TypeOK, NEW t \in DOMAIN pools
  PROVE  /\ \A u \in Users : BondTable(t)[u] \in Nat /\ WithdrawTable(t)[u] \in Nat
         /\ SumFunctionOnSet(BondTable(t), Users) \in Nat
         /\ SumFunctionOnSet(WithdrawTable(t), Users) \in Nat
<1>1. \A u \in Users : BondTable(t)[u] \in Nat /\ WithdrawTable(t)[u] \in Nat
  BY RecordIs DEF BondTable, WithdrawTable, RewardInfo
<1>2. QED BY <1>1, SumNat, LpAssumption

\* What a call of u does to a pool it is about: the totals follow the record and the orders.
Follows(u, t, i) ==
  /\ pools'[t].total_bond_amount = pools[t].total_bond_amount - Record(u, t).bond_amount + i.bond_amount
  /\ pools'[t].total_pending_withdraw
       = pools[t].total_pending_withdraw - Record(u, t).withdrawable_amount - SumIn(unbond_orders, t)
           + i.withdrawable_amount + SumIn(unbond_orders', t)
  /\ SumIn(unbond_orders', t) \in Nat
  /\ held'[t] >= pools'[t].total_bond_amount + pools'[t].total_pending_withdraw

LEMMA AccountFollows ==
  ASSUME TypeOK, NEW u \in Users, NEW t \in DOMAIN pools, Accounted(t),
         SumIn(unbond_orders, t) \in Nat,
         NEW i \in RewardInfo, Follows(u, t, i),
         \A x \in Users \ {u} : Record(x, t)' = Record(x, t),
         Record(u, t)'.bond_amount = i.bond_amount,
         Record(u, t)'.withdrawable_amount = i.withdrawable_amount
  PROVE  Accounted(t)'
<1>1. PICK b : b = BondTable(t)
  OBVIOUS
<1>2. PICK w : w = WithdrawTable(t)
  OBVIOUS
<1>3. PICK c : c = BondTable(t)'
  OBVIOUS
<1>4. PICK v : v = WithdrawTable(t)'
  OBVIOUS
<1>5. \A x \in Users \ {u} : c[x] = b[x] /\ v[x] = w[x]
  BY <1>1, <1>2, <1>3, <1>4 DEF BondTable, WithdrawTable
<1>6. c[u] = i.bond_amount /\ v[u] = i.withdrawable_amount
  BY <1>3, <1>4 DEF BondTable, WithdrawTable
<1>7. b[u] = Record(u, t).bond_amount /\ w[u] = Record(u, t).withdrawable_amount
  BY <1>1, <1>2 DEF BondTable, WithdrawTable
<1>8. i.bond_amount \in Nat /\ i.withdrawable_amount \in Nat
  BY DEF RewardInfo
<1>9. \A x \in Users : b[x] \in Nat /\ w[x] \in Nat
  BY <1>1, <1>2, TablesAre
<1>10. \A x \in Users : c[x] \in Nat /\ v[x] \in Nat
  BY <1>5, <1>6, <1>8, <1>9
<1>11. SumFunctionOnSet(c, Users) = SumFunctionOnSet(b, Users) - b[u] + c[u]
  <2>1. \A x \in Users : b[x] \in Nat /\ c[x] \in Nat
    BY <1>9, <1>10
  <2>2. \A x \in Users \ {u} : c[x] = b[x]
    BY <1>5
  <2>3. QED BY <2>1, <2>2, SumUpdate, LpAssumption
<1>12. SumFunctionOnSet(v, Users) = SumFunctionOnSet(w, Users) - w[u] + v[u]
  <2>1. \A x \in Users : w[x] \in Nat /\ v[x] \in Nat
    BY <1>9, <1>10
  <2>2. \A x \in Users \ {u} : v[x] = w[x]
    BY <1>5
  <2>3. QED BY <2>1, <2>2, SumUpdate, LpAssumption
<1>13. SumFunctionOnSet(b, Users) \in Nat /\ SumFunctionOnSet(w, Users) \in Nat
  BY <1>1, <1>2, TablesAre
<1>14. /\ pools[t].total_bond_amount = SumFunctionOnSet(b, Users)
       /\ pools[t].total_pending_withdraw = SumFunctionOnSet(w, Users) + SumIn(unbond_orders, t)
  BY <1>1, <1>2 DEF Accounted
<1>15. /\ pools'[t].total_bond_amount = SumFunctionOnSet(c, Users)
       /\ pools'[t].total_pending_withdraw = SumFunctionOnSet(v, Users) + SumIn(unbond_orders', t)
       /\ held'[t] >= pools'[t].total_bond_amount + pools'[t].total_pending_withdraw
  <2>1. b[u] \in Nat /\ w[u] \in Nat
    BY <1>9
  <2>2. QED BY <2>1, <1>6, <1>7, <1>8, <1>11, <1>12, <1>13, <1>14 DEF Follows
<1>16. QED BY <1>3, <1>4, <1>15 DEF Accounted, SumIn, OrdersIn

\* A pool no call is about keeps its account.
LEMMA AccountStays ==
  ASSUME NEW t, Accounted(t), SumIn(unbond_orders', t) = SumIn(unbond_orders, t),
         \A x \in Users : Record(x, t)' = Record(x, t),
         pools'[t].total_bond_amount = pools[t].total_bond_amount,
         pools'[t].total_pending_withdraw = pools[t].total_pending_withdraw,
         held'[t] = held[t]
  PROVE  Accounted(t)'
<1>1. BondTable(t)' = BondTable(t) /\ WithdrawTable(t)' = WithdrawTable(t)
  BY DEF BondTable, WithdrawTable
<1>2. SumIn(unbond_orders, t)' = SumIn(unbond_orders, t)
  BY DEF SumIn, OrdersIn
<1>3. QED BY <1>1, <1>2 DEF Accounted

\* A call of u about the pools of S, as the accounts see it.
UserMoves(u, S, info) ==
  /\ RecordsMoved(u, S, info)
  /\ DOMAIN pools' = DOMAIN pools
  /\ \A t \in S : info[t] \in RewardInfo /\ Follows(u, t, info[t])
  /\ \A t \in DOMAIN pools \ S :
       /\ SumIn(unbond_orders', t) = SumIn(unbond_orders, t)
       /\ pools'[t].total_bond_amount = pools[t].total_bond_amount
       /\ pools'[t].total_pending_withdraw = pools[t].total_pending_withdraw
       /\ held'[t] = held[t]

LEMMA AccountsAfter ==
  ASSUME LpInv, NEW u \in Users, NEW S \in SUBSET DOMAIN pools, NEW info, UserMoves(u, S, info)
  PROVE  \A t \in DOMAIN pools' : Accounted(t)'
<1>1. SUFFICES ASSUME NEW t \in DOMAIN pools PROVE Accounted(t)'
  BY DEF UserMoves
<1>2. TypeOK /\ Accounted(t) /\ IsFiniteSet(DOMAIN unbond_orders)
  BY DEF LpInv
<1>3. RecordsMoved(u, S, info)
  BY DEF UserMoves
<1>4. CASE t \in S
  <2>1. info[t] \in RewardInfo /\ Follows(u, t, info[t])
    BY <1>4 DEF UserMoves
  <2>2. SumIn(unbond_orders, t) \in Nat
    BY <1>2, PulledSum
  <2>3. /\ \A x \in Users \ {u} : Record(x, t)' = Record(x, t)
        /\ Record(u, t)'.bond_amount = info[t].bond_amount
        /\ Record(u, t)'.withdrawable_amount = info[t].withdrawable_amount
    BY <1>3, <1>4, RecordsAfter
  <2>4. QED BY <1>2, <2>1, <2>2, <2>3, AccountFollows
<1>5. CASE t \notin S
  <2>1. \A x \in Users : Record(x, t)' = Record(x, t)
    BY <1>3, <1>5, RecordsAfter
  <2>2. QED BY <1>2, <1>5, <2>1, AccountStays DEF UserMoves
<1>6. QED BY <1>4, <1>5

-----------------------------------------------------------------------------
\* update_or_remove_staker_rewards of records that are there.
LEMMA SaveMoves ==
  ASSUME TypeOK, StakersIndexed, NEW u, NEW S, NEW info, NEW pending, Save(u, S, info, pending),
         \A t \in S : <<u, t>> \in DOMAIN reward_info /\ info[t] \in RewardInfo
  PROVE  /\ RecordsMoved(u, S, info)
         /\ StakersIndexed'
         /\ \A t \in S : <<u, t>> \in DOMAIN reward_info' \/ ~ pending[t]
<1>1. PICK K : K = {t \in S : KeepRecord(info[t], pending[t])}
  OBVIOUS
<1>2. PICK gone : gone = {<<u, t>> : t \in S \ K}
  OBVIOUS
<1>3. /\ reward_info' = [k \in (DOMAIN reward_info \ gone) \cup {<<u, t>> : t \in K} |->
                           IF k[1] = u /\ k[2] \in S THEN info[k[2]] ELSE reward_info[k]]
      /\ staker_by_token' = staker_by_token \ {<<k[2], k[1]>> : k \in gone}
  BY <1>1, <1>2 DEF Save
<1>4. K \subseteq S
  BY <1>1
<1>5. (DOMAIN reward_info \ gone) \cup {<<u, t>> : t \in K} = DOMAIN reward_info \ gone
  BY <1>2, <1>4
<1>6. reward_info' = [k \in DOMAIN reward_info \ gone |->
                        IF k[1] = u /\ k[2] \in S THEN info[k[2]] ELSE reward_info[k]]
  BY <1>3, <1>5
<1>7. DOMAIN reward_info' = DOMAIN reward_info \ gone
  BY <1>6
<1>8. ASSUME NEW t \in S
      PROVE  \/ <<u, t>> \in DOMAIN reward_info'
             \/ (Emptied(info[t]) /\ ~ pending[t])
  <2>1. CASE t \in K
    BY <1>2, <1>7, <2>1
  <2>2. CASE t \notin K
    <3>1. ~ KeepRecord(info[t], pending[t])
      BY <1>1, <2>2
    <3>2. info[t].bond_amount \in Nat /\ info[t].withdrawable_amount \in Nat
          /\ info[t].pending_reward \in Nat
      BY DEF RewardInfo
    <3>3. QED BY <3>1, <3>2 DEF KeepRecord, Emptied
  <2>3. QED BY <2>1, <2>2
<1>9. RecordsMoved(u, S, info)
  <2>1. DOMAIN reward_info' \subseteq DOMAIN reward_info \cup {<<u, t>> : t \in S}
    BY <1>7
  <2>2. \A k \in DOMAIN reward_info : k \in DOMAIN reward_info' \/ (k[1] = u /\ k[2] \in S)
    BY <1>2, <1>7
  <2>3. reward_info' = [k \in DOMAIN reward_info' |->
                         IF k[1] = u /\ k[2] \in S THEN info[k[2]] ELSE reward_info[k]]
    BY <1>6, <1>7
  <2>4. \A t \in S : <<u, t>> \in DOMAIN reward_info'
                       \/ Emptied(info[t])
    BY <1>8
  <2>5. QED BY <2>1, <2>2, <2>3, <2>4, Zenon DEF RecordsMoved
<1>10. StakersIndexed'
  <2>1. \A k \in DOMAIN reward_info : k = <<k[1], k[2]>>
    BY DEF TypeOK
  <2>2. staker_by_token = {<<k[2], k[1]>> : k \in DOMAIN reward_info}
    BY DEF StakersIndexed
  <2>3. gone \subseteq DOMAIN reward_info
    BY <1>2
  <2>4. {<<k[2], k[1]>> : k \in DOMAIN reward_info} \ {<<k[2], k[1]>> : k \in gone}
          = {<<k[2], k[1]>> : k \in DOMAIN reward_info \ gone}
    BY <2>1, <2>3
  <2>5. staker_by_token' = {<<k[2], k[1]>> : k \in DOMAIN reward_info'}
    BY <1>3, <1>7, <2>2, <2>4
  <2>6. QED BY <2>5 DEF StakersIndexed
<1>11. QED BY <1>8, <1>9, <1>10

\* Nobody who has an order left is without a record.
LEMMA RecordedAfter ==
  ASSUME TypeOK, OrdersRecorded, NEW u, NEW S, NEW info, RecordsMoved(u, S, info),
         \A t \in S : <<u, t>> \in DOMAIN reward_info' \/ ~ orders_pending(u, t),
         \A k \in DOMAIN unbond_orders' :
           k \in DOMAIN Remaining(u, S) \/ <<k[1], k[2]>> \in DOMAIN reward_info'
  PROVE  OrdersRecorded'
<1>1. SUFFICES ASSUME NEW k \in DOMAIN unbond_orders', <<k[1], k[2]>> \notin DOMAIN reward_info'
               PROVE  FALSE
  BY DEF OrdersRecorded
<1>2. k \in DOMAIN unbond_orders \ PulledKeys(u, S)
  BY <1>1, RemainingAre
<1>3. <<k[1], k[2]>> \in DOMAIN reward_info
  BY <1>2 DEF OrdersRecorded
<1>4. k[1] = u /\ k[2] \in S
  BY <1>1, <1>3 DEF RecordsMoved
<1>5. ~ orders_pending(u, k[2])
  BY <1>1, <1>4
<1>6. ExpiredOrders(u, k[2]) = OrderTimes(u, k[2])
  BY <1>5, NothingPending
<1>7. k[3] \in OrderTimes(u, k[2])
  BY <1>2, <1>4 DEF OrderTimes
<1>8. QED BY <1>2, <1>4, <1>6, <1>7 DEF PulledKeys

\* What a call leaves of the orders.
LEMMA RemainingType ==
  ASSUME TypeOK, IsFiniteSet(DOMAIN unbond_orders), NEW u, NEW S
  PROVE  /\ DOMAIN Remaining(u, S) \subseteq DOMAIN unbond_orders
         /\ IsFiniteSet(DOMAIN Remaining(u, S))
         /\ \A k \in DOMAIN Remaining(u, S) : Remaining(u, S)[k] \in Nat
         /\ Remaining(u, S) \in [DOMAIN Remaining(u, S) -> Nat]
<1>1. PICK R : R = Remaining(u, S)
  OBVIOUS
<1>2. R = [k \in DOMAIN unbond_orders \ PulledKeys(u, S) |-> unbond_orders[k]]
  BY <1>1, RemainingAre
<1>3. DOMAIN R \subseteq DOMAIN unbond_orders
  BY <1>2
<1>4. IsFiniteSet(DOMAIN R)
  BY <1>3, FS_Subset
<1>5. R \in [DOMAIN R -> Nat]
  BY <1>2, <1>3 DEF TypeOK
<1>6. QED BY <1>1, <1>3, <1>4, <1>5

-----------------------------------------------------------------------------
\* The whole of a staker's call, for the invariant.
UserCall(u, S, info) ==
  /\ UserMoves(u, S, info)
  /\ PoolsGrow
  /\ StakersIndexed' /\ OrdersRecorded'
  /\ \A t \in S : info[t].reward_index <= pools'[t].reward_index
  /\ \A t \in DOMAIN pools : pools'[t].weight = pools[t].weight /\ pools'[t].last_distributed <= now
  /\ IsFiniteSet(DOMAIN unbond_orders')
  /\ DOMAIN unbond_orders' \subseteq DOMAIN unbond_orders \cup {<<u, t, now>> : t \in S}
  /\ unbond_orders' \in [DOMAIN unbond_orders' -> Nat]
  /\ prism' \in Nat /\ held' \in [Tokens -> Nat] /\ rebonds' \in Nat
  /\ UNCHANGED <<configVars, now>>

LEMMA UserCallKeeps ==
  ASSUME LpInv, NEW u \in Users, NEW S \in SUBSET DOMAIN pools, NEW info, UserCall(u, S, info)
  PROVE  LpInv'
<1>1. TypeOK /\ WeightsAgree
  BY DEF LpInv
<1>2. ConfigType /\ PoolsType /\ OrdersType
  BY <1>1, TypeParts
<1>3. UNCHANGED <<owner, distribution_schedule, total_weight, repriced, now>>
  BY DEF UserCall, configVars
<1>4. ConfigType'
  BY <1>2, <1>3 DEF ConfigType, UserCall
<1>5. PoolsType'
  BY <1>2, <1>3 DEF PoolsType, UserCall, PoolsGrow
<1>6. StakesType'
  BY <1>1, StakesTypeAfter DEF UserCall, UserMoves
<1>7. OrdersType'
  <2>1. DOMAIN pools' = DOMAIN pools /\ now' = now /\ now \in 0..now
    BY <1>2, <1>3 DEF UserCall, PoolsGrow, ConfigType
  <2>2. DOMAIN unbond_orders' \subseteq Users \X (DOMAIN pools) \X (0..now)
    BY <1>2, <2>1 DEF UserCall, OrdersType
  <2>3. QED BY <2>1, <2>2 DEF UserCall, OrdersType
<1>8. TypeOK'
  BY <1>4, <1>5, <1>6, <1>7, TypePartsNext
<1>9. WeightsAgree'
  <2>1. WeightTable' = WeightTable
    BY DEF WeightTable, UserCall, PoolsGrow
  <2>2. QED BY <1>1, <1>3, <2>1 DEF WeightsAgree, UserCall, PoolsGrow
<1>10. \A t \in DOMAIN pools' : Accounted(t)'
  BY AccountsAfter DEF UserCall
<1>11. IsFiniteSet(DOMAIN unbond_orders') /\ StakersIndexed' /\ OrdersRecorded'
  BY DEF UserCall
<1>12. QED BY <1>8, <1>9, <1>10, <1>11 DEF LpInv

-----------------------------------------------------------------------------
\* A call about one pool, which leaves the record i and the pool p.
OneCall(u, t, i, p) ==
  /\ RecordsMoved(u, {t}, [x \in {t} |-> i])
  /\ StakersIndexed' /\ OrdersRecorded'
  /\ pools' = [pools EXCEPT ![t] = p]
  /\ p.weight = pools[t].weight /\ p.last_distributed <= now
  /\ pools[t].reward_index <= p.reward_index /\ i.reward_index <= p.reward_index
  /\ Follows(u, t, i)
  /\ \A x \in DOMAIN pools \ {t} :
       SumIn(unbond_orders', x) = SumIn(unbond_orders, x) /\ held'[x] = held[x]
  /\ IsFiniteSet(DOMAIN unbond_orders')
  /\ DOMAIN unbond_orders' \subseteq DOMAIN unbond_orders \cup {<<u, t, now>>}
  /\ unbond_orders' \in [DOMAIN unbond_orders' -> Nat]
  /\ prism' \in Nat /\ held' \in [Tokens -> Nat] /\ rebonds' \in Nat
  /\ UNCHANGED <<configVars, now>>

\* The record and the pool are brought up to now, and the expired orders pulled.
Up(t) == compute_pool_reward(pools[t], total_weight)
Earned(u, t) == compute_staker_reward(Up(t), Pulled(u, t))
Settled(u, t, i, p) ==
  /\ i.withdrawable_amount = Record(u, t).withdrawable_amount + withdrawable_amount(u, t)
  /\ i.reward_index = Up(t).reward_index
  /\ p.reward_index = Up(t).reward_index /\ p.pending_reward = Up(t).pending_reward
  /\ p.last_distributed = now /\ p.unbond_period = pools[t].unbond_period

LEMMA OneCallKeeps ==
  ASSUME LpInv, NEW u \in Users, NEW t \in DOMAIN pools, NEW i \in RewardInfo, NEW p \in PoolInfo,
         OneCall(u, t, i, p)
  PROVE  LpInv'
<1>1. PICK info : info = [x \in {t} |-> i]
  OBVIOUS
<1>2. PICK S \in SUBSET DOMAIN pools : S = {t}
  OBVIOUS
<1>3. ConfigType /\ PoolsType
  BY TypeParts DEF LpInv
<1>4. /\ DOMAIN pools' = DOMAIN pools /\ pools'[t] = p
      /\ \A x \in DOMAIN pools \ {t} : pools'[x] = pools[x]
      /\ pools' \in [DOMAIN pools -> PoolInfo]
  BY <1>3 DEF PoolsType, OneCall
<1>5. RecordsMoved(u, S, info)
  BY <1>1, <1>2 DEF OneCall
<1>6. PoolsGrow
  <2>1. ASSUME NEW x \in DOMAIN pools PROVE pools[x].reward_index <= pools'[x].reward_index
    <3>1. CASE x = t
      BY <1>4, <3>1 DEF OneCall
    <3>2. CASE x # t
      <4>1. pools'[x] = pools[x] /\ pools[x].reward_index \in Nat
        BY <1>3, <1>4, <3>2 DEF PoolsType, PoolInfo
      <4>2. QED BY <4>1
    <3>3. QED BY <3>1, <3>2
  <2>2. QED BY <1>4, <2>1 DEF PoolsGrow
<1>7. UserMoves(u, S, info)
  <2>1. \A x \in S : info[x] \in RewardInfo /\ Follows(u, x, info[x])
    BY <1>1, <1>2 DEF OneCall
  <2>2. \A x \in DOMAIN pools \ S :
          SumIn(unbond_orders', x) = SumIn(unbond_orders, x) /\ held'[x] = held[x]
    BY <1>2 DEF OneCall
  <2>3. \A x \in DOMAIN pools \ S : pools'[x] = pools[x]
    BY <1>2, <1>4
  <2>4. QED BY <1>4, <1>5, <2>1, <2>2, <2>3 DEF UserMoves
<1>8. \A x \in S : info[x].reward_index <= pools'[x].reward_index
  <2>1. info[t] = i /\ pools'[t] = p
    BY <1>1, <1>4
  <2>2. info[t].reward_index <= pools'[t].reward_index
    BY <2>1 DEF OneCall
  <2>3. QED BY <1>2, <2>2
<1>9. ASSUME NEW x \in DOMAIN pools
      PROVE  pools'[x].weight = pools[x].weight /\ pools'[x].last_distributed <= now
  <2>1. CASE x = t
    <3>1. pools'[x] = p
      BY <1>4, <2>1
    <3>2. QED BY <2>1, <3>1 DEF OneCall
  <2>2. CASE x # t
    <3>1. pools'[x] = pools[x] /\ pools[x].last_distributed <= now
      BY <1>3, <1>4, <2>2 DEF PoolsType
    <3>2. QED BY <3>1
  <2>3. QED BY <2>1, <2>2
<1>10. DOMAIN unbond_orders' \subseteq DOMAIN unbond_orders \cup {<<u, x, now>> : x \in S}
  BY <1>2 DEF OneCall
<1>11. /\ StakersIndexed' /\ OrdersRecorded' /\ IsFiniteSet(DOMAIN unbond_orders')
       /\ unbond_orders' \in [DOMAIN unbond_orders' -> Nat]
       /\ prism' \in Nat /\ held' \in [Tokens -> Nat] /\ rebonds' \in Nat
       /\ UNCHANGED <<configVars, now>>
  BY DEF OneCall
<1>12. UserCall(u, S, info)
  BY <1>6, <1>7, <1>8, <1>9, <1>10, <1>11 DEF UserCall
<1>13. QED BY <1>2, <1>12, UserCallKeeps

-----------------------------------------------------------------------------
\* bond and auto_stake_hook.
LEMMA BondedMoves ==
  ASSUME LpInv, NEW u \in Users, NEW t \in DOMAIN pools, NEW a \in Nat, Bonded(u, t, a),
         held' \in [Tokens -> Nat], \A x \in DOMAIN pools \ {t} : held'[x] = held[x],
         held'[t] >= pools[t].total_bond_amount + a + pools[t].total_pending_withdraw
  PROVE  \E i \in RewardInfo, p \in PoolInfo :
           /\ OneCall(u, t, i, p) /\ Settled(u, t, i, p)
           /\ i.pending_reward = Earned(u, t).pending_reward
           /\ p.total_pending_withdraw = pools[t].total_pending_withdraw
           /\ unbond_orders' = Remaining(u, {t})
<1>1. TypeOK /\ IsFiniteSet(DOMAIN unbond_orders) /\ StakersIndexed /\ OrdersRecorded
  BY DEF LpInv
<1>2. ConfigType /\ PoolsType
  BY <1>1, TypeParts
<1>3. PICK q : q = compute_pool_reward(pools[t], total_weight)
  OBVIOUS
<1>4. Brought(pools[t], q)
  BY <1>1, <1>3, PoolBrought DEF Bonded
<1>5. PICK n \in Nat :
        compute_staker_reward(q, Pulled(u, t)) =
          [reward_index |-> q.reward_index,
           bond_amount |-> Record(u, t).bond_amount,
           withdrawable_amount |-> Record(u, t).withdrawable_amount + withdrawable_amount(u, t),
           pending_reward |-> Record(u, t).pending_reward + n]
  BY <1>1, <1>4, EarnedIs
<1>6. PICK i : i = [reward_index |-> q.reward_index,
           bond_amount |-> Record(u, t).bond_amount + a,
           withdrawable_amount |-> Record(u, t).withdrawable_amount + withdrawable_amount(u, t),
           pending_reward |-> Record(u, t).pending_reward + n]
  OBVIOUS
<1>7. Record(u, t) \in RewardInfo /\ withdrawable_amount(u, t) \in Nat /\ q \in PoolInfo
  BY <1>1, <1>4, RecordIs, WithdrawableNat DEF Brought
<1>8. i \in RewardInfo
  BY <1>6, <1>7 DEF RewardInfo, PoolInfo
<1>9. reward_info' = [k \in DOMAIN reward_info \cup {<<u, t>>} |->
                        IF k = <<u, t>> THEN i ELSE reward_info[k]]
  <2>1. [compute_staker_reward(q, Pulled(u, t)) EXCEPT !.bond_amount = @ + a] = i
    BY <1>5, <1>6
  <2>2. QED BY <1>3, <2>1 DEF Bonded
<1>12. RecordsMoved(u, {t}, [x \in {t} |-> i])
  <2>1. DOMAIN reward_info' = DOMAIN reward_info \cup {<<u, t>>}
    BY <1>9
  <2>2. \A k \in DOMAIN reward_info' : (k[1] = u /\ k[2] \in {t}) <=> k = <<u, t>>
    BY <1>1, <2>1 DEF TypeOK
  <2>3. reward_info' = [k \in DOMAIN reward_info' |->
                          IF k[1] = u /\ k[2] \in {t} THEN [x \in {t} |-> i][k[2]] ELSE reward_info[k]]
    BY <1>9, <2>1, <2>2
  <2>4. DOMAIN reward_info' \subseteq DOMAIN reward_info \cup {<<u, x>> : x \in {t}}
    BY <2>1
  <2>5. \A k \in DOMAIN reward_info : k \in DOMAIN reward_info'
    BY <2>1
  <2>6. \A x \in {t} : <<u, x>> \in DOMAIN reward_info'
    BY <2>1
  <2>7. QED BY <2>3, <2>4, <2>5, <2>6, Zenon DEF RecordsMoved
<1>13. StakersIndexed'
  <2>1. DOMAIN reward_info' = DOMAIN reward_info \cup {<<u, t>>}
    BY <1>9
  <2>2. staker_by_token' = staker_by_token \cup {<<t, u>>}
    BY DEF Bonded
  <2>3. {<<k[2], k[1]>> : k \in DOMAIN reward_info \cup {<<u, t>>}}
          = {<<k[2], k[1]>> : k \in DOMAIN reward_info} \cup {<<t, u>>}
    <3>1. PICK v : v = <<u, t>>
      OBVIOUS
    <3>2. <<v[2], v[1]>> = <<t, u>>
      BY <3>1
    <3>3. {<<k[2], k[1]>> : k \in DOMAIN reward_info \cup {v}}
            = {<<k[2], k[1]>> : k \in DOMAIN reward_info} \cup {<<v[2], v[1]>>}
      OBVIOUS
    <3>4. QED BY <3>1, <3>2, <3>3
  <2>4. staker_by_token' = {<<k[2], k[1]>> : k \in DOMAIN reward_info'}
    BY <1>1, <2>1, <2>2, <2>3 DEF StakersIndexed
  <2>5. QED BY <2>4 DEF StakersIndexed
<1>14. pools' = [pools EXCEPT ![t] = [q EXCEPT !.total_bond_amount = @ + a]]
  BY <1>3 DEF Bonded
<1>15. PICK p \in PoolInfo :
         /\ p = [q EXCEPT !.total_bond_amount = @ + a]
         /\ p.total_bond_amount = pools[t].total_bond_amount + a
         /\ p.total_pending_withdraw = pools[t].total_pending_withdraw
         /\ p.reward_index = q.reward_index /\ p.weight = pools[t].weight
         /\ p.last_distributed = now /\ p.pending_reward = q.pending_reward
         /\ p.unbond_period = pools[t].unbond_period
  <2>1. [q EXCEPT !.total_bond_amount = @ + a] =
          [last_distributed |-> q.last_distributed, weight |-> q.weight,
           total_bond_amount |-> q.total_bond_amount + a,
           total_pending_withdraw |-> q.total_pending_withdraw, reward_index |-> q.reward_index,
           pending_reward |-> q.pending_reward, unbond_period |-> q.unbond_period]
    BY <1>7 DEF PoolInfo
  <2>2. [q EXCEPT !.total_bond_amount = @ + a] \in PoolInfo
    BY <1>7, <2>1 DEF PoolInfo
  <2>3. QED BY <1>4, <2>1, <2>2 DEF Brought
<1>18. unbond_orders' = Remaining(u, {t})
  BY DEF Bonded
<1>a. \A x : /\ SumIn(unbond_orders', x) \in Nat /\ SumIn(unbond_orders, x) \in Nat
             /\ SumIn(unbond_orders', x) = SumIn(unbond_orders, x)
                                             - (IF x \in {t} THEN withdrawable_amount(u, x) ELSE 0)
  BY <1>1, <1>18, PulledSum
<1>16. pools'[t] = p
  BY <1>14, <1>15
<1>19. Follows(u, t, i)
  <2>1. /\ SumIn(unbond_orders', t) \in Nat /\ SumIn(unbond_orders, t) \in Nat
        /\ SumIn(unbond_orders', t) = SumIn(unbond_orders, t) - withdrawable_amount(u, t)
    BY <1>a
  <2>2. /\ i.bond_amount = Record(u, t).bond_amount + a
        /\ i.withdrawable_amount = Record(u, t).withdrawable_amount + withdrawable_amount(u, t)
    BY <1>6
  <2>3. /\ Record(u, t).bond_amount \in Nat /\ Record(u, t).withdrawable_amount \in Nat
        /\ pools[t].total_bond_amount \in Nat /\ pools[t].total_pending_withdraw \in Nat
    BY <1>2, <1>7 DEF RewardInfo, PoolsType, PoolInfo
  <2>4. QED BY <1>7, <1>15, <1>16, <2>1, <2>2, <2>3 DEF Follows
<1>20. \A x \in DOMAIN pools \ {t} : SumIn(unbond_orders', x) = SumIn(unbond_orders, x)
  BY <1>a
<1>21. OrdersRecorded'
  <2>1. <<u, t>> \in DOMAIN reward_info'
    BY <1>9
  <2>2. \A x \in {t} : <<u, x>> \in DOMAIN reward_info' \/ ~ orders_pending(u, x)
    BY <2>1
  <2>3. \A k \in DOMAIN unbond_orders' :
          k \in DOMAIN Remaining(u, {t}) \/ <<k[1], k[2]>> \in DOMAIN reward_info'
    BY <1>18
  <2>4. PICK info : info = [x \in {t} |-> i]
    OBVIOUS
  <2>5. RecordsMoved(u, {t}, info)
    BY <1>12, <2>4
  <2>6. QED BY ONLY <1>1, <2>2, <2>3, <2>5, RecordedAfter
<1>22. /\ IsFiniteSet(DOMAIN unbond_orders')
       /\ DOMAIN unbond_orders' \subseteq DOMAIN unbond_orders \cup {<<u, t, now>>}
       /\ unbond_orders' \in [DOMAIN unbond_orders' -> Nat]
  BY <1>1, <1>18, RemainingType
<1>23. prism' \in Nat /\ rebonds' \in Nat /\ UNCHANGED <<configVars, now>>
  BY <1>2 DEF Bonded, ConfigType
<1>24. /\ p.last_distributed <= now /\ pools[t].reward_index <= p.reward_index
       /\ i.reward_index <= p.reward_index
  <2>1. now \in Nat /\ q.reward_index \in Nat /\ i.reward_index = q.reward_index
    BY <1>2, <1>6, <1>7 DEF ConfigType, PoolInfo
  <2>2. QED BY <1>4, <1>15, <2>1 DEF Brought
<1>25. OneCall(u, t, i, p)
  BY <1>12, <1>13, <1>14, <1>15, <1>19, <1>20, <1>21, <1>22, <1>23, <1>24 DEF OneCall
<1>26. Settled(u, t, i, p)
  BY <1>3, <1>6, <1>15 DEF Settled, Up
<1>27. i.pending_reward = Earned(u, t).pending_reward
  BY <1>3, <1>5, <1>6 DEF Earned, Up
<1>28. QED BY <1>8, <1>15, <1>18, <1>25, <1>26, <1>27

\* unbond, of no more than is bonded.
LEMMA UnbondMoves ==
  ASSUME LpInv, NEW u \in Users, NEW t \in DOMAIN pools, NEW a \in Nat, unbond(u, t, a)
  PROVE  \E i \in RewardInfo, p \in PoolInfo, c \in {0, a} :
           /\ OneCall(u, t, i, p) /\ Settled(u, t, i, p)
           /\ i.pending_reward = Earned(u, t).pending_reward
           /\ p.total_pending_withdraw = pools[t].total_pending_withdraw + c
           /\ \/ unbond_orders' = Remaining(u, {t}) /\ c = 0
              \/ /\ <<u, t, now>> \notin DOMAIN unbond_orders /\ c = a
                 /\ unbond_orders' = [k \in DOMAIN Remaining(u, {t}) \cup {<<u, t, now>>} |->
                                        IF k = <<u, t, now>> THEN a ELSE Remaining(u, {t})[k]]
<1>1. TypeOK /\ IsFiniteSet(DOMAIN unbond_orders) /\ StakersIndexed /\ OrdersRecorded /\ Accounted(t)
  BY DEF LpInv
<1>2. ConfigType /\ PoolsType
  BY <1>1, TypeParts
<1>3. PICK q : q = compute_pool_reward(pools[t], total_weight)
  OBVIOUS
<1>4. Brought(pools[t], q)
  BY <1>1, <1>3, PoolBrought DEF unbond
<1>5. PICK n \in Nat :
        compute_staker_reward(q, Pulled(u, t)) =
          [reward_index |-> q.reward_index,
           bond_amount |-> Record(u, t).bond_amount,
           withdrawable_amount |-> Record(u, t).withdrawable_amount + withdrawable_amount(u, t),
           pending_reward |-> Record(u, t).pending_reward + n]
  BY <1>1, <1>4, EarnedIs
<1>6. PICK i : i = [reward_index |-> q.reward_index,
           bond_amount |-> Record(u, t).bond_amount - a,
           withdrawable_amount |-> Record(u, t).withdrawable_amount + withdrawable_amount(u, t),
           pending_reward |-> Record(u, t).pending_reward + n]
  OBVIOUS
<1>7. Record(u, t) \in RewardInfo /\ withdrawable_amount(u, t) \in Nat /\ q \in PoolInfo
  BY <1>1, <1>4, RecordIs, WithdrawableNat DEF Brought
<1>8. a <= Record(u, t).bond_amount /\ <<u, t>> \in DOMAIN reward_info
  BY DEF unbond, Record
<1>9. i \in RewardInfo
  BY <1>6, <1>7, <1>8 DEF RewardInfo, PoolInfo
<1>10. PICK tb \in Nat, tw \in Nat : tb = pools[t].total_bond_amount /\ tw = pools[t].total_pending_withdraw
  <2>1. pools[t].total_bond_amount \in Nat /\ pools[t].total_pending_withdraw \in Nat
    BY <1>2 DEF PoolsType, PoolInfo
  <2>2. QED BY ONLY <2>1, Zenon
<1>11. Record(u, t).bond_amount <= tb
  <2>1. PICK b : b = BondTable(t)
    OBVIOUS
  <2>2. IsFiniteSet(Users) /\ \A x \in Users : b[x] \in Nat
    BY <1>1, <2>1, TablesAre, LpAssumption
  <2>3. SumFunctionOnSet(b, Users) = b[u] + SumFunctionOnSet(b, Users \ {u})
    BY <2>2, SumRemove
  <2>4. IsFiniteSet(Users \ {u})
    BY <2>2, FS_RemoveElement
  <2>5. SumFunctionOnSet(b, Users \ {u}) \in Nat
    BY <2>2, <2>4, SumNat
  <2>6. b[u] = Record(u, t).bond_amount /\ tb = SumFunctionOnSet(b, Users)
    BY <1>1, <1>10, <2>1 DEF BondTable, Accounted
  <2>7. QED BY <2>2, <2>3, <2>5, <2>6
<1>12. PICK e : e = (q.unbond_period = 0)
  OBVIOUS
<1>13. PICK c \in {0, a} : c = IF e THEN 0 ELSE a
  OBVIOUS
<1>14. PICK p : p = [q EXCEPT !.total_bond_amount = tb - a, !.total_pending_withdraw = tw + c]
  OBVIOUS
<1>15. tb - a \in Nat /\ tw + c \in Nat
  BY <1>7, <1>8, <1>11 DEF RewardInfo
<1>16. /\ p \in PoolInfo
       /\ p.total_bond_amount = tb - a /\ p.total_pending_withdraw = tw + c
       /\ p.reward_index = q.reward_index /\ p.weight = q.weight
       /\ p.last_distributed = q.last_distributed /\ p.pending_reward = q.pending_reward
       /\ p.unbond_period = q.unbond_period
  <2>1. PICK y \in Nat, z \in Nat : y = tb - a /\ z = tw + c
    BY ONLY <1>15, Zenon
  <2>2. p = [q EXCEPT !.total_bond_amount = y, !.total_pending_withdraw = z]
    BY <1>14, <2>1
  <2>3. q \in PoolInfo
    BY <1>7
  <2>4. /\ p \in PoolInfo
        /\ p.total_bond_amount = y /\ p.total_pending_withdraw = z
        /\ p.reward_index = q.reward_index /\ p.weight = q.weight
        /\ p.last_distributed = q.last_distributed /\ p.pending_reward = q.pending_reward
        /\ p.unbond_period = q.unbond_period
    BY ONLY <2>2, <2>3, y \in Nat, z \in Nat DEF PoolInfo
  <2>5. QED BY <2>1, <2>4
<1>17. pools' = [pools EXCEPT ![t] = p]
  <2>1. q.total_bond_amount = tb /\ q.total_pending_withdraw = tw
    BY <1>4, <1>10 DEF Brought
  <2>2. pools' = [pools EXCEPT ![t] =
           [q EXCEPT !.total_bond_amount = @ - a,
                     !.total_pending_withdraw = @ + (IF q.unbond_period = 0 THEN 0 ELSE a)]]
    BY <1>3 DEF unbond
  <2>3. QED BY <1>12, <1>13, <1>14, <2>1, <2>2
<1>18. PICK info : info = [x \in {t} |-> i]
  OBVIOUS
<1>19. PICK pending : pending = [x \in {t} |-> ~ e \/ orders_pending(u, t)]
  OBVIOUS
<1>20. Save(u, {t}, info, pending)
  <2>1. [compute_staker_reward(q, Pulled(u, t)) EXCEPT !.bond_amount = @ - a] = i
    BY <1>5, <1>6
  <2>2. QED BY <1>3, <1>12, <1>18, <1>19, <2>1 DEF unbond
<1>21. /\ RecordsMoved(u, {t}, info)
       /\ StakersIndexed'
       /\ \A x \in {t} : <<u, x>> \in DOMAIN reward_info' \/ ~ pending[x]
  <2>1. \A x \in {t} : <<u, x>> \in DOMAIN reward_info /\ info[x] \in RewardInfo
    BY <1>8, <1>9, <1>18
  <2>2. QED BY <1>1, <1>20, <2>1, SaveMoves
<1>22. <<u, t>> \in DOMAIN reward_info' \/ (e /\ ~ orders_pending(u, t))
  BY <1>19, <1>21
<1>23. PICK R : R = Remaining(u, {t})
  OBVIOUS
<1>24. /\ DOMAIN R \subseteq DOMAIN unbond_orders /\ IsFiniteSet(DOMAIN R)
       /\ \A k \in DOMAIN R : R[k] \in Nat /\ R[k] = unbond_orders[k]
       /\ R \in [DOMAIN R -> Nat]
  <2>1. R = [k \in DOMAIN unbond_orders \ PulledKeys(u, {t}) |-> unbond_orders[k]]
    BY <1>23, RemainingAre
  <2>2. \A k \in DOMAIN R : R[k] = unbond_orders[k]
    BY <2>1
  <2>3. /\ DOMAIN R \subseteq DOMAIN unbond_orders /\ IsFiniteSet(DOMAIN R)
        /\ R \in [DOMAIN R -> Nat]
    BY <1>1, <1>23, RemainingType
  <2>4. QED BY <2>2, <2>3
<1>25. /\ held' \in [Tokens -> Nat] /\ \A x \in DOMAIN pools \ {t} : held'[x] = held[x]
       /\ held'[t] = held[t] - a + c
  <2>1. held \in [Tokens -> Nat] /\ t \in Tokens
    BY <1>2 DEF ConfigType, PoolsType
  <2>2. CASE e
    <3>1. a <= held[t] /\ held' = [held EXCEPT ![t] = @ - a]
      BY <1>3, <1>12, <2>2 DEF unbond
    <3>2. held[t] \in Nat /\ held[t] - a \in Nat /\ c = 0
      BY <1>13, <2>1, <2>2, <3>1
    <3>3. QED BY <2>1, <3>1, <3>2
  <2>3. CASE ~ e
    <3>1. held' = held
      BY <1>3, <1>12, <2>3 DEF unbond
    <3>2. held[t] \in Nat /\ c = a
      BY <1>13, <2>1, <2>3
    <3>3. QED BY <2>1, <3>1, <3>2
  <2>4. QED BY <2>2, <2>3
<1>26. \/ unbond_orders' = R /\ c = 0
       \/ /\ <<u, t, now>> \notin DOMAIN unbond_orders /\ c = a /\ ~ e
          /\ unbond_orders' = [k \in DOMAIN R \cup {<<u, t, now>>} |->
                                 IF k = <<u, t, now>> THEN a ELSE R[k]]
  <2>1. CASE e
    BY <1>3, <1>12, <1>13, <1>23, <2>1 DEF unbond
  <2>2. CASE ~ e
    <3>1. /\ <<u, t, now>> \notin DOMAIN unbond_orders
          /\ unbond_orders' = [k \in DOMAIN R \cup {<<u, t, now>>} |->
                                 IF k = <<u, t, now>> THEN a ELSE unbond_orders[k]]
      BY <1>3, <1>12, <1>23, <2>2 DEF unbond
    <3>2. QED BY <1>13, <1>24, <2>2, <3>1
  <2>3. QED BY <2>1, <2>2
<1>27. \A x : /\ SumIn(unbond_orders, x) \in Nat /\ SumIn(unbond_orders', x) \in Nat
              /\ SumIn(unbond_orders', x)
                   = SumIn(unbond_orders, x) - (IF x \in {t} THEN withdrawable_amount(u, x) ELSE 0)
                       + (IF x = t THEN c ELSE 0)
  <2>1. SUFFICES ASSUME NEW x
                 PROVE /\ SumIn(unbond_orders, x) \in Nat /\ SumIn(unbond_orders', x) \in Nat
                       /\ SumIn(unbond_orders', x)
                            = SumIn(unbond_orders, x) - (IF x \in {t} THEN withdrawable_amount(u, x) ELSE 0)
                                + (IF x = t THEN c ELSE 0)
    OBVIOUS
  <2>2. /\ SumIn(unbond_orders, x) \in Nat /\ SumIn(R, x) \in Nat
        /\ SumIn(R, x) = SumIn(unbond_orders, x)
                           - (IF x \in {t} THEN withdrawable_amount(u, x) ELSE 0)
    BY <1>1, <1>23, PulledSum
  <2>3. SumIn(unbond_orders', x) = SumIn(R, x) + (IF x = t THEN c ELSE 0)
    <3>1. CASE unbond_orders' = R /\ c = 0
      BY <2>2, <3>1
    <3>2. CASE /\ <<u, t, now>> \notin DOMAIN unbond_orders /\ c = a
               /\ unbond_orders' = [k \in DOMAIN R \cup {<<u, t, now>>} |->
                                      IF k = <<u, t, now>> THEN a ELSE R[k]]
      <4>1. PICK k : k = <<u, t, now>>
        OBVIOUS
      <4>2. PICK m : m = unbond_orders'
        OBVIOUS
      <4>3. k \notin DOMAIN R /\ m = [j \in DOMAIN R \cup {k} |-> IF j = k THEN a ELSE R[j]]
        BY <1>24, <3>2, <4>1, <4>2
      <4>4. SumIn(m, x) = SumIn(R, x) + (IF x = k[2] THEN a ELSE 0)
        BY <1>24, <4>3, PlacedSum
      <4>5. k[2] = t
        BY <4>1
      <4>6. QED BY <3>2, <4>2, <4>4, <4>5
    <3>3. QED BY <1>26, <3>1, <3>2
  <2>4. QED BY <2>2, <2>3, <1>7
<1>28. Follows(u, t, i)
  <2>1. /\ SumIn(unbond_orders', t) \in Nat /\ SumIn(unbond_orders, t) \in Nat
        /\ SumIn(unbond_orders', t) = SumIn(unbond_orders, t) - withdrawable_amount(u, t) + c
    BY <1>27
  <2>2. /\ i.bond_amount = Record(u, t).bond_amount - a
        /\ i.withdrawable_amount = Record(u, t).withdrawable_amount + withdrawable_amount(u, t)
    BY <1>6
  <2>3. Record(u, t).bond_amount \in Nat /\ Record(u, t).withdrawable_amount \in Nat
    BY <1>7 DEF RewardInfo
  <2>4. pools'[t] = p
    BY <1>17
  <2>5. held[t] >= tb + tw /\ held[t] \in Nat
    BY <1>1, <1>2, <1>10 DEF Accounted, ConfigType, PoolsType
  <2>6. QED BY <1>7, <1>10, <1>16, <1>25, <2>1, <2>2, <2>3, <2>4, <2>5 DEF Follows
<1>29. OrdersRecorded'
  <2>1. \A x \in {t} : <<u, x>> \in DOMAIN reward_info' \/ ~ orders_pending(u, x)
    BY <1>22
  <2>2. \A k \in DOMAIN unbond_orders' :
          k \in DOMAIN Remaining(u, {t}) \/ <<k[1], k[2]>> \in DOMAIN reward_info'
    <3>1. SUFFICES ASSUME NEW k \in DOMAIN unbond_orders', k \notin DOMAIN R
                   PROVE  <<k[1], k[2]>> \in DOMAIN reward_info'
      BY <1>23
    <3>2. unbond_orders' # R
      BY <3>1
    <3>3. /\ ~ e
          /\ unbond_orders' = [j \in DOMAIN R \cup {<<u, t, now>>} |->
                                 IF j = <<u, t, now>> THEN a ELSE R[j]]
      BY <1>26, <3>2
    <3>4. k = <<u, t, now>>
      BY <3>1, <3>3
    <3>5. QED BY <1>22, <3>3, <3>4
  <2>3. QED BY ONLY <1>1, <1>21, <2>1, <2>2, RecordedAfter
<1>30. /\ IsFiniteSet(DOMAIN unbond_orders')
       /\ DOMAIN unbond_orders' \subseteq DOMAIN unbond_orders \cup {<<u, t, now>>}
       /\ unbond_orders' \in [DOMAIN unbond_orders' -> Nat]
  <2>1. CASE unbond_orders' = R
    BY <1>24, <2>1
  <2>2. CASE unbond_orders' = [k \in DOMAIN R \cup {<<u, t, now>>} |->
                                 IF k = <<u, t, now>> THEN a ELSE R[k]]
    <3>1. DOMAIN unbond_orders' = DOMAIN R \cup {<<u, t, now>>}
      BY <2>2
    <3>2. IsFiniteSet(DOMAIN R \cup {<<u, t, now>>})
      BY <1>24, FS_AddElement
    <3>3. QED BY <1>24, <2>2, <3>1, <3>2
  <2>3. QED BY <1>26, <2>1, <2>2
<1>31. prism' \in Nat /\ rebonds' \in Nat /\ UNCHANGED <<configVars, now>>
  BY <1>2 DEF unbond, ConfigType
<1>32. /\ p.last_distributed <= now /\ pools[t].reward_index <= p.reward_index
       /\ i.reward_index <= p.reward_index /\ p.weight = pools[t].weight
  <2>1. now \in Nat /\ q.reward_index \in Nat /\ i.reward_index = q.reward_index
    BY <1>2, <1>6, <1>7 DEF ConfigType, PoolInfo
  <2>2. QED BY <1>4, <1>16, <2>1 DEF Brought
<1>33. \A x \in DOMAIN pools \ {t} : SumIn(unbond_orders', x) = SumIn(unbond_orders, x)
  BY <1>27
<1>34. OneCall(u, t, i, p)
  BY <1>17, <1>18, <1>21, <1>25, <1>28, <1>29, <1>30, <1>31, <1>32, <1>33 DEF OneCall
<1>35. Settled(u, t, i, p)
  BY <1>3, <1>4, <1>6, <1>16 DEF Settled, Up, Brought
<1>36. i.pending_reward = Earned(u, t).pending_reward
  BY <1>3, <1>5, <1>6 DEF Earned, Up
<1>37. p.total_pending_withdraw = pools[t].total_pending_withdraw + c
  BY <1>10, <1>16
<1>38. \/ unbond_orders' = Remaining(u, {t}) /\ c = 0
       \/ /\ <<u, t, now>> \notin DOMAIN unbond_orders /\ c = a
          /\ unbond_orders' = [k \in DOMAIN Remaining(u, {t}) \cup {<<u, t, now>>} |->
                                 IF k = <<u, t, now>> THEN a ELSE Remaining(u, {t})[k]]
  BY <1>23, <1>26
<1>39. QED BY <1>9, <1>16, <1>34, <1>35, <1>36, <1>37, <1>38

\* claim_unbonded.
LEMMA ClaimUnbondedMoves ==
  ASSUME LpInv, NEW u \in Users, NEW t \in DOMAIN pools, claim_unbonded(u, t)
  PROVE  \E i \in RewardInfo, p \in PoolInfo, a \in Nat :
           /\ OneCall(u, t, i, p)
           /\ 0 < a /\ a = Record(u, t).withdrawable_amount + withdrawable_amount(u, t)
           /\ i = [Record(u, t) EXCEPT !.withdrawable_amount = 0]
           /\ p = [pools[t] EXCEPT !.total_pending_withdraw = pools[t].total_pending_withdraw - a]
           /\ unbond_orders' = Remaining(u, {t})
           /\ held'[t] = held[t] - a /\ prism' = prism
<1>1. TypeOK /\ IsFiniteSet(DOMAIN unbond_orders) /\ StakersIndexed /\ OrdersRecorded /\ Accounted(t)
  BY DEF LpInv
<1>2. ConfigType /\ PoolsType
  BY <1>1, TypeParts
<1>3. PICK q \in PoolInfo : q = pools[t]
  BY <1>2 DEF PoolsType
<1>4. Record(u, t) \in RewardInfo /\ withdrawable_amount(u, t) \in Nat
      /\ Record(u, t).reward_index <= q.reward_index
  BY <1>1, <1>3, RecordIs, WithdrawableNat
<1>5. PICK a \in Nat : a = Record(u, t).withdrawable_amount + withdrawable_amount(u, t)
  BY <1>4 DEF RewardInfo
<1>6. Pulled(u, t) = [reward_index |-> Record(u, t).reward_index,
                      bond_amount |-> Record(u, t).bond_amount,
                      withdrawable_amount |-> a,
                      pending_reward |-> Record(u, t).pending_reward]
  BY <1>1, <1>5, PulledIs
<1>7. PICK i : i = [reward_index |-> Record(u, t).reward_index,
                    bond_amount |-> Record(u, t).bond_amount,
                    withdrawable_amount |-> 0,
                    pending_reward |-> Record(u, t).pending_reward]
  OBVIOUS
<1>8. i \in RewardInfo
  BY <1>4, <1>7 DEF RewardInfo
<1>9. Pulled(u, t).withdrawable_amount = a
  BY <1>6
<1>10. /\ <<u, t>> \in DOMAIN reward_info
       /\ 0 < a /\ a <= held[t] /\ a <= q.total_pending_withdraw
       /\ pools' = [pools EXCEPT ![t].total_pending_withdraw = @ - a]
       /\ unbond_orders' = Remaining(u, {t})
       /\ held' = [held EXCEPT ![t] = @ - a]
  BY <1>3, <1>9 DEF claim_unbonded
<1>11. PICK z \in Nat : z = q.total_pending_withdraw - a
  BY <1>10 DEF PoolInfo
<1>12. PICK p : p = [q EXCEPT !.total_pending_withdraw = z]
  OBVIOUS
<1>13. /\ p \in PoolInfo
       /\ p.total_bond_amount = q.total_bond_amount /\ p.total_pending_withdraw = z
       /\ p.reward_index = q.reward_index /\ p.weight = q.weight
       /\ p.last_distributed = q.last_distributed
  BY ONLY <1>12, q \in PoolInfo, z \in Nat DEF PoolInfo
<1>14. pools' = [pools EXCEPT ![t] = p]
  BY <1>3, <1>10, <1>11, <1>12
<1>15. PICK info : info = [x \in {t} |-> i]
  OBVIOUS
<1>16. PICK pending : pending = [x \in {t} |-> orders_pending(u, t)]
  OBVIOUS
<1>17. Save(u, {t}, info, pending)
  <2>1. [Pulled(u, t) EXCEPT !.withdrawable_amount = 0] = i
    BY <1>6, <1>7
  <2>2. QED BY <1>15, <1>16, <2>1 DEF claim_unbonded
<1>18. /\ RecordsMoved(u, {t}, info)
       /\ StakersIndexed'
       /\ \A x \in {t} : <<u, x>> \in DOMAIN reward_info' \/ ~ pending[x]
  <2>1. \A x \in {t} : <<u, x>> \in DOMAIN reward_info /\ info[x] \in RewardInfo
    BY <1>8, <1>10, <1>15
  <2>2. QED BY <1>1, <1>17, <2>1, SaveMoves
<1>19. \A x : /\ SumIn(unbond_orders, x) \in Nat /\ SumIn(unbond_orders', x) \in Nat
              /\ SumIn(unbond_orders', x) = SumIn(unbond_orders, x)
                                              - (IF x \in {t} THEN withdrawable_amount(u, x) ELSE 0)
  BY <1>1, <1>10, PulledSum
<1>20. /\ held' \in [Tokens -> Nat] /\ \A x \in DOMAIN pools \ {t} : held'[x] = held[x]
       /\ held'[t] = held[t] - a
  <2>1. held \in [Tokens -> Nat] /\ t \in Tokens
    BY <1>2 DEF ConfigType, PoolsType
  <2>2. held[t] \in Nat /\ held[t] - a \in Nat
    BY <1>10, <2>1
  <2>3. QED BY <1>10, <2>1, <2>2
<1>21. Follows(u, t, i)
  <2>1. /\ SumIn(unbond_orders', t) \in Nat /\ SumIn(unbond_orders, t) \in Nat
        /\ SumIn(unbond_orders', t) = SumIn(unbond_orders, t) - withdrawable_amount(u, t)
    BY <1>19
  <2>2. i.bond_amount = Record(u, t).bond_amount /\ i.withdrawable_amount = 0
    BY <1>7
  <2>3. Record(u, t).bond_amount \in Nat /\ Record(u, t).withdrawable_amount \in Nat
    BY <1>4 DEF RewardInfo
  <2>4. pools'[t] = p
    BY <1>14
  <2>5. /\ held[t] >= q.total_bond_amount + q.total_pending_withdraw /\ held[t] \in Nat
        /\ q.total_bond_amount \in Nat /\ q.total_pending_withdraw \in Nat
    BY <1>1, <1>2, <1>3 DEF Accounted, ConfigType, PoolsType, PoolInfo
  <2>6. QED BY <1>3, <1>4, <1>5, <1>11, <1>13, <1>20, <2>1, <2>2, <2>3, <2>4, <2>5 DEF Follows
<1>22. OrdersRecorded'
  <2>1. \A x \in {t} : <<u, x>> \in DOMAIN reward_info' \/ ~ orders_pending(u, x)
    BY <1>16, <1>18
  <2>2. \A k \in DOMAIN unbond_orders' :
          k \in DOMAIN Remaining(u, {t}) \/ <<k[1], k[2]>> \in DOMAIN reward_info'
    BY <1>10
  <2>3. QED BY ONLY <1>1, <1>18, <2>1, <2>2, RecordedAfter
<1>23. /\ IsFiniteSet(DOMAIN unbond_orders')
       /\ DOMAIN unbond_orders' \subseteq DOMAIN unbond_orders \cup {<<u, t, now>>}
       /\ unbond_orders' \in [DOMAIN unbond_orders' -> Nat]
  BY <1>1, <1>10, RemainingType
<1>24. prism' \in Nat /\ rebonds' \in Nat /\ UNCHANGED <<configVars, now>>
  BY <1>2 DEF claim_unbonded, ConfigType
<1>25. /\ p.last_distributed <= now /\ pools[t].reward_index <= p.reward_index
       /\ i.reward_index <= p.reward_index /\ p.weight = pools[t].weight
  <2>1. i.reward_index = Record(u, t).reward_index /\ q.reward_index \in Nat
    BY <1>7 DEF PoolInfo
  <2>2. q.last_distributed <= now
    BY <1>2, <1>3 DEF PoolsType
  <2>3. QED BY <1>3, <1>4, <1>13, <2>1, <2>2
<1>26. \A x \in DOMAIN pools \ {t} : SumIn(unbond_orders', x) = SumIn(unbond_orders, x)
  BY <1>19
<1>27. OneCall(u, t, i, p)
  BY <1>14, <1>15, <1>18, <1>20, <1>21, <1>22, <1>23, <1>24, <1>25, <1>26 DEF OneCall
<1>28. i = [Record(u, t) EXCEPT !.withdrawable_amount = 0]
  BY <1>4, <1>7 DEF RewardInfo
<1>29. p = [pools[t] EXCEPT !.total_pending_withdraw = pools[t].total_pending_withdraw - a]
  BY <1>3, <1>11, <1>12
<1>30. prism' = prism
  BY DEF claim_unbonded
<1>31. QED BY <1>5, <1>8, <1>10, <1>13, <1>20, <1>27, <1>28, <1>29, <1>30

\* claim_rewards.
LEMMA ClaimRewardsMoves ==
  ASSUME LpInv, NEW u \in Users, NEW S \in SUBSET DOMAIN pools, claim_rewards(u, S)
  PROVE  \E info :
           /\ UserCall(u, S, info)
           /\ \A t \in S : Settled(u, t, info[t], pools'[t]) /\ info[t].pending_reward = 0
           /\ \A t \in DOMAIN pools \ S : pools'[t] = pools[t]
           /\ \A t \in DOMAIN pools :
                pools'[t].total_pending_withdraw = pools[t].total_pending_withdraw
           /\ unbond_orders' = Remaining(u, S)
           /\ prism' <= prism
           /\ \A t \in S : Earned(u, t).pending_reward > 0 => prism' < prism
<1>1. TypeOK /\ IsFiniteSet(DOMAIN unbond_orders) /\ StakersIndexed /\ OrdersRecorded
  BY DEF LpInv
<1>2. ConfigType /\ PoolsType
  BY <1>1, TypeParts
<1>3. \A t \in S : <<u, t>> \in DOMAIN reward_info /\ Computable(pools[t], total_weight)
  BY DEF claim_rewards
<1>4. PICK Q : Q = [t \in S |-> compute_pool_reward(pools[t], total_weight)]
  OBVIOUS
<1>5. \A t \in S : Brought(pools[t], Q[t])
  BY <1>1, <1>3, <1>4, PoolBrought
<1>6. PICK e : e = [t \in S |-> compute_staker_reward(Q[t], Pulled(u, t))]
  OBVIOUS
<1>7. PICK info : info = [t \in S |-> [e[t] EXCEPT !.pending_reward = 0]]
  OBVIOUS
<1>8. ASSUME NEW t \in S
      PROVE  /\ e[t].pending_reward \in Nat /\ info[t] \in RewardInfo
             /\ info[t].reward_index = Q[t].reward_index
             /\ info[t].bond_amount = Record(u, t).bond_amount
             /\ info[t].withdrawable_amount = Record(u, t).withdrawable_amount + withdrawable_amount(u, t)
             /\ info[t].pending_reward = 0
  <2>1. t \in DOMAIN pools /\ Brought(pools[t], Q[t])
    BY <1>5
  <2>2. PICK n \in Nat : compute_staker_reward(Q[t], Pulled(u, t)) =
              [reward_index |-> Q[t].reward_index,
               bond_amount |-> Record(u, t).bond_amount,
               withdrawable_amount |-> Record(u, t).withdrawable_amount + withdrawable_amount(u, t),
               pending_reward |-> Record(u, t).pending_reward + n]
    BY <1>1, <2>1, EarnedIs
  <2>3. /\ Record(u, t) \in RewardInfo /\ withdrawable_amount(u, t) \in Nat /\ Q[t] \in PoolInfo
    BY <1>1, <2>1, RecordIs, WithdrawableNat DEF Brought
  <2>4. e[t].pending_reward \in Nat
    BY <1>6, <2>2, <2>3 DEF RewardInfo
  <2>5. info[t] = [reward_index |-> Q[t].reward_index,
                   bond_amount |-> Record(u, t).bond_amount,
                   withdrawable_amount |-> Record(u, t).withdrawable_amount + withdrawable_amount(u, t),
                   pending_reward |-> 0]
    BY <1>6, <1>7, <2>2
  <2>6. info[t] \in RewardInfo
    BY <2>3, <2>5 DEF RewardInfo, PoolInfo
  <2>7. QED BY <2>4, <2>5, <2>6
<1>9. PICK pending : pending = [t \in S |-> orders_pending(u, t)]
  OBVIOUS
<1>10. /\ pools' = [t \in DOMAIN pools |-> IF t \in S THEN Q[t] ELSE pools[t]]
       /\ unbond_orders' = Remaining(u, S)
       /\ held' = held /\ UNCHANGED <<configVars, now>> /\ rebonds' = rebonds
  BY <1>4 DEF claim_rewards
<1>11. Save(u, S, info, pending)
  BY <1>4, <1>6, <1>7, <1>9 DEF claim_rewards
<1>12. /\ RecordsMoved(u, S, info)
       /\ StakersIndexed'
       /\ \A x \in S : <<u, x>> \in DOMAIN reward_info' \/ ~ pending[x]
  <2>1. \A x \in S : <<u, x>> \in DOMAIN reward_info /\ info[x] \in RewardInfo
    BY <1>3, <1>8
  <2>2. QED BY <1>1, <1>11, <2>1, SaveMoves
<1>13. prism' \in Nat /\ prism' <= prism /\ \A t \in S : e[t].pending_reward > 0 => prism' < prism
  <2>1. PICK f : f = [t \in S |-> e[t].pending_reward]
    OBVIOUS
  <2>2. SumFunctionOnSet(f, S) <= prism /\ prism' = prism - SumFunctionOnSet(f, S)
    BY <1>4, <1>6, <2>1 DEF claim_rewards
  <2>3. IsFiniteSet(S)
    <3>1. S \subseteq Tokens
      BY <1>2 DEF PoolsType
    <3>2. QED BY <3>1, FS_Subset, LpAssumption
  <2>4. SumFunctionOnSet(f, S) \in Nat
    BY <1>8, <2>1, <2>3, SumNat
  <2>5. prism' \in Nat /\ prism' <= prism
    BY <1>2, <2>2, <2>4 DEF ConfigType
  <2>6. ASSUME NEW t \in S, e[t].pending_reward > 0 PROVE prism' < prism
    <3>1. \A x \in S : f[x] \in Nat
      BY <1>8, <2>1
    <3>2. SumFunctionOnSet(f, S) = f[t] + SumFunctionOnSet(f, S \ {t})
      BY <2>3, <3>1, SumRemove
    <3>3. IsFiniteSet(S \ {t})
      BY <2>3, FS_RemoveElement
    <3>4. SumFunctionOnSet(f, S \ {t}) \in Nat
      BY <3>1, <3>3, SumNat
    <3>5. f[t] = e[t].pending_reward /\ f[t] \in Nat
      BY <2>1, <3>1
    <3>6. QED BY <1>2, <2>2, <2>6, <3>2, <3>4, <3>5 DEF ConfigType
  <2>7. QED BY <2>5, <2>6
<1>14. \A x : /\ SumIn(unbond_orders, x) \in Nat /\ SumIn(unbond_orders', x) \in Nat
              /\ SumIn(unbond_orders', x) = SumIn(unbond_orders, x)
                                              - (IF x \in S THEN withdrawable_amount(u, x) ELSE 0)
  BY <1>1, <1>10, PulledSum
<1>15. /\ DOMAIN pools' = DOMAIN pools
       /\ \A x \in S : pools'[x] = Q[x]
       /\ \A x \in DOMAIN pools \ S : pools'[x] = pools[x]
  BY <1>10
<1>16. \A x \in S : Q[x] \in PoolInfo
  BY <1>5 DEF Brought
<1>17. ASSUME NEW x \in DOMAIN pools
       PROVE  /\ pools'[x] \in PoolInfo
              /\ pools[x].reward_index <= pools'[x].reward_index
              /\ pools'[x].weight = pools[x].weight /\ pools'[x].last_distributed <= now
              /\ pools'[x].total_bond_amount = pools[x].total_bond_amount
              /\ pools'[x].total_pending_withdraw = pools[x].total_pending_withdraw
  <2>1. CASE x \in S
    <3>1. now \in Nat
      BY <1>2 DEF ConfigType
    <3>2. pools'[x] = Q[x] /\ Brought(pools[x], Q[x])
      BY <1>5, <1>15, <2>1
    <3>3. QED BY <3>1, <3>2 DEF Brought
  <2>2. CASE x \notin S
    <3>1. pools'[x] = pools[x]
      BY <1>15, <2>2
    <3>2. pools[x] \in PoolInfo /\ pools[x].last_distributed <= now
      BY <1>2 DEF PoolsType
    <3>3. pools[x].reward_index \in Nat
      BY <3>2 DEF PoolInfo
    <3>4. QED BY <3>1, <3>2, <3>3
  <2>3. QED BY <2>1, <2>2
<1>18. PoolsGrow
  <2>1. pools' \in [DOMAIN pools -> PoolInfo]
    BY <1>10, <1>15, <1>17
  <2>2. QED BY <1>15, <1>17, <2>1 DEF PoolsGrow
<1>19. ASSUME NEW t \in S PROVE Follows(u, t, info[t])
  <2>1. /\ SumIn(unbond_orders', t) \in Nat /\ SumIn(unbond_orders, t) \in Nat
        /\ SumIn(unbond_orders', t) = SumIn(unbond_orders, t) - withdrawable_amount(u, t)
    BY <1>14
  <2>2. t \in DOMAIN pools /\ Accounted(t)
    BY DEF LpInv
  <2>3. Record(u, t).bond_amount \in Nat /\ Record(u, t).withdrawable_amount \in Nat
        /\ withdrawable_amount(u, t) \in Nat
    BY <1>1, <2>2, RecordIs, WithdrawableNat DEF RewardInfo
  <2>4. /\ held[t] >= pools[t].total_bond_amount + pools[t].total_pending_withdraw
        /\ pools[t].total_bond_amount \in Nat /\ pools[t].total_pending_withdraw \in Nat
    BY <1>2, <2>2 DEF Accounted, PoolsType, PoolInfo
  <2>5. /\ pools'[t].total_bond_amount = pools[t].total_bond_amount
        /\ pools'[t].total_pending_withdraw = pools[t].total_pending_withdraw
        /\ held'[t] = held[t]
    BY <1>10, <1>17, <2>2
  <2>6. /\ info[t].bond_amount = Record(u, t).bond_amount
        /\ info[t].withdrawable_amount = Record(u, t).withdrawable_amount + withdrawable_amount(u, t)
    BY <1>8
  <2>7. QED BY <2>1, <2>3, <2>4, <2>5, <2>6 DEF Follows
<1>20. UserMoves(u, S, info)
  <2>1. \A x \in DOMAIN pools \ S :
         /\ SumIn(unbond_orders', x) = SumIn(unbond_orders, x)
         /\ pools'[x].total_bond_amount = pools[x].total_bond_amount
         /\ pools'[x].total_pending_withdraw = pools[x].total_pending_withdraw
         /\ held'[x] = held[x]
    BY <1>10, <1>14, <1>17
  <2>2. QED BY <1>8, <1>12, <1>15, <1>19, <2>1 DEF UserMoves
<1>21. OrdersRecorded'
  <2>1. \A x \in S : <<u, x>> \in DOMAIN reward_info' \/ ~ orders_pending(u, x)
    BY <1>9, <1>12
  <2>2. \A k \in DOMAIN unbond_orders' :
          k \in DOMAIN Remaining(u, S) \/ <<k[1], k[2]>> \in DOMAIN reward_info'
    BY <1>10
  <2>3. QED BY ONLY <1>1, <1>12, <2>1, <2>2, RecordedAfter
<1>22. /\ IsFiniteSet(DOMAIN unbond_orders')
       /\ DOMAIN unbond_orders' \subseteq DOMAIN unbond_orders \cup {<<u, t, now>> : t \in S}
       /\ unbond_orders' \in [DOMAIN unbond_orders' -> Nat]
  BY <1>1, <1>10, RemainingType
<1>23. held' \in [Tokens -> Nat] /\ rebonds' \in Nat
  BY <1>2, <1>10 DEF ConfigType
<1>24. \A t \in S : info[t].reward_index <= pools'[t].reward_index
  <2>1. \A t \in S : Q[t].reward_index \in Nat
    BY <1>16 DEF PoolInfo
  <2>2. QED BY <1>8, <1>15, <2>1
<1>25. UserCall(u, S, info)
  BY <1>10, <1>12, <1>13, <1>17, <1>18, <1>20, <1>21, <1>22, <1>23, <1>24 DEF UserCall
<1>26. ASSUME NEW t \in S PROVE Settled(u, t, info[t], pools'[t]) /\ info[t].pending_reward = 0
  <2>1. pools'[t] = Up(t) /\ Brought(pools[t], Up(t)) /\ Q[t] = Up(t)
    BY <1>4, <1>5, <1>15 DEF Up
  <2>2. QED BY <1>8, <2>1 DEF Settled, Brought
<1>27. \A t \in S : e[t] = Earned(u, t)
  BY <1>4, <1>6 DEF Earned, Up
<1>28. prism' <= prism /\ \A t \in S : Earned(u, t).pending_reward > 0 => prism' < prism
  BY <1>13, <1>27
<1>29. QED BY <1>10, <1>15, <1>17, <1>25, <1>26, <1>28

-----------------------------------------------------------------------------
\* A step that touches no stake: pools may come, their index and time may grow, and
\* tokens may arrive.
StakesStay ==
  /\ UNCHANGED stakeVars
  /\ ConfigType' /\ PoolsType' /\ WeightsAgree'
  /\ now <= now'
  /\ DOMAIN pools \subseteq DOMAIN pools'
  /\ \A t \in DOMAIN pools :
       /\ pools'[t].total_bond_amount = pools[t].total_bond_amount
       /\ pools'[t].total_pending_withdraw = pools[t].total_pending_withdraw
       /\ pools[t].reward_index <= pools'[t].reward_index
       /\ held[t] <= held'[t]
  /\ \A t \in DOMAIN pools' \ DOMAIN pools :
       pools'[t].total_bond_amount = 0 /\ pools'[t].total_pending_withdraw = 0

LEMMA StakesStayKeeps ==
  ASSUME LpInv, StakesStay
  PROVE  LpInv'
<1>1. /\ TypeOK /\ IsFiniteSet(DOMAIN unbond_orders) /\ StakersIndexed /\ OrdersRecorded
      /\ \A t \in DOMAIN pools : Accounted(t)
  BY DEF LpInv
<1>2. ConfigType /\ PoolsType /\ StakesType /\ OrdersType
  BY <1>1, TypeParts
<1>3. UNCHANGED <<reward_info, unbond_orders, staker_by_token>>
  BY DEF StakesStay, stakeVars
<1>4. DOMAIN pools \subseteq DOMAIN pools' /\ now <= now' /\ now \in Nat /\ now' \in Nat
  BY <1>2 DEF StakesStay, ConfigType
<1>5. StakesType'
  <2>1. DOMAIN reward_info \subseteq Users \X (DOMAIN pools')
    BY <1>2, <1>4 DEF StakesType
  <2>2. ASSUME NEW k \in DOMAIN reward_info
        PROVE  reward_info[k].reward_index <= pools'[k[2]].reward_index
    <3>1. k[2] \in DOMAIN pools /\ k[2] \in DOMAIN pools'
      BY <1>2, <1>4 DEF StakesType
    <3>2. reward_info[k].reward_index <= pools[k[2]].reward_index /\ reward_info[k] \in RewardInfo
      BY <1>2 DEF StakesType
    <3>3. pools[k[2]].reward_index <= pools'[k[2]].reward_index
      BY <3>1 DEF StakesStay
    <3>4. pools[k[2]].reward_index \in Nat /\ pools'[k[2]].reward_index \in Nat
          /\ reward_info[k].reward_index \in Nat
      BY <1>2, <3>1, <3>2 DEF StakesStay, PoolsType, PoolInfo, RewardInfo
    <3>5. QED BY <3>2, <3>3, <3>4
  <2>3. staker_by_token \subseteq (DOMAIN pools') \X Users
    BY <1>2, <1>4 DEF StakesType
  <2>4. QED BY <1>2, <1>3, <2>1, <2>2, <2>3 DEF StakesType
<1>6. OrdersType'
  <2>1. 0..now \subseteq 0..now'
    BY <1>4
  <2>2. DOMAIN unbond_orders \subseteq Users \X (DOMAIN pools') \X (0..now')
    BY <1>2, <1>4, <2>1 DEF OrdersType
  <2>3. QED BY <1>2, <1>3, <2>2 DEF OrdersType
<1>7. TypeOK'
  BY <1>5, <1>6, TypePartsNext DEF StakesStay
<1>8. \A x, t : Record(x, t)' = Record(x, t)
  BY <1>3 DEF Record
<1>9. \A t : SumIn(unbond_orders, t)' = SumIn(unbond_orders, t)
  BY <1>3 DEF SumIn, OrdersIn
<1>10. \A t : BondTable(t)' = BondTable(t) /\ WithdrawTable(t)' = WithdrawTable(t)
  BY <1>8 DEF BondTable, WithdrawTable
<1>11. ASSUME NEW t \in DOMAIN pools PROVE Accounted(t)'
  <2>1. held[t] \in Nat /\ held'[t] \in Nat /\ pools[t].total_bond_amount \in Nat
        /\ pools[t].total_pending_withdraw \in Nat
    BY <1>2 DEF StakesStay, ConfigType, PoolsType, PoolInfo
  <2>2. Accounted(t)
    BY <1>1
  <2>3. /\ pools'[t].total_bond_amount = SumFunctionOnSet(BondTable(t), Users)
        /\ pools'[t].total_pending_withdraw
             = SumFunctionOnSet(WithdrawTable(t), Users) + SumIn(unbond_orders, t)
    BY <2>2 DEF Accounted, StakesStay
  <2>4. held'[t] >= pools'[t].total_bond_amount + pools'[t].total_pending_withdraw
    BY <2>1, <2>2 DEF Accounted, StakesStay
  <2>5. QED BY <1>9, <1>10, <2>3, <2>4 DEF Accounted
<1>12. ASSUME NEW t \in DOMAIN pools' \ DOMAIN pools PROVE Accounted(t)'
  <2>1. \A u \in Users : Record(u, t) = DefaultRewardInfo
    BY <1>2 DEF Record, StakesType
  <2>2. PICK b : b = BondTable(t)
    OBVIOUS
  <2>3. PICK w : w = WithdrawTable(t)
    OBVIOUS
  <2>4. \A u \in Users : b[u] = 0 /\ w[u] = 0
    BY <2>1, <2>2, <2>3 DEF BondTable, WithdrawTable, DefaultRewardInfo
  <2>5. SumFunctionOnSet(b, Users) = 0 /\ SumFunctionOnSet(w, Users) = 0
    BY <2>4, SumZero, LpAssumption
  <2>6. OrdersIn(unbond_orders, t) = {}
    BY <1>2 DEF OrdersIn, OrdersType
  <2>7. SumIn(unbond_orders, t) = 0
    <3>1. IsFiniteSet({})
      BY FS_EmptySet
    <3>2. PICK f : f = [k \in OrdersIn(unbond_orders, t) |-> unbond_orders[k]]
      OBVIOUS
    <3>3. SumFunctionOnSet(f, {}) = 0
      BY <3>1, SumPick
    <3>4. QED BY <2>6, <3>2, <3>3 DEF SumIn
  <2>8. held'[t] \in Nat
    BY DEF StakesStay, ConfigType, PoolsType
  <2>9. QED BY <1>9, <1>10, <2>2, <2>3, <2>5, <2>7, <2>8 DEF Accounted, StakesStay
<1>13. OrdersRecorded' /\ StakersIndexed' /\ IsFiniteSet(DOMAIN unbond_orders')
  BY <1>1, <1>3 DEF OrdersRecorded, StakersIndexed
<1>14. QED BY <1>7, <1>11, <1>12, <1>13 DEF LpInv, StakesStay

\* Steps that leave the pools alone too.
LEMMA PoolsStayKeeps ==
  ASSUME LpInv, UNCHANGED <<stakeVars, pools, total_weight>>, ConfigType', now <= now',
         \A t \in DOMAIN pools : held[t] <= held'[t]
  PROVE  LpInv'
<1>1. TypeOK /\ WeightsAgree
  BY DEF LpInv
<1>2. ConfigType /\ PoolsType
  BY <1>1, TypeParts
<1>3. pools' = pools /\ total_weight' = total_weight /\ UNCHANGED stakeVars
  OBVIOUS
<1>4. PoolsType'
  <2>1. \A t \in DOMAIN pools : pools[t].last_distributed <= now'
    <3>1. now \in Nat /\ now' \in Nat
      BY <1>2 DEF ConfigType
    <3>2. \A t \in DOMAIN pools : pools[t].last_distributed \in Nat /\ pools[t].last_distributed <= now
      BY <1>2 DEF PoolsType, PoolInfo
    <3>3. QED BY <3>1, <3>2
  <2>2. QED BY <1>2, <1>3, <2>1 DEF PoolsType
<1>5. WeightsAgree'
  BY <1>1, <1>3 DEF WeightsAgree, WeightTable
<1>6. \A t \in DOMAIN pools : pools[t].reward_index \in Nat
  BY <1>2 DEF PoolsType, PoolInfo
<1>7. StakesStay
  BY <1>3, <1>4, <1>5, <1>6 DEF StakesStay
<1>8. QED BY <1>7, StakesStayKeeps

LEMMA WeightsAre ==
  ASSUME LpInv
  PROVE  /\ IsFiniteSet(DOMAIN pools)
         /\ \A t \in DOMAIN pools : WeightTable[t] \in Nat /\ WeightTable[t] = pools[t].weight
         /\ SumFunctionOnSet(WeightTable, DOMAIN pools) \in Nat
         /\ total_weight = SumFunctionOnSet(WeightTable, DOMAIN pools)
<1>1. PoolsType /\ WeightsAgree
  BY TypeParts DEF LpInv
<1>2. IsFiniteSet(DOMAIN pools)
  BY <1>1, FS_Subset, LpAssumption DEF PoolsType
<1>3. \A t \in DOMAIN pools : WeightTable[t] \in Nat /\ WeightTable[t] = pools[t].weight
  BY <1>1 DEF PoolsType, PoolInfo, WeightTable
<1>4. SumFunctionOnSet(WeightTable, DOMAIN pools) \in Nat
  BY <1>2, <1>3, SumNat
<1>5. QED BY <1>1, <1>2, <1>3, <1>4 DEF WeightsAgree

LEMMA RegisterStays ==
  ASSUME LpInv, NEW o, NEW t \in Tokens, NEW p \in Nat, NEW w \in Nat,
         register_staking_token(o, t, p, w)
  PROVE  StakesStay
<1>1. ConfigType /\ PoolsType
  BY TypeParts DEF LpInv
<1>2. /\ t \notin DOMAIN pools /\ \A x \in DOMAIN pools : Computable(pools[x], total_weight)
      /\ pools' = [x \in DOMAIN pools \cup {t} |->
                     IF x = t THEN NewPool(w, p, now)
                     ELSE compute_pool_reward(pools[x], total_weight)]
      /\ total_weight' = total_weight + w
      /\ UNCHANGED <<owner, distribution_schedule, repriced, stakeVars, held, prism, now, rebonds>>
  BY DEF register_staking_token
<1>3. ConfigType'
  <2>1. total_weight' \in Nat
    BY <1>1, <1>2 DEF ConfigType
  <2>2. QED BY <1>1, <1>2, <2>1 DEF ConfigType
<1>4. now \in Nat
  BY <1>1 DEF ConfigType
<1>5. PICK n : n = NewPool(w, p, now)
  OBVIOUS
<1>6. /\ n \in PoolInfo /\ n.weight = w /\ n.last_distributed = now
      /\ n.total_bond_amount = 0 /\ n.total_pending_withdraw = 0
  BY <1>4, <1>5 DEF NewPool, PoolInfo
<1>7. /\ DOMAIN pools' = DOMAIN pools \cup {t} /\ pools'[t] = n
      /\ \A x \in DOMAIN pools : Brought(pools[x], pools'[x])
  <2>1. DOMAIN pools' = DOMAIN pools \cup {t} /\ pools'[t] = n
    BY <1>2, <1>5
  <2>2. \A x \in DOMAIN pools : pools'[x] = compute_pool_reward(pools[x], total_weight)
    BY <1>2
  <2>3. \A x \in DOMAIN pools : Brought(pools[x], compute_pool_reward(pools[x], total_weight))
    BY <1>2, PoolBrought DEF LpInv
  <2>4. QED BY <2>1, <2>2, <2>3
<1>8. \A x \in DOMAIN pools' : pools'[x] \in PoolInfo /\ pools'[x].last_distributed = now
  BY <1>6, <1>7 DEF Brought
<1>9. PoolsType'
  <2>1. DOMAIN pools' \subseteq Tokens
    BY <1>1, <1>7 DEF PoolsType
  <2>2. pools' = [x \in DOMAIN pools' |-> pools'[x]]
    BY <1>2
  <2>3. \A x \in DOMAIN pools' : pools'[x].last_distributed <= now'
    BY <1>2, <1>4, <1>8
  <2>4. pools' \in [DOMAIN pools' -> PoolInfo]
    BY <1>8, <2>2
  <2>5. QED BY <2>1, <2>3, <2>4 DEF PoolsType
<1>10. WeightsAgree'
  <2>1. PICK f : f = WeightTable
    OBVIOUS
  <2>2. PICK h : h = WeightTable'
    OBVIOUS
  <2>3. h[t] = w /\ \A x \in DOMAIN pools : h[x] = pools'[x].weight
    BY <1>6, <1>7, <2>2 DEF WeightTable
  <2>4. \A x \in DOMAIN pools : f[x] \in Nat /\ h[x] = f[x]
    BY <1>7, <2>1, <2>3, WeightsAre DEF Brought
  <2>5. PICK D : D = DOMAIN pools
    OBVIOUS
  <2>6. IsFiniteSet(D) /\ t \notin D /\ h[t] \in Nat
    BY <1>2, <2>3, <2>5, WeightsAre
  <2>7. SumFunctionOnSet(h, D \cup {t}) = SumFunctionOnSet(f, D) + h[t]
    BY ONLY <2>4, <2>5, <2>6, SumExtend
  <2>8. total_weight' = SumFunctionOnSet(h, D \cup {t})
    BY <1>2, <2>1, <2>3, <2>5, <2>7, WeightsAre
  <2>9. D \cup {t} = DOMAIN pools'
    BY <1>7, <2>5
  <2>10. total_weight' = SumFunctionOnSet(WeightTable', DOMAIN pools')
    BY <2>2, <2>8, <2>9
  <2>11. QED BY <2>10 DEF WeightsAgree
<1>11. StakesStay
  <2>1. now <= now' /\ UNCHANGED stakeVars /\ held' = held
    BY <1>2, <1>4
  <2>2. \A x \in DOMAIN pools : held[x] <= held'[x]
    <3>1. \A x \in DOMAIN pools : held[x] \in Nat
      BY <1>1 DEF ConfigType, PoolsType
    <3>2. QED BY <2>1, <3>1
  <2>3. DOMAIN pools \subseteq DOMAIN pools'
    BY <1>7
  <2>4. \A x \in DOMAIN pools' \ DOMAIN pools :
          pools'[x].total_bond_amount = 0 /\ pools'[x].total_pending_withdraw = 0
    BY <1>6, <1>7
  <2>5. \A x \in DOMAIN pools :
          /\ pools'[x].total_bond_amount = pools[x].total_bond_amount
          /\ pools'[x].total_pending_withdraw = pools[x].total_pending_withdraw
          /\ pools[x].reward_index <= pools'[x].reward_index
    BY <1>7 DEF Brought
  <2>6. QED BY <1>3, <1>9, <1>10, <2>1, <2>2, <2>3, <2>4, <2>5 DEF StakesStay
<1>12. QED BY <1>11

\* The totals an update of a weight computes with: the new one is a natural too.
LEMMA Reweighted ==
  ASSUME LpInv, NEW t \in DOMAIN pools, NEW w \in Nat
  PROVE  /\ total_reweighted(t, w) \in Nat
         /\ pools[t].weight <= w => total_weight <= total_reweighted(t, w)
         /\ \A x : total_at(x, t, w) \in Nat
<1>1. PICK D, f : D = DOMAIN pools /\ f = WeightTable
  OBVIOUS
<1>2. IsFiniteSet(D) /\ t \in D /\ (\A x \in D : f[x] \in Nat) /\ f[t] = pools[t].weight
      /\ total_weight = SumFunctionOnSet(f, D) /\ total_weight \in Nat
  BY <1>1, WeightsAre
<1>3. SumFunctionOnSet(f, D) = f[t] + SumFunctionOnSet(f, D \ {t})
  BY ONLY <1>2, SumRemove
<1>4. SumFunctionOnSet(f, D \ {t}) \in Nat
  BY ONLY <1>2, FS_Subset, SumNat
<1>5. total_reweighted(t, w) \in Nat /\ (pools[t].weight <= w => total_weight <= total_reweighted(t, w))
  BY <1>2, <1>3, <1>4 DEF total_reweighted
<1>6. QED BY <1>2, <1>5 DEF total_at

\* The pools after an update of a weight, brought up to now.
LEMMA ReweightedPools ==
  ASSUME LpInv, NEW o, NEW t \in DOMAIN pools, NEW w \in Nat, update_weight(o, t, w)
  PROVE  \E c : /\ c = [x \in DOMAIN pools |-> compute_pool_reward(pools[x], total_at(x, t, w))]
                /\ pools' = [c EXCEPT ![t].weight = w]
                /\ \A x \in DOMAIN pools : Brought(pools[x], c[x])
<1>1. PICK c : c = [x \in DOMAIN pools |-> compute_pool_reward(pools[x], total_at(x, t, w))]
  OBVIOUS
<1>2. pools' = [c EXCEPT ![t].weight = w]
  BY <1>1 DEF update_weight, pools_reweighted
<1>3. \A x \in DOMAIN pools : Computable(pools[x], total_at(x, t, w)) /\ total_at(x, t, w) \in Nat
  BY Reweighted DEF update_weight
<1>4. \A x \in DOMAIN pools : Brought(pools[x], c[x])
  BY <1>1, <1>3, PoolBroughtAt DEF LpInv
<1>5. QED BY <1>1, <1>2, <1>4

LEMMA UpdateWeightStays ==
  ASSUME LpInv, NEW o, NEW t \in DOMAIN pools, NEW w \in Nat, update_weight(o, t, w)
  PROVE  StakesStay
<1>1. ConfigType /\ PoolsType
  BY TypeParts DEF LpInv
<1>2. /\ total_weight' = total_weight - pools[t].weight + w
      /\ repriced' \in BOOLEAN
      /\ UNCHANGED <<owner, distribution_schedule, stakeVars, held, prism, now, rebonds>>
  BY DEF update_weight, total_reweighted
<1>3. now \in Nat
  BY <1>1 DEF ConfigType
<1>a. PICK c : /\ c = [x \in DOMAIN pools |-> compute_pool_reward(pools[x], total_at(x, t, w))]
               /\ pools' = [c EXCEPT ![t].weight = w]
               /\ \A x \in DOMAIN pools : Brought(pools[x], c[x])
  BY ReweightedPools
<1>b. DOMAIN c = DOMAIN pools
  BY <1>a
<1>4. PICK q : q = c[t]
  OBVIOUS
<1>5. Brought(pools[t], q) /\ q \in PoolInfo
  BY <1>4, <1>a DEF Brought
<1>6. PICK n : n = [q EXCEPT !.weight = w]
  OBVIOUS
<1>7. /\ n \in PoolInfo /\ n.weight = w /\ n.last_distributed = q.last_distributed
      /\ n.total_bond_amount = q.total_bond_amount
      /\ n.total_pending_withdraw = q.total_pending_withdraw /\ n.reward_index = q.reward_index
  BY ONLY <1>5, <1>6, w \in Nat DEF PoolInfo
<1>8. pools' = [c EXCEPT ![t] = n]
  BY <1>4, <1>6, <1>a
<1>9. DOMAIN pools' = DOMAIN pools /\ pools'[t] = n
  BY <1>8, <1>b
<1>10. ASSUME NEW x \in DOMAIN pools
       PROVE  /\ pools'[x] \in PoolInfo /\ pools'[x].last_distributed = now
              /\ pools'[x].total_bond_amount = pools[x].total_bond_amount
              /\ pools'[x].total_pending_withdraw = pools[x].total_pending_withdraw
              /\ pools[x].reward_index <= pools'[x].reward_index
              /\ x # t => pools'[x].weight = pools[x].weight
  <2>1. CASE x = t
    BY <1>5, <1>7, <1>9, <2>1 DEF Brought
  <2>2. CASE x # t
    <3>1. pools'[x] = c[x]
      BY <1>8, <1>b, <2>2
    <3>2. Brought(pools[x], c[x])
      BY <1>a
    <3>3. QED BY <3>1, <3>2 DEF Brought
  <2>3. QED BY <2>1, <2>2
<1>11. PoolsType'
  <2>1. pools' = [x \in DOMAIN pools |-> pools'[x]]
    BY <1>8, <1>9
  <2>2. pools' \in [DOMAIN pools' -> PoolInfo]
    BY <1>9, <1>10, <2>1
  <2>3. \A x \in DOMAIN pools' : pools'[x].last_distributed <= now'
    BY <1>2, <1>3, <1>9, <1>10
  <2>4. QED BY <1>1, <1>9, <2>2, <2>3 DEF PoolsType
<1>12. PICK f : f = WeightTable
  OBVIOUS
<1>13. PICK h : h = WeightTable'
  OBVIOUS
<1>14. PICK D : D = DOMAIN pools
  OBVIOUS
<1>15. \A x \in D : h[x] = pools'[x].weight
  BY <1>9, <1>13, <1>14 DEF WeightTable
<1>16. IsFiniteSet(D) /\ t \in D /\ \A x \in D : f[x] \in Nat /\ f[x] = pools[x].weight
  BY <1>12, <1>14, WeightsAre
<1>17. h[t] = w
  BY <1>7, <1>9, <1>15, <1>16
<1>18. \A x \in D \ {t} : h[x] = f[x]
  BY <1>10, <1>14, <1>15, <1>16
<1>19. \A x \in D : f[x] \in Nat /\ h[x] \in Nat
  BY <1>16, <1>17, <1>18
<1>20. SumFunctionOnSet(h, D) = SumFunctionOnSet(f, D) - f[t] + h[t]
  BY ONLY <1>16, <1>18, <1>19, SumUpdate
<1>21. total_weight' = SumFunctionOnSet(h, D)
  BY <1>2, <1>12, <1>14, <1>16, <1>17, <1>20, WeightsAre
<1>22. WeightsAgree'
  BY <1>9, <1>13, <1>14, <1>21 DEF WeightsAgree
<1>23. total_weight' \in Nat
  BY <1>16, <1>19, <1>21, SumNat
<1>24. ConfigType'
  BY <1>1, <1>2, <1>23 DEF ConfigType
<1>25. StakesStay
  <2>1. now <= now' /\ UNCHANGED stakeVars /\ held' = held
    BY <1>2, <1>3
  <2>2. \A x \in DOMAIN pools : held[x] <= held'[x]
    <3>1. \A x \in DOMAIN pools : held[x] \in Nat
      BY <1>1 DEF ConfigType, PoolsType
    <3>2. QED BY <2>1, <3>1
  <2>3. QED BY <1>9, <1>10, <1>11, <1>22, <1>24, <2>1, <2>2 DEF StakesStay
<1>26. QED BY <1>25

LEMMA UpdatePeriodStays ==
  ASSUME LpInv, NEW o, NEW t \in DOMAIN pools, NEW d \in Nat, update_unbond_period(o, t, d)
  PROVE  StakesStay
<1>1. ConfigType /\ PoolsType /\ WeightsAgree
  BY TypeParts DEF LpInv
<1>2. /\ pools' = [pools EXCEPT ![t].unbond_period = d]
      /\ UNCHANGED <<owner, distribution_schedule, total_weight, repriced, stakeVars, held, prism, now,
                     rebonds>>
  BY DEF update_unbond_period, configVars
<1>3. PICK q \in PoolInfo : q = pools[t]
  BY <1>1 DEF PoolsType
<1>4. PICK n : n = [q EXCEPT !.unbond_period = d]
  OBVIOUS
<1>5. /\ n \in PoolInfo /\ n.weight = q.weight /\ n.last_distributed = q.last_distributed
      /\ n.total_bond_amount = q.total_bond_amount
      /\ n.total_pending_withdraw = q.total_pending_withdraw /\ n.reward_index = q.reward_index
  BY ONLY <1>4, q \in PoolInfo, d \in Nat DEF PoolInfo
<1>6. pools' = [pools EXCEPT ![t] = n]
  BY <1>2, <1>3, <1>4
<1>7. DOMAIN pools' = DOMAIN pools
  BY <1>6
<1>8. ASSUME NEW x \in DOMAIN pools
      PROVE  /\ pools'[x] \in PoolInfo /\ pools'[x].last_distributed <= now
             /\ pools'[x].total_bond_amount = pools[x].total_bond_amount
             /\ pools'[x].total_pending_withdraw = pools[x].total_pending_withdraw
             /\ pools[x].reward_index <= pools'[x].reward_index
             /\ pools'[x].weight = pools[x].weight
  <2>1. /\ pools[x] \in PoolInfo /\ pools[x].last_distributed <= now /\ pools[x].reward_index \in Nat
    BY <1>1 DEF PoolsType, PoolInfo
  <2>2. CASE x = t
    <3>1. pools'[x] = n /\ pools[x] = q
      BY <1>3, <1>6, <2>2
    <3>2. QED BY <1>5, <2>1, <3>1
  <2>3. CASE x # t
    <3>1. pools'[x] = pools[x]
      BY <1>6, <2>3
    <3>2. QED BY <2>1, <3>1
  <2>4. QED BY <2>2, <2>3
<1>9. PoolsType'
  <2>1. pools' = [x \in DOMAIN pools |-> pools'[x]]
    BY <1>6, <1>7
  <2>2. pools' \in [DOMAIN pools' -> PoolInfo]
    BY <1>7, <1>8, <2>1
  <2>3. QED BY <1>1, <1>2, <1>7, <1>8, <2>2 DEF PoolsType
<1>10. WeightsAgree'
  <2>1. WeightTable' = WeightTable
    BY <1>7, <1>8 DEF WeightTable
  <2>2. QED BY <1>1, <1>2, <1>7, <2>1 DEF WeightsAgree
<1>11. ConfigType'
  BY <1>1, <1>2 DEF ConfigType
<1>12. StakesStay
  <2>1. now <= now' /\ UNCHANGED stakeVars /\ held' = held
    BY <1>1, <1>2 DEF ConfigType
  <2>2. \A x \in DOMAIN pools : held[x] <= held'[x]
    <3>1. \A x \in DOMAIN pools : held[x] \in Nat
      BY <1>1 DEF ConfigType, PoolsType
    <3>2. QED BY <2>1, <3>1
  <2>3. QED BY <1>7, <1>8, <1>9, <1>10, <1>11, <2>1, <2>2 DEF StakesStay
<1>13. QED BY <1>12

-----------------------------------------------------------------------------
LEMMA InitInv == Init => LpInv
<1>1. SUFFICES ASSUME Init PROVE LpInv
  OBVIOUS
<1>2. /\ owner = InitOwner /\ distribution_schedule = <<InitSchedule>>
      /\ total_weight = InitWeight * Cardinality(InitTokens)
      /\ pools = [t \in InitTokens |-> NewPool(InitWeight, InitPeriod, 0)]
      /\ reward_info = Empty /\ unbond_orders = Empty /\ staker_by_token = {}
      /\ held = [t \in Tokens |-> 0] /\ prism = Funding /\ now = 0 /\ rebonds = 0
      /\ repriced = FALSE
  BY <1>1 DEF Init
<1>3. IsFiniteSet(InitTokens) /\ Cardinality(InitTokens) \in Nat
  BY FS_Subset, FS_CardinalityType, LpAssumption
<1>4. PICK n \in PoolInfo :
        /\ n = NewPool(InitWeight, InitPeriod, 0) /\ n.weight = InitWeight /\ n.last_distributed = 0
        /\ n.total_bond_amount = 0 /\ n.total_pending_withdraw = 0
  <2>1. NewPool(InitWeight, InitPeriod, 0) \in PoolInfo
    BY LpAssumption DEF NewPool, PoolInfo
  <2>2. QED BY <2>1 DEF NewPool
<1>5. pools = [t \in InitTokens |-> n]
  BY <1>2, <1>4
<1>6. DOMAIN pools = InitTokens /\ \A t \in InitTokens : pools[t] = n
  BY <1>5
<1>7. WeightsAgree
  <2>1. PICK f : f = WeightTable
    OBVIOUS
  <2>2. \A t \in InitTokens : f[t] = InitWeight
    BY <1>4, <1>6, <2>1 DEF WeightTable
  <2>3. SumFunctionOnSet(f, InitTokens) = InitWeight * Cardinality(InitTokens)
    BY <1>3, <2>2, SumConstant, LpAssumption
  <2>4. QED BY <1>2, <1>6, <2>1, <2>3 DEF WeightsAgree
<1>8. ConfigType
  <2>1. InitWeight * Cardinality(InitTokens) \in Nat
    BY <1>3, LpAssumption
  <2>2. distribution_schedule \in Seq(Schedule)
    BY <1>2, LpAssumption
  <2>3. \A i \in DOMAIN distribution_schedule : ValidSchedule(distribution_schedule[i])
    <3>1. DOMAIN distribution_schedule = {1} /\ distribution_schedule[1] = InitSchedule
      BY <1>2
    <3>2. QED BY <3>1, LpAssumption
  <2>4. QED BY <1>2, <2>1, <2>2, <2>3, LpAssumption DEF ConfigType
<1>9. PoolsType
  <2>1. pools \in [DOMAIN pools -> PoolInfo] /\ InitTokens \subseteq Tokens
    BY <1>5, <1>6, LpAssumption
  <2>2. \A t \in InitTokens : pools[t].last_distributed = 0
    BY <1>4, <1>6
  <2>3. QED BY <1>2, <1>6, <2>1, <2>2 DEF PoolsType
<1>10. DOMAIN reward_info = {} /\ DOMAIN unbond_orders = {}
  BY <1>2 DEF Empty
<1>11. StakesType /\ OrdersType
  <2>1. reward_info \in [DOMAIN reward_info -> RewardInfo] /\ unbond_orders \in [DOMAIN unbond_orders -> Nat]
    BY <1>2, <1>10 DEF Empty
  <2>2. QED BY <1>2, <1>10, <2>1 DEF StakesType, OrdersType
<1>12. TypeOK
  BY <1>8, <1>9, <1>11, TypeParts
<1>13. IsFiniteSet(DOMAIN unbond_orders) /\ OrdersRecorded /\ StakersIndexed
  <2>1. IsFiniteSet({})
    BY FS_EmptySet
  <2>2. QED BY <1>2, <1>10, <2>1 DEF OrdersRecorded, StakersIndexed
<1>14. ASSUME NEW t \in DOMAIN pools PROVE Accounted(t)
  <2>1. PICK b : b = BondTable(t)
    OBVIOUS
  <2>2. PICK w : w = WithdrawTable(t)
    OBVIOUS
  <2>3. \A u \in Users : b[u] = 0 /\ w[u] = 0
    BY <1>10, <2>1, <2>2 DEF BondTable, WithdrawTable, Record, DefaultRewardInfo
  <2>4. SumFunctionOnSet(b, Users) = 0 /\ SumFunctionOnSet(w, Users) = 0
    BY <2>3, SumZero, LpAssumption
  <2>5. OrdersIn(unbond_orders, t) = {}
    BY <1>10 DEF OrdersIn
  <2>6. SumIn(unbond_orders, t) = 0
    <3>1. IsFiniteSet({})
      BY FS_EmptySet
    <3>2. PICK f : f = [k \in OrdersIn(unbond_orders, t) |-> unbond_orders[k]]
      OBVIOUS
    <3>3. SumFunctionOnSet(f, {}) = 0
      BY <3>1, SumPick
    <3>4. QED BY <2>5, <3>2, <3>3 DEF SumIn
  <2>7. pools[t].total_bond_amount = 0 /\ pools[t].total_pending_withdraw = 0 /\ held[t] = 0
    BY <1>2, <1>4, <1>6, LpAssumption
  <2>8. QED BY <2>1, <2>2, <2>4, <2>6, <2>7 DEF Accounted
<1>15. QED BY <1>7, <1>12, <1>13, <1>14 DEF LpInv

LEMMA NextInv ==
  ASSUME LpInv, Next
  PROVE  LpInv'
<1>1. TypeOK /\ \A t \in DOMAIN pools : Accounted(t)
  BY DEF LpInv
<1>2. ConfigType /\ PoolsType
  BY <1>1, TypeParts
<1>3. \A t \in DOMAIN pools :
        /\ t \in Tokens /\ held[t] \in Nat
        /\ pools[t].total_bond_amount \in Nat /\ pools[t].total_pending_withdraw \in Nat
        /\ held[t] >= pools[t].total_bond_amount + pools[t].total_pending_withdraw
  BY <1>1, <1>2 DEF ConfigType, PoolsType, PoolInfo, Accounted
<1>4. ASSUME NEW u \in Users, NEW t \in DOMAIN pools, NEW a \in BondAmounts, bond(u, t, a)
      PROVE  LpInv'
  <2>1. a \in Nat
    BY LpAssumption
  <2>2. Bonded(u, t, a) /\ held' = [held EXCEPT ![t] = @ + a]
    BY <1>4 DEF bond
  <2>3. held \in [Tokens -> Nat] /\ held[t] + a \in Nat
    BY <1>2, <1>3, <2>1 DEF ConfigType
  <2>4. /\ held' \in [Tokens -> Nat] /\ held'[t] = held[t] + a
        /\ \A x \in DOMAIN pools \ {t} : held'[x] = held[x]
    BY <1>3, <2>2, <2>3
  <2>5. held'[t] >= pools[t].total_bond_amount + a + pools[t].total_pending_withdraw
    BY <1>3, <2>1, <2>4
  <2>6. PICK i \in RewardInfo, p \in PoolInfo : OneCall(u, t, i, p)
    BY <2>1, <2>2, <2>4, <2>5, BondedMoves
  <2>7. QED BY <2>6, OneCallKeeps
<1>5. ASSUME NEW u \in Users, NEW t \in DOMAIN pools, auto_stake_hook(u, t)
      PROVE  LpInv'
  <2>1. PICK a : a = held[t] - pools[t].total_bond_amount - pools[t].total_pending_withdraw
    OBVIOUS
  <2>2. Bonded(u, t, a) /\ held' = held
    BY <1>5, <2>1 DEF auto_stake_hook
  <2>3. a \in Nat /\ held[t] >= pools[t].total_bond_amount + a + pools[t].total_pending_withdraw
    BY <1>3, <2>1
  <2>4. held' \in [Tokens -> Nat] /\ \A x \in DOMAIN pools \ {t} : held'[x] = held[x]
    BY <1>2, <2>2 DEF ConfigType
  <2>5. PICK i \in RewardInfo, p \in PoolInfo : OneCall(u, t, i, p)
    BY <2>2, <2>3, <2>4, BondedMoves
  <2>6. QED BY <2>5, OneCallKeeps
<1>6. ASSUME NEW u \in Users, NEW t \in DOMAIN pools, NEW a \in UnbondAmounts, unbond(u, t, a)
      PROVE  LpInv'
  <2>1. PICK i \in RewardInfo, p \in PoolInfo : OneCall(u, t, i, p)
    BY <1>6, UnbondMoves, LpAssumption
  <2>2. QED BY <2>1, OneCallKeeps
<1>7. ASSUME NEW u \in Users, NEW t \in DOMAIN pools, unbond(u, t, Record(u, t).bond_amount)
      PROVE  LpInv'
  <2>1. PICK a \in Nat : a = Record(u, t).bond_amount
    BY <1>1, RecordIs DEF RewardInfo
  <2>2. unbond(u, t, a)
    BY <1>7, <2>1 DEF unbond
  <2>3. PICK i \in RewardInfo, p \in PoolInfo : OneCall(u, t, i, p)
    BY <2>2, UnbondMoves
  <2>4. QED BY <2>3, OneCallKeeps
<1>8. ASSUME NEW u \in Users, NEW t \in DOMAIN pools, claim_unbonded(u, t)
      PROVE  LpInv'
  <2>1. PICK i \in RewardInfo, p \in PoolInfo : OneCall(u, t, i, p)
    BY <1>8, ClaimUnbondedMoves
  <2>2. QED BY <2>1, OneCallKeeps
<1>9. ASSUME NEW u \in Users, NEW t \in DOMAIN pools, claim_rewards(u, {t})
      PROVE  LpInv'
  <2>1. PICK S \in SUBSET DOMAIN pools : S = {t}
    OBVIOUS
  <2>2. claim_rewards(u, S)
    BY <1>9, <2>1 DEF claim_rewards
  <2>3. PICK info : UserCall(u, S, info)
    BY <2>2, ClaimRewardsMoves
  <2>4. QED BY <2>3, UserCallKeeps
<1>10. ASSUME NEW u \in Users, claim_rewards(u, StakedBy(u))
       PROVE  LpInv'
  <2>1. StakedBy(u) \subseteq DOMAIN pools
    BY <1>1 DEF StakedBy, TypeOK
  <2>2. PICK S \in SUBSET DOMAIN pools : S = StakedBy(u)
    BY <2>1
  <2>3. claim_rewards(u, S)
    BY <1>10, <2>2 DEF claim_rewards
  <2>4. PICK info : UserCall(u, S, info)
    BY <2>3, ClaimRewardsMoves
  <2>5. QED BY <2>4, UserCallKeeps
<1>11. ASSUME NEW s \in Owners, NEW o \in Owners, update_owner(s, o)
       PROVE  LpInv'
  <2>1. UNCHANGED <<stakeVars, pools, total_weight>> /\ now' = now /\ held' = held
    BY <1>11 DEF update_owner
  <2>2. ConfigType'
    BY <1>2, <1>11 DEF update_owner, ConfigType
  <2>3. now <= now' /\ \A t \in DOMAIN pools : held[t] <= held'[t]
    BY <1>2, <1>3, <2>1 DEF ConfigType
  <2>4. QED BY <2>1, <2>2, <2>3, PoolsStayKeeps
<1>12. ASSUME NEW o \in Owners, NEW s \in Schedules, add_distribution_schedule(o, s)
       PROVE  LpInv'
  <2>1. UNCHANGED <<stakeVars, pools, total_weight>> /\ now' = now /\ held' = held
    BY <1>12 DEF add_distribution_schedule
  <2>2. ConfigType'
    <3>1. s \in Schedule /\ ValidSchedule(s)
      BY <1>12, LpAssumption DEF add_distribution_schedule
    <3>2. PICK d : d = distribution_schedule
      OBVIOUS
    <3>3. d \in Seq(Schedule) /\ \A i \in DOMAIN d : ValidSchedule(d[i])
      BY <1>2, <3>2 DEF ConfigType
    <3>4. Append(d, s) \in Seq(Schedule) /\ \A i \in DOMAIN Append(d, s) : ValidSchedule(Append(d, s)[i])
      <4>1. Append(d, s) \in Seq(Schedule) /\ Len(d) \in Nat /\ DOMAIN d = 1..Len(d)
            /\ DOMAIN Append(d, s) = 1..(Len(d) + 1)
        BY <3>1, <3>3
      <4>2. \A i \in 1..(Len(d) + 1) : Append(d, s)[i] = s \/ (i \in DOMAIN d /\ Append(d, s)[i] = d[i])
        BY <3>1, <3>3, <4>1
      <4>3. QED BY <3>1, <3>3, <4>1, <4>2
    <3>5. distribution_schedule' = Append(d, s)
      BY <1>12, <3>2 DEF add_distribution_schedule
    <3>6. UNCHANGED <<owner, rebonds, repriced, prism>>
      BY <1>12 DEF add_distribution_schedule
    <3>7. QED BY <1>2, <2>1, <3>4, <3>5, <3>6 DEF ConfigType
  <2>3. now <= now' /\ \A t \in DOMAIN pools : held[t] <= held'[t]
    BY <1>2, <1>3, <2>1 DEF ConfigType
  <2>4. QED BY <2>1, <2>2, <2>3, PoolsStayKeeps
<1>13. ASSUME NEW o \in Owners, NEW t \in Tokens, NEW p \in Periods, NEW w \in Weights,
              register_staking_token(o, t, p, w)
       PROVE  LpInv'
  BY <1>13, RegisterStays, StakesStayKeeps, LpAssumption
<1>14. ASSUME NEW o \in Owners, NEW t \in DOMAIN pools, NEW w \in Weights, update_weight(o, t, w)
       PROVE  LpInv'
  BY <1>14, UpdateWeightStays, StakesStayKeeps, LpAssumption
<1>15. ASSUME NEW o \in Owners, NEW t \in DOMAIN pools, NEW p \in Periods,
              update_unbond_period(o, t, p)
       PROVE  LpInv'
  BY <1>15, UpdatePeriodStays, StakesStayKeeps, LpAssumption
<1>16. ASSUME NEW t \in Tokens, NEW a \in GiftAmounts, LpArrives(t, a)
       PROVE  LpInv'
  <2>1. UNCHANGED <<stakeVars, pools, total_weight>> /\ now' = now
    BY <1>16 DEF LpArrives, configVars
  <2>2. held \in [Tokens -> Nat] /\ a \in Nat /\ held[t] \in Nat
    BY <1>2, LpAssumption DEF ConfigType
  <2>3. held[t] + a \in Nat /\ held' = [held EXCEPT ![t] = @ + a]
    BY <1>16, <2>2 DEF LpArrives
  <2>4. held' \in [Tokens -> Nat] /\ \A x \in Tokens : held[x] <= held'[x]
    BY <2>2, <2>3
  <2>5. ConfigType'
    BY <1>2, <1>16, <2>4 DEF LpArrives, configVars, ConfigType
  <2>6. now <= now' /\ \A x \in DOMAIN pools : held[x] <= held'[x]
    BY <1>2, <1>3, <2>1, <2>4 DEF ConfigType
  <2>7. QED BY <2>1, <2>5, <2>6, PoolsStayKeeps
<1>17. ASSUME EndBlock
       PROVE  LpInv'
  <2>1. UNCHANGED <<stakeVars, pools, total_weight>> /\ now' = now + 1 /\ held' = held
    BY <1>17 DEF EndBlock, configVars
  <2>2. ConfigType'
    BY <1>2, <1>17 DEF EndBlock, configVars, ConfigType
  <2>3. now <= now' /\ \A t \in DOMAIN pools : held[t] <= held'[t]
    BY <1>2, <1>3, <2>1 DEF ConfigType
  <2>4. QED BY <2>1, <2>2, <2>3, PoolsStayKeeps
<1>18. QED BY <1>4, <1>5, <1>6, <1>7, <1>8, <1>9, <1>10, <1>11, <1>12, <1>13, <1>14, <1>15,
              <1>16, <1>17 DEF Next

LEMMA StutterInv ==
  ASSUME LpInv, UNCHANGED vars
  PROVE  LpInv'
<1>1. UNCHANGED <<stakeVars, pools, total_weight, owner, distribution_schedule, repriced, held, prism,
                  now, rebonds>>
  BY DEF vars, configVars
<1>2. ConfigType /\ PoolsType
  BY TypeParts DEF LpInv
<1>3. ConfigType'
  BY <1>1, <1>2 DEF ConfigType
<1>4. now <= now' /\ \A t \in DOMAIN pools : held[t] <= held'[t]
  <2>1. now \in Nat /\ \A t \in DOMAIN pools : held[t] \in Nat
    BY <1>2 DEF ConfigType, PoolsType
  <2>2. QED BY <1>1, <2>1
<1>5. QED BY <1>1, <1>3, <1>4, PoolsStayKeeps

LEMMA InvAlways == Spec => []LpInv
<1>1. LpInv /\ [Next]_vars => LpInv'
  BY NextInv, StutterInv
<1>2. QED BY InitInv, <1>1, PTL DEF Spec

\* The variables keep their types, no pool is ahead of time and no record ahead of its
\* pool's index: the subtractions of compute_pool_reward, compute_staker_reward, unbond
\* and claim_unbonded never fail, whatever the stakes, schedules and weights.
THEOREM TypeCorrect == Spec => []TypeOK
<1>1. LpInv => TypeOK
  BY DEF LpInv
<1>2. QED BY InvAlways, <1>1, PTL

\* A pool's totals are the sums of its stakers' bonds, withdrawable amounts and orders,
\* and covered by the tokens held; whoever has an order has a record; the index of
\* stakers is that of the records.
THEOREM StakesAreAccountedFor == Spec => []StakesAccountedFor
<1>1. LpInv => StakesAccountedFor
  BY AccountedParts DEF LpInv
<1>2. QED BY InvAlways, <1>1, PTL

-----------------------------------------------------------------------------
(***************************************************************************)
(* The unbond orders of a token implement RedemptionQueue: unbonding       *)
(* places an order, claim_unbonded pays what is ready, and every call that *)
(* pulls orders on the way takes the oldest expired ones.                  *)
(***************************************************************************)
OpenOrders == {<<j[1], j[3]>> : j \in QueueOrders}
OpenQueue == [k \in OpenOrders |-> unbond_orders[<<k[1], QueueToken, k[2]>>]]
ReadyNow == [u \in Users |-> Record(u, QueueToken).withdrawable_amount]
MatureNow ==
  {<<j[1], j[3]>> : j \in {k \in QueueOrders : k[3] + pools[QueueToken].unbond_period < now}}
Promised == IF QueueToken \in DOMAIN pools THEN pools[QueueToken].total_pending_withdraw ELSE 0

\* The orders a call of u about the pools of S takes from the queue.
Taken(u, S) == {<<u, o>> : o \in {e \in ExpiredOrders(u, QueueToken) : QueueToken \in S}}

\* The instance's copies of the library's operators are the library's.
LEMMA QueueOperators ==
  /\ \A f, S : Queue!SumFunctionOnSet(f, S) = SumFunctionOnSet(f, S)
  /\ \A f, S : Queue!Restrict(f, S) = Restrict(f, S)
  BY DEF Queue!SumFunctionOnSet, SumFunctionOnSet, Queue!FoldFunctionOnSet,
       FoldFunctionOnSet, Queue!MapThenFoldSet, MapThenFoldSet, Queue!Restrict, Restrict

LEMMA QueueNext ==
  ASSUME NEW S, S = OpenOrders \ OpenOrders',
         \/ Queue!Collect(S)
         \/ \E k \in OpenOrders' \ OpenOrders : Queue!Place(k[1], k[2], OpenQueue'[k], S)
         \/ \E c \in Users : Queue!Pay(c, S)
  PROVE  Queue!Next
<1>1. DOMAIN OpenQueue = OpenOrders /\ DOMAIN OpenQueue' = OpenOrders'
  BY DEF OpenQueue
<1>2. S = DOMAIN OpenQueue \ DOMAIN OpenQueue' /\ Queue!Placed = OpenOrders' \ OpenOrders
  BY <1>1 DEF Queue!Placed, OpenQueue, OpenOrders
<1>3. Queue!Next
        <=> \/ Queue!Collect(DOMAIN OpenQueue \ DOMAIN OpenQueue')
            \/ \E k \in Queue!Placed :
                 Queue!Place(k[1], k[2], OpenQueue'[k], DOMAIN OpenQueue \ DOMAIN OpenQueue')
            \/ \E c \in Users : Queue!Pay(c, DOMAIN OpenQueue \ DOMAIN OpenQueue')
  BY Zenon DEF Queue!Next, OpenQueue, OpenOrders
<1>4. CASE Queue!Collect(S)
  BY <1>2, <1>3, <1>4, Zenon DEF Queue!Collect, Queue!Leaving, Queue!Left, Queue!Collected
<1>5. CASE \E k \in OpenOrders' \ OpenOrders : Queue!Place(k[1], k[2], OpenQueue'[k], S)
  <2>1. PICK k \in OpenOrders' \ OpenOrders : Queue!Place(k[1], k[2], OpenQueue'[k], S)
    BY <1>5
  <2>2. Queue!Place(k[1], k[2], OpenQueue'[k], DOMAIN OpenQueue \ DOMAIN OpenQueue')
    BY <1>2, <2>1, Zenon DEF Queue!Place, Queue!Leaving, Queue!Left, Queue!Collected
  <2>3. k \in Queue!Placed
    BY <1>2
  <2>4. QED BY <1>3, <2>2, <2>3, Zenon
<1>6. CASE \E c \in Users : Queue!Pay(c, S)
  BY <1>2, <1>3, <1>6, Zenon DEF Queue!Pay, Queue!Leaving, Queue!Left, Queue!Collected
<1>7. QED BY <1>4, <1>5, <1>6

LEMMA OpenOrdersAre ==
  ASSUME TypeOK
  PROVE  /\ \A u, o : <<u, o>> \in OpenOrders <=> <<u, QueueToken, o>> \in DOMAIN unbond_orders
         /\ \A k \in OpenOrders : k = <<k[1], k[2]>> /\ k[1] \in Users /\ k[2] \in Nat
<1>1. \A j \in DOMAIN unbond_orders :
        j = <<j[1], j[2], j[3]>> /\ j[1] \in Users /\ j[3] \in 0..now
  BY DEF TypeOK
<1>2. \A k : k \in OpenOrders <=> \E j \in DOMAIN unbond_orders : j[2] = QueueToken /\ k = <<j[1], j[3]>>
  BY DEF OpenOrders, QueueOrders, OrdersOf
<1>3. ASSUME NEW u, NEW o
      PROVE  <<u, o>> \in OpenOrders <=> <<u, QueueToken, o>> \in DOMAIN unbond_orders
  <2>1. ASSUME <<u, o>> \in OpenOrders PROVE <<u, QueueToken, o>> \in DOMAIN unbond_orders
    <3>1. PICK j \in DOMAIN unbond_orders : j[2] = QueueToken /\ <<u, o>> = <<j[1], j[3]>>
      BY <1>2, <2>1
    <3>2. QED BY <1>1, <3>1
  <2>2. ASSUME <<u, QueueToken, o>> \in DOMAIN unbond_orders PROVE <<u, o>> \in OpenOrders
    <3>1. PICK j : j = <<u, QueueToken, o>>
      OBVIOUS
    <3>2. j[2] = QueueToken /\ <<u, o>> = <<j[1], j[3]>> /\ j \in DOMAIN unbond_orders
      BY <2>2, <3>1
    <3>3. QED BY <1>2, <3>2
  <2>3. QED BY <2>1, <2>2
<1>4. ASSUME NEW k \in OpenOrders PROVE k = <<k[1], k[2]>> /\ k[1] \in Users /\ k[2] \in Nat
  <2>1. PICK j \in DOMAIN unbond_orders : j[2] = QueueToken /\ k = <<j[1], j[3]>>
    BY <1>2
  <2>2. j[1] \in Users /\ j[3] \in Nat
    BY <1>1
  <2>3. QED BY <2>1, <2>2
<1>5. QED BY <1>3, <1>4

\* A call takes a prefix of the staker's orders.
LEMMA ExpiredPrefix ==
  ASSUME TypeOK, NEW u, NEW t \in DOMAIN pools, NEW e \in ExpiredOrders(u, t),
         NEW o \in OrderTimes(u, t), o < e
  PROVE  o \in ExpiredOrders(u, t)
<1>1. IsFiniteSet(OrderTimes(u, t)) /\ OrderTimes(u, t) \subseteq 0..now /\ now \in Nat
  BY OrderTimesAre DEF TypeOK
<1>2. PICK A : A = {x \in OrderTimes(u, t) : x <= o}
  OBVIOUS
<1>3. PICK B : B = {x \in OrderTimes(u, t) : x <= e}
  OBVIOUS
<1>4. e \in OrderTimes(u, t) /\ Cardinality(B) <= MAX_ORDER_WITHDRAW_PER_TX
      /\ e + pools[t].unbond_period < now
  BY <1>3 DEF ExpiredOrders
<1>5. A \subseteq B /\ B \subseteq OrderTimes(u, t)
  BY <1>1, <1>2, <1>3, <1>4
<1>6. IsFiniteSet(B) /\ IsFiniteSet(A)
  BY <1>1, <1>5, FS_Subset
<1>7. Cardinality(A) \in Nat /\ Cardinality(B) \in Nat /\ Cardinality(A) <= Cardinality(B)
  BY <1>5, <1>6, FS_Subset, FS_CardinalityType
<1>8. Cardinality(A) <= MAX_ORDER_WITHDRAW_PER_TX
  BY <1>4, <1>7, LpAssumption
<1>9. o + pools[t].unbond_period < now
  <2>1. pools[t].unbond_period \in Nat /\ o \in Nat /\ e \in Nat
    BY <1>1, <1>4 DEF TypeOK, PoolInfo
  <2>2. QED BY <1>1, <1>4, <2>1
<1>10. QED BY <1>2, <1>8, <1>9 DEF ExpiredOrders

\* What a call takes may leave the queue, and is the withdrawable amount.
LEMMA TakenLeaves ==
  ASSUME LpInv, NEW u \in Users, NEW S \in SUBSET DOMAIN pools
  PROVE  /\ Queue!Leaving(Taken(u, S))
         /\ Taken(u, S) \subseteq OpenOrders
         /\ \A k \in Taken(u, S) : k[1] = u
         /\ \A c : Queue!Collected(c, Taken(u, S))
                     = IF c = u /\ QueueToken \in S THEN withdrawable_amount(u, QueueToken) ELSE 0
<1>1. TypeOK
  BY DEF LpInv
<1>2. PICK P : P = Taken(u, S)
  OBVIOUS
<1>3. PICK W : W = {e \in ExpiredOrders(u, QueueToken) : QueueToken \in S}
  OBVIOUS
<1>4. P = {<<u, o>> : o \in W}
  BY <1>2, <1>3 DEF Taken
<1>5. /\ \A k \in P : k[1] = u /\ k[2] \in W /\ k = <<u, k[2]>>
      /\ \A o \in W : <<u, o>> \in P
  BY <1>4
<1>6. /\ W \subseteq OrderTimes(u, QueueToken) /\ IsFiniteSet(W)
      /\ \A o \in W : o + pools[QueueToken].unbond_period < now
  <2>1. W \subseteq ExpiredOrders(u, QueueToken)
    BY <1>3
  <2>2. IsFiniteSet(W)
    BY <1>1, <2>1, ExpiredWithinLimit, FS_Subset
  <2>3. QED BY <2>1, <2>2 DEF ExpiredOrders
<1>7. \A o \in OrderTimes(u, QueueToken) : <<u, QueueToken, o>> \in DOMAIN unbond_orders
  BY <1>1, OrderTimesAre
<1>8. \A k \in P : k \in OpenOrders
  BY <1>1, <1>5, <1>6, <1>7, OpenOrdersAre, ZenonT(40)
<1>9. Queue!Leaving(P)
  <2>1. P \subseteq DOMAIN OpenQueue \cap MatureNow
    <3>1. ASSUME NEW k \in P PROVE k \in MatureNow
      <4>1. PICK j : j = <<u, QueueToken, k[2]>>
        OBVIOUS
      <4>2. j \in QueueOrders /\ j[3] + pools[QueueToken].unbond_period < now /\ k = <<j[1], j[3]>>
        BY <1>5, <1>6, <1>7, <4>1 DEF QueueOrders, OrdersOf
      <4>3. QED BY <4>2 DEF MatureNow
    <3>2. QED BY <1>8, <3>1 DEF OpenQueue
  <2>2. ASSUME NEW k \in P, NEW j \in OpenOrders, j[1] = k[1], j[2] < k[2] PROVE j \in P
    <3>1. j = <<u, j[2]>>
      BY <1>1, <1>5, <2>2, OpenOrdersAre
    <3>2. <<u, QueueToken, j[2]>> \in DOMAIN unbond_orders
      BY <1>1, <3>1, OpenOrdersAre
    <3>3. j[2] \in OrderTimes(u, QueueToken)
      <4>1. PICK i : i = <<u, QueueToken, j[2]>>
        OBVIOUS
      <4>2. i \in DOMAIN unbond_orders /\ i[1] = u /\ i[2] = QueueToken /\ i[3] = j[2]
        BY <3>2, <4>1
      <4>3. QED BY <4>2 DEF OrderTimes
    <3>4. k[2] \in ExpiredOrders(u, QueueToken) /\ QueueToken \in S
      BY <1>3, <1>5
    <3>5. j[2] \in ExpiredOrders(u, QueueToken)
      BY <1>1, <2>2, <3>3, <3>4, ExpiredPrefix
    <3>6. QED BY <1>3, <1>5, <3>1, <3>4, <3>5
  <2>3. QED BY <2>1, <2>2 DEF Queue!Leaving, OpenQueue, OpenOrders, MatureNow
<1>10. ASSUME NEW c
       PROVE  Queue!Collected(c, P) = IF c = u /\ QueueToken \in S
                                      THEN withdrawable_amount(u, QueueToken) ELSE 0
  <2>1. PICK q : q = OpenQueue
    OBVIOUS
  <2>2. Queue!Collected(c, P) = SumFunctionOnSet(q, {k \in P : k[1] = c})
    BY <2>1, QueueOperators DEF Queue!Collected, OpenQueue, OpenOrders
  <2>3. CASE c = u /\ QueueToken \in S
    <3>1. {k \in P : k[1] = c} = P /\ W = ExpiredOrders(u, QueueToken)
      BY <1>3, <1>5, <2>3
    <3>2. PICK h : h = [o \in OrderTimes(u, QueueToken) |-> unbond_orders[<<u, QueueToken, o>>]]
      OBVIOUS
    <3>3. \A o \in W : h[o] \in Nat /\ h[o] = unbond_orders[<<u, QueueToken, o>>]
      BY <1>1, <1>6, <1>7, <3>2 DEF TypeOK
    <3>4. \A k \in P : q[k] = unbond_orders[<<u, QueueToken, k[2]>>]
      BY <1>5, <1>8, <2>1 DEF OpenQueue
    <3>5. /\ \A k \in P : k[2] \in W /\ q[k] = h[k[2]]
          /\ \A j, k \in P : j[2] = k[2] => j = k
          /\ \A o \in W : h[o] \in Nat /\ \E k \in P : k[2] = o
      <4>1. \A k \in P : k[2] \in W /\ q[k] = h[k[2]]
        BY <1>5, <3>3, <3>4
      <4>2. \A j, k \in P : j[2] = k[2] => j = k
        BY <1>5
      <4>3. \A o \in W : <<u, o>> \in P /\ <<u, o>>[2] = o
        BY <1>5
      <4>4. QED BY <3>3, <4>1, <4>2, <4>3, Zenon
    <3>6. SumFunctionOnSet(q, P) = SumFunctionOnSet(h, W)
      BY ONLY <1>6, <3>5, SumBySecond
    <3>7. QED BY <2>2, <2>3, <3>1, <3>2, <3>6 DEF withdrawable_amount
  <2>4. CASE ~(c = u /\ QueueToken \in S)
    <3>1. {k \in P : k[1] = c} = {}
      BY <1>3, <1>5, <2>4
    <3>2. SumFunctionOnSet(q, {}) = 0
      BY SumPick, FS_EmptySet
    <3>3. QED BY <2>2, <2>4, <3>1, <3>2
  <2>5. QED BY <2>3, <2>4
<1>11. QED BY <1>2, <1>5, <1>8, <1>9, <1>10

OpenFact ==
  /\ \A u, o : <<u, o>> \in OpenOrders <=> <<u, QueueToken, o>> \in DOMAIN unbond_orders
  /\ \A k \in OpenOrders : k = <<k[1], k[2]>> /\ k[1] \in Users /\ k[2] \in Nat
PromiseFact == held[QueueToken] \in Nat /\ Promised \in Nat /\ held[QueueToken] >= Promised

LEMMA QueueFacts == LpInv => OpenFact /\ PromiseFact
<1>1. SUFFICES ASSUME LpInv PROVE OpenFact /\ PromiseFact
  OBVIOUS
<1>2. TypeOK
  BY <1>1 DEF LpInv
<1>3. OpenFact
  BY <1>2, OpenOrdersAre DEF OpenFact
<1>4. held[QueueToken] \in Nat
  BY <1>2, LpAssumption DEF TypeOK
<1>5. CASE QueueToken \in DOMAIN pools
  <2>1. Accounted(QueueToken) /\ pools[QueueToken] \in PoolInfo
    BY <1>1, <1>2, <1>5 DEF LpInv, TypeOK
  <2>2. QED BY <1>3, <1>4, <1>5, <2>1 DEF PromiseFact, Promised, Accounted, PoolInfo
<1>6. CASE QueueToken \notin DOMAIN pools
  BY <1>3, <1>4, <1>6 DEF PromiseFact, Promised
<1>7. QED BY <1>5, <1>6

LEMMA QueueFactsNext == LpInv' => OpenFact' /\ PromiseFact'
  BY QueueFacts, PTL

\* Nobody's ready amount changes but u's, by r.
ReadyGrows(u, r) ==
  \A x \in Users : Record(x, QueueToken)'.withdrawable_amount
                     = Record(x, QueueToken).withdrawable_amount + (IF x = u THEN r ELSE 0)

\* Sets of pairs with the same members.
LEMMA OpenSame ==
  ASSUME NEW A, NEW B, \A k \in A : k = <<k[1], k[2]>>, \A k \in B : k = <<k[1], k[2]>>,
         \A x, o : <<x, o>> \in A <=> <<x, o>> \in B
  PROVE  A = B
<1>1. ASSUME NEW k \in A PROVE k \in B
  <2>1. <<k[1], k[2]>> \in A => <<k[1], k[2]>> \in B
    OBVIOUS
  <2>2. k = <<k[1], k[2]>>
    OBVIOUS
  <2>3. QED BY <2>1, <2>2, Zenon
<1>2. ASSUME NEW k \in B PROVE k \in A
  <2>1. <<k[1], k[2]>> \in B => <<k[1], k[2]>> \in A
    OBVIOUS
  <2>2. k = <<k[1], k[2]>>
    OBVIOUS
  <2>3. QED BY <2>1, <2>2, Zenon
<1>3. QED BY <1>1, <1>2

\* A step without effect on the orders of the token.
LEMMA QueueIdles ==
  ASSUME OpenFact, OpenFact', PromiseFact',
         \A x, o : <<x, QueueToken, o>> \in DOMAIN unbond_orders' <=> <<x, QueueToken, o>> \in DOMAIN unbond_orders,
         \A x, o : <<x, QueueToken, o>> \in DOMAIN unbond_orders =>
                     unbond_orders'[<<x, QueueToken, o>>] = unbond_orders[<<x, QueueToken, o>>],
         \A x \in Users : Record(x, QueueToken)'.withdrawable_amount
                            = Record(x, QueueToken).withdrawable_amount
                          /\ Record(x, QueueToken).withdrawable_amount \in Nat,
         Promised' = Promised
  PROVE  Queue!Next
<1>1. OpenOrders' = OpenOrders
  <2>1. \A x, o : <<x, o>> \in OpenOrders' <=> <<x, o>> \in OpenOrders
    BY DEF OpenFact
  <2>2. QED BY <2>1, OpenSame DEF OpenFact
<1>2. OpenQueue' = OpenQueue
  <2>1. \A k \in OpenOrders : <<k[1], QueueToken, k[2]>> \in DOMAIN unbond_orders
    BY DEF OpenFact
  <2>2. \A k \in OpenOrders :
          unbond_orders'[<<k[1], QueueToken, k[2]>>] = unbond_orders[<<k[1], QueueToken, k[2]>>]
    BY <2>1
  <2>3. QED BY <1>1, <2>2 DEF OpenQueue
<1>3. Queue!Leaving({})
  BY DEF Queue!Leaving
<1>4. OpenQueue = Queue!Left({})
  BY QueueOperators DEF Queue!Left, Restrict, OpenQueue, OpenOrders
<1>5. \A c : Queue!Collected(c, {}) = 0
  <2>1. \A c : {k \in {} : k[1] = c} = {}
    OBVIOUS
  <2>2. \A f : SumFunctionOnSet(f, {}) = 0
    BY SumPick, FS_EmptySet
  <2>3. QED BY <2>1, <2>2, QueueOperators DEF Queue!Collected
<1>6. ReadyNow' = [c \in Users |-> ReadyNow[c] + Queue!Collected(c, {})]
  BY <1>5 DEF ReadyNow
<1>7. held'[QueueToken] \in Nat /\ held'[QueueToken] >= Promised
  BY DEF PromiseFact
<1>8. Queue!Collect({})
  BY <1>2, <1>3, <1>4, <1>6, <1>7 DEF Queue!Collect, OpenQueue, OpenOrders, ReadyNow, Promised
<1>9. PICK S : S = OpenOrders \ OpenOrders' /\ S = {}
  BY <1>1
<1>10. QED BY <1>8, <1>9, QueueNext

\* What is left of the queue after a call of u has pulled the token's orders.
LeftOf(P, R) ==
  /\ \A x, o : <<x, QueueToken, o>> \in DOMAIN R <=> <<x, o>> \in OpenOrders \ P
  /\ \A k \in OpenOrders \ P : R[<<k[1], QueueToken, k[2]>>] = OpenQueue[k]

LEMMA QueueLeft == \A P : Queue!Left(P) = [k \in OpenOrders \ P |-> OpenQueue[k]]
  BY QueueOperators DEF Queue!Left, Restrict, OpenQueue, OpenOrders

LEMMA QueueAfterPull ==
  ASSUME LpInv, NEW u \in Users, NEW S \in SUBSET DOMAIN pools, QueueToken \in S,
         NEW P, P = Taken(u, S),
         NEW R, R = Remaining(u, S)
  PROVE  LeftOf(P, R)
<1>1. TypeOK /\ OpenFact
  BY QueueFacts DEF LpInv
<1>2. R = [k \in DOMAIN unbond_orders \ PulledKeys(u, S) |-> unbond_orders[k]]
  BY RemainingAre
<1>3. ASSUME NEW x, NEW o
      PROVE  <<x, QueueToken, o>> \in DOMAIN R <=> <<x, o>> \in OpenOrders \ P
  <2>1. PICK j : j = <<x, QueueToken, o>>
    OBVIOUS
  <2>2. j[1] = x /\ j[2] = QueueToken /\ j[3] = o
    BY <2>1
  <2>3. j \in DOMAIN R <=> j \in DOMAIN unbond_orders /\ ~(x = u /\ o \in ExpiredOrders(u, QueueToken))
    BY <1>2, <2>2 DEF PulledKeys
  <2>4. <<x, o>> \in P <=> x = u /\ o \in ExpiredOrders(u, QueueToken)
    BY DEF Taken
  <2>5. <<x, o>> \in OpenOrders <=> j \in DOMAIN unbond_orders
    BY <1>1, <2>1 DEF OpenFact
  <2>6. QED BY <2>1, <2>3, <2>4, <2>5
<1>4. ASSUME NEW k \in OpenOrders \ P PROVE R[<<k[1], QueueToken, k[2]>>] = OpenQueue[k]
  <2>1. k = <<k[1], k[2]>>
    BY <1>1 DEF OpenFact
  <2>2. <<k[1], QueueToken, k[2]>> \in DOMAIN R
    BY <1>3, <2>1
  <2>3. QED BY <1>2, <2>2 DEF OpenQueue
<1>5. QED BY <1>3, <1>4 DEF LeftOf

\* A call that pulls and places nothing.
LEMMA QueuePulled ==
  ASSUME LpInv, LpInv', NEW u \in Users, NEW S \in SUBSET DOMAIN pools, QueueToken \in S,
         unbond_orders' = Remaining(u, S)
  PROVE  LET P == Taken(u, S)
         IN  OpenOrders' = OpenOrders \ P /\ P = OpenOrders \ OpenOrders' /\ OpenQueue' = Queue!Left(P)
<1>1. OpenFact /\ OpenFact'
  BY QueueFacts, QueueFactsNext
<1>2. PICK P : P = Taken(u, S)
  OBVIOUS
<1>3. /\ \A x, o : <<x, QueueToken, o>> \in DOMAIN unbond_orders' <=> <<x, o>> \in OpenOrders \ P
      /\ \A k \in OpenOrders \ P : unbond_orders'[<<k[1], QueueToken, k[2]>>] = OpenQueue[k]
      /\ Queue!Left(P) = [k \in OpenOrders \ P |-> OpenQueue[k]]
  <2>1. LeftOf(P, unbond_orders')
    BY <1>2, QueueAfterPull
  <2>2. QED BY <2>1, QueueLeft DEF LeftOf
<1>4. \A x, o : <<x, o>> \in OpenOrders' <=> <<x, o>> \in OpenOrders \ P
  BY <1>1, <1>3 DEF OpenFact
<1>5. OpenOrders' = OpenOrders \ P
  <2>1. \A k \in OpenOrders' : k \in OpenOrders \ P
    BY <1>1, <1>4 DEF OpenFact
  <2>2. \A k \in OpenOrders \ P : k \in OpenOrders'
    BY <1>1, <1>4 DEF OpenFact
  <2>3. QED BY <2>1, <2>2
<1>6. OpenQueue' = [k \in OpenOrders \ P |-> OpenQueue[k]]
  <2>1. OpenQueue' = [k \in OpenOrders' |-> unbond_orders'[<<k[1], QueueToken, k[2]>>]]
    BY DEF OpenQueue
  <2>2. QED BY <1>3, <1>5, <2>1
<1>7. P \subseteq OpenOrders
  BY <1>2, TakenLeaves
<1>8. QED BY <1>2, <1>3, <1>5, <1>6, <1>7

LEMMA QueueCollects ==
  ASSUME LpInv, LpInv', NEW u \in Users, NEW S \in SUBSET DOMAIN pools, QueueToken \in S,
         unbond_orders' = Remaining(u, S),
         ReadyGrows(u, withdrawable_amount(u, QueueToken)), Promised' = Promised
  PROVE  Queue!Next
<1>1. PICK P : P = Taken(u, S)
  OBVIOUS
<1>2. P = OpenOrders \ OpenOrders' /\ OpenQueue' = Queue!Left(P)
  BY <1>1, QueuePulled
<1>3. /\ Queue!Leaving(P)
      /\ \A c : Queue!Collected(c, P) = IF c = u THEN withdrawable_amount(u, QueueToken) ELSE 0
  BY <1>1, TakenLeaves
<1>4. ReadyNow' = [c \in Users |-> ReadyNow[c] + Queue!Collected(c, P)]
  BY <1>3 DEF ReadyNow, ReadyGrows
<1>5. held'[QueueToken] \in Nat /\ held'[QueueToken] >= Promised
  BY QueueFactsNext DEF PromiseFact
<1>6. Queue!Collect(P)
  BY <1>2, <1>3, <1>4, <1>5 DEF Queue!Collect, OpenQueue, OpenOrders, ReadyNow, Promised
<1>7. QED BY <1>2, <1>6, QueueNext

\* claim_unbonded pays all that is ready.
LEMMA QueuePays ==
  ASSUME LpInv, LpInv', NEW u \in Users, NEW S \in SUBSET DOMAIN pools, QueueToken \in S, NEW a \in Nat, 0 < a,
         a = Record(u, QueueToken).withdrawable_amount + withdrawable_amount(u, QueueToken),
         unbond_orders' = Remaining(u, S),
         Record(u, QueueToken)'.withdrawable_amount = 0,
         \A x \in Users \ {u} : Record(x, QueueToken)'.withdrawable_amount
                                  = Record(x, QueueToken).withdrawable_amount,
         Promised' = Promised - a, held'[QueueToken] = held[QueueToken] - a
  PROVE  Queue!Next
<1>1. PICK P : P = Taken(u, S)
  OBVIOUS
<1>2. P = OpenOrders \ OpenOrders' /\ OpenQueue' = Queue!Left(P)
  BY <1>1, QueuePulled
<1>3. /\ Queue!Leaving(P) /\ \A k \in P : k[1] = u
      /\ Queue!Collected(u, P) = withdrawable_amount(u, QueueToken)
  BY <1>1, TakenLeaves
<1>4. ReadyNow[u] + Queue!Collected(u, P) = a
  BY <1>3 DEF ReadyNow
<1>5. ReadyNow' = [ReadyNow EXCEPT ![u] = 0]
  BY DEF ReadyNow
<1>6. Queue!Pay(u, P)
  BY <1>2, <1>3, <1>4, <1>5 DEF Queue!Pay, OpenQueue, OpenOrders, ReadyNow, Promised
<1>7. QED BY <1>2, <1>6, QueueNext

\* unbond places an order.
LEMMA QueuePlaces ==
  ASSUME LpInv, LpInv', NEW u \in Users, QueueToken \in DOMAIN pools, NEW a \in Nat,
         <<u, QueueToken, now>> \notin DOMAIN unbond_orders,
         unbond_orders' = [k \in DOMAIN Remaining(u, {QueueToken}) \cup {<<u, QueueToken, now>>} |->
                             IF k = <<u, QueueToken, now>> THEN a ELSE Remaining(u, {QueueToken})[k]],
         ReadyGrows(u, withdrawable_amount(u, QueueToken)), Promised' = Promised + a
  PROVE  Queue!Next
<1>1. OpenFact /\ OpenFact'
  BY QueueFacts, QueueFactsNext
<1>2. PICK P : P = Taken(u, {QueueToken})
  OBVIOUS
<1>3. PICK R : R = Remaining(u, {QueueToken})
  OBVIOUS
<1>4. /\ \A x, o : <<x, QueueToken, o>> \in DOMAIN R <=> <<x, o>> \in OpenOrders \ P
      /\ \A k \in OpenOrders \ P : R[<<k[1], QueueToken, k[2]>>] = OpenQueue[k]
      /\ Queue!Left(P) = [k \in OpenOrders \ P |-> OpenQueue[k]]
  <2>1. {QueueToken} \in SUBSET DOMAIN pools /\ QueueToken \in {QueueToken}
    OBVIOUS
  <2>2. LeftOf(P, R)
    BY <1>2, <1>3, <2>1, QueueAfterPull
  <2>3. QED BY <2>2, QueueLeft DEF LeftOf
<1>5. PICK n : n = <<u, now>>
  OBVIOUS
<1>6. n = <<n[1], n[2]>> /\ n[1] = u /\ n[2] = now
  BY <1>5
<1>7. n \notin OpenOrders
  BY <1>1, <1>5 DEF OpenFact
<1>8. /\ DOMAIN unbond_orders' = DOMAIN R \cup {<<u, QueueToken, now>>}
      /\ unbond_orders'[<<u, QueueToken, now>>] = a
      /\ \A k \in DOMAIN R : k # <<u, QueueToken, now>> => unbond_orders'[k] = R[k]
  BY <1>3
<1>9. OpenOrders' = (OpenOrders \ P) \cup {n}
  <2>1. \A x, o : <<x, o>> \in OpenOrders' <=> <<x, QueueToken, o>> \in DOMAIN R \cup {<<u, QueueToken, now>>}
    BY <1>1, <1>8 DEF OpenFact
  <2>2. ASSUME NEW x, NEW o
        PROVE  <<x, o>> \in OpenOrders' <=> <<x, o>> \in (OpenOrders \ P) \cup {n}
    <3>1. <<x, QueueToken, o>> = <<u, QueueToken, now>> <=> <<x, o>> = n
      BY <1>5
    <3>2. <<x, QueueToken, o>> \in DOMAIN R <=> <<x, o>> \in OpenOrders \ P
      BY <1>4
    <3>3. QED BY <2>1, <3>1, <3>2
  <2>3. \A k \in (OpenOrders \ P) \cup {n} : k = <<k[1], k[2]>>
    BY <1>1, <1>6 DEF OpenFact
  <2>4. \A k \in OpenOrders' : k = <<k[1], k[2]>>
    BY <1>1 DEF OpenFact
  <2>5. PICK A : A = (OpenOrders \ P) \cup {n}
    OBVIOUS
  <2>6. QED BY <2>2, <2>3, <2>4, <2>5, OpenSame
<1>10. OpenQueue'[n] = a
  BY <1>6, <1>8, <1>9 DEF OpenQueue
<1>11. ASSUME NEW k \in OpenOrders \ P PROVE OpenQueue'[k] = OpenQueue[k]
  <2>1. k = <<k[1], k[2]>> /\ k # n
    BY <1>1, <1>7 DEF OpenFact
  <2>2. <<k[1], QueueToken, k[2]>> \in DOMAIN R /\ <<k[1], QueueToken, k[2]>> # <<u, QueueToken, now>>
    BY <1>4, <1>5, <2>1
  <2>3. unbond_orders'[<<k[1], QueueToken, k[2]>>] = OpenQueue[k]
    BY <1>4, <1>8, <2>2
  <2>4. QED BY <1>9, <2>3 DEF OpenQueue
<1>12. /\ Queue!Leaving(P) /\ P \subseteq OpenOrders
       /\ \A c : Queue!Collected(c, P) = IF c = u THEN withdrawable_amount(u, QueueToken) ELSE 0
  <2>1. {QueueToken} \in SUBSET DOMAIN pools /\ QueueToken \in {QueueToken}
    OBVIOUS
  <2>2. QED BY <1>2, <2>1, TakenLeaves
<1>13. P = OpenOrders \ OpenOrders' /\ n \in OpenOrders' \ OpenOrders
  BY <1>7, <1>9, <1>12
<1>14. ReadyNow' = [c \in Users |-> ReadyNow[c] + Queue!Collected(c, P)]
  BY <1>12 DEF ReadyNow, ReadyGrows
<1>15. held'[QueueToken] \in Nat /\ held'[QueueToken] >= Promised + a
  BY QueueFactsNext DEF PromiseFact
<1>16. Queue!Place(n[1], n[2], OpenQueue'[n], P)
  <2>1. DOMAIN Queue!Left(P) = OpenOrders \ P
    BY <1>4
  <2>2. OpenQueue' = [k \in DOMAIN Queue!Left(P) \cup {<<n[1], n[2]>>} |->
                        IF k = <<n[1], n[2]>> THEN OpenQueue'[n] ELSE OpenQueue[k]]
    <3>1. OpenQueue' = [k \in OpenOrders' |-> OpenQueue'[k]]
      BY DEF OpenQueue
    <3>2. \A k \in OpenOrders' : OpenQueue'[k] = IF k = n THEN OpenQueue'[n] ELSE OpenQueue[k]
      BY <1>7, <1>9, <1>11
    <3>3. OpenQueue' = [k \in OpenOrders' |-> IF k = n THEN OpenQueue'[n] ELSE OpenQueue[k]]
      BY <3>1, <3>2
    <3>4. QED BY <1>6, <1>9, <2>1, <3>3
  <2>3. n[1] \in Users /\ OpenQueue'[n] \in Nat /\ <<n[1], n[2]>> \notin DOMAIN OpenQueue
    BY <1>6, <1>7, <1>10 DEF OpenQueue
  <2>4. Promised' = Promised + OpenQueue'[n] /\ held'[QueueToken] >= Promised + OpenQueue'[n]
    BY <1>10, <1>15
  <2>5. QED BY <1>12, <1>14, <1>15, <2>2, <2>3, <2>4
    DEF Queue!Place, OpenQueue, OpenOrders, ReadyNow, Promised
<1>17. QED BY <1>13, <1>16, QueueNext

\* A call about other pools.
LEMMA ReadyNat ==
  ASSUME LpInv
  PROVE  \A x \in Users : Record(x, QueueToken).withdrawable_amount \in Nat
<1>1. TypeOK
  BY DEF LpInv
<1>2. CASE QueueToken \in DOMAIN pools
  BY <1>1, <1>2, RecordIs DEF RewardInfo
<1>3. CASE QueueToken \notin DOMAIN pools
  <2>1. \A x : Record(x, QueueToken) = DefaultRewardInfo
    BY <1>1, <1>3 DEF Record, TypeOK
  <2>2. QED BY <2>1 DEF DefaultRewardInfo
<1>4. QED BY <1>2, <1>3

OrdersStay(R) ==
  /\ \A x, o : <<x, QueueToken, o>> \in DOMAIN R <=> <<x, QueueToken, o>> \in DOMAIN unbond_orders
  /\ \A x, o : <<x, QueueToken, o>> \in DOMAIN unbond_orders =>
                 R[<<x, QueueToken, o>>] = unbond_orders[<<x, QueueToken, o>>]

LEMMA OtherOrders ==
  ASSUME NEW u, NEW S, QueueToken \notin S
  PROVE  OrdersStay(Remaining(u, S))
<1>1. PICK R : R = Remaining(u, S)
  OBVIOUS
<1>2. R = [k \in DOMAIN unbond_orders \ PulledKeys(u, S) |-> unbond_orders[k]]
  BY <1>1, RemainingAre
<1>3. ASSUME NEW x, NEW o PROVE <<x, QueueToken, o>> \notin PulledKeys(u, S)
  <2>1. PICK j : j = <<x, QueueToken, o>>
    OBVIOUS
  <2>2. j[2] = QueueToken
    BY <2>1
  <2>3. QED BY <2>1, <2>2 DEF PulledKeys
<1>4. OrdersStay(R)
  BY <1>2, <1>3 DEF OrdersStay
<1>5. QED BY <1>1, <1>4

LEMMA QueueUntouched ==
  ASSUME LpInv, LpInv', OrdersStay(unbond_orders'), Promised' = Promised,
         \A x \in Users : Record(x, QueueToken)'.withdrawable_amount
                            = Record(x, QueueToken).withdrawable_amount
  PROVE  Queue!Next
<1>1. OpenFact /\ OpenFact' /\ PromiseFact'
  BY QueueFacts, QueueFactsNext
<1>2. \A x \in Users : Record(x, QueueToken)'.withdrawable_amount
                            = Record(x, QueueToken).withdrawable_amount
                          /\ Record(x, QueueToken).withdrawable_amount \in Nat
  BY ReadyNat
<1>3. QED BY <1>1, <1>2, QueueIdles DEF OrdersStay

\* A step that touches no stake.
LEMMA StakesStayIdles ==
  ASSUME LpInv, LpInv', StakesStay
  PROVE  Queue!Next
<1>1. reward_info' = reward_info /\ unbond_orders' = unbond_orders
  BY DEF StakesStay, stakeVars
<1>2. \A x \in Users : Record(x, QueueToken)' = Record(x, QueueToken)
  BY <1>1 DEF Record
<1>3. OrdersStay(unbond_orders')
  BY <1>1 DEF OrdersStay
<1>4. Promised' = Promised
  BY DEF StakesStay, Promised
<1>5. QED BY <1>2, <1>3, <1>4, QueueUntouched

LEMMA PoolsStayIdles ==
  ASSUME LpInv, LpInv', UNCHANGED <<stakeVars, pools>>
  PROVE  Queue!Next
<1>1. reward_info' = reward_info /\ unbond_orders' = unbond_orders /\ pools' = pools
  BY DEF stakeVars
<1>2. \A x \in Users : Record(x, QueueToken)' = Record(x, QueueToken)
  BY <1>1 DEF Record
<1>3. OrdersStay(unbond_orders')
  BY <1>1 DEF OrdersStay
<1>4. Promised' = Promised
  BY <1>1 DEF Promised
<1>5. QED BY <1>2, <1>3, <1>4, QueueUntouched

\* The ready amounts and the promises after a call about one pool.
LEMMA OneCallReady ==
  ASSUME LpInv, NEW u \in Users, NEW t \in DOMAIN pools, NEW i \in RewardInfo, NEW p \in PoolInfo,
         OneCall(u, t, i, p)
  PROVE  /\ t # QueueToken => /\ Promised' = Promised
                              /\ \A x \in Users : Record(x, QueueToken)' = Record(x, QueueToken)
         /\ t = QueueToken =>
              /\ Promised = pools[t].total_pending_withdraw /\ Promised' = p.total_pending_withdraw
              /\ \A x \in Users \ {u} : Record(x, QueueToken)' = Record(x, QueueToken)
              /\ Record(u, QueueToken)'.withdrawable_amount = i.withdrawable_amount
<1>1. RecordsMoved(u, {t}, [x \in {t} |-> i]) /\ pools' = [pools EXCEPT ![t] = p]
  BY DEF OneCall
<1>2. PICK info : info = [x \in {t} |-> i]
  OBVIOUS
<1>3. info[t] = i
  BY <1>2
<1>4. /\ \A x, y : ~(x = u /\ y \in {t}) => Record(x, y)' = Record(x, y)
      /\ Record(u, t)'.withdrawable_amount = i.withdrawable_amount
  BY <1>1, <1>2, <1>3, RecordsAfter
<1>5. CASE t # QueueToken
  BY <1>1, <1>4, <1>5 DEF Promised
<1>6. CASE t = QueueToken
  BY <1>1, <1>4, <1>6 DEF Promised
<1>7. QED BY <1>5, <1>6

\* A call about one pool that settles the staker's record.
LEMMA SettlingCollects ==
  ASSUME LpInv, LpInv', NEW u \in Users, NEW t \in DOMAIN pools,
         NEW i \in RewardInfo, NEW p \in PoolInfo, OneCall(u, t, i, p), Settled(u, t, i, p),
         p.total_pending_withdraw = pools[t].total_pending_withdraw,
         unbond_orders' = Remaining(u, {t})
  PROVE  Queue!Next
<1>1. CASE t # QueueToken
  <2>1. OrdersStay(unbond_orders')
    BY <1>1, OtherOrders
  <2>2. Promised' = Promised /\ \A x \in Users : Record(x, QueueToken)' = Record(x, QueueToken)
    BY <1>1, OneCallReady
  <2>3. QED BY <2>1, <2>2, QueueUntouched
<1>2. CASE t = QueueToken
  <2>1. /\ Promised' = Promised
        /\ \A x \in Users \ {u} : Record(x, QueueToken)' = Record(x, QueueToken)
        /\ Record(u, QueueToken)'.withdrawable_amount = i.withdrawable_amount
    BY <1>2, OneCallReady
  <2>2. \A x \in Users : Record(x, QueueToken).withdrawable_amount \in Nat
    BY ReadyNat
  <2>3. ReadyGrows(u, withdrawable_amount(u, QueueToken))
    BY <1>2, <2>1, <2>2 DEF ReadyGrows, Settled
  <2>4. PICK S \in SUBSET DOMAIN pools : S = {t}
    OBVIOUS
  <2>5. QueueToken \in S /\ unbond_orders' = Remaining(u, S)
    BY <1>2, <2>4
  <2>6. QED BY <2>1, <2>3, <2>5, QueueCollects
<1>3. QED BY <1>1, <1>2

LEMMA UnbondQueues ==
  ASSUME LpInv, LpInv', NEW u \in Users, NEW t \in DOMAIN pools, NEW a \in Nat, unbond(u, t, a)
  PROVE  Queue!Next
<1>1. PICK i \in RewardInfo, p \in PoolInfo, c \in {0, a} :
           /\ OneCall(u, t, i, p) /\ Settled(u, t, i, p)
           /\ i.pending_reward = Earned(u, t).pending_reward
           /\ p.total_pending_withdraw = pools[t].total_pending_withdraw + c
           /\ \/ unbond_orders' = Remaining(u, {t}) /\ c = 0
              \/ /\ <<u, t, now>> \notin DOMAIN unbond_orders /\ c = a
                 /\ unbond_orders' = [k \in DOMAIN Remaining(u, {t}) \cup {<<u, t, now>>} |->
                                        IF k = <<u, t, now>> THEN a ELSE Remaining(u, {t})[k]]
  BY UnbondMoves, ZenonT(40)
<1>2. CASE unbond_orders' = Remaining(u, {t}) /\ c = 0
  <2>1. pools[t].total_pending_withdraw \in Nat
    BY DEF LpInv, TypeOK, PoolInfo
  <2>2. p.total_pending_withdraw = pools[t].total_pending_withdraw
    BY <1>1, <1>2, <2>1
  <2>3. QED BY <1>1, <1>2, <2>2, SettlingCollects
<1>3. CASE /\ <<u, t, now>> \notin DOMAIN unbond_orders /\ c = a
           /\ unbond_orders' = [k \in DOMAIN Remaining(u, {t}) \cup {<<u, t, now>>} |->
                                  IF k = <<u, t, now>> THEN a ELSE Remaining(u, {t})[k]]
  <2>1. CASE t # QueueToken
    <3>1. PICK R : R = Remaining(u, {t})
      OBVIOUS
    <3>2. OrdersStay(R)
      BY <2>1, <3>1, OtherOrders
    <3>3. PICK n : n = <<u, t, now>>
      OBVIOUS
    <3>4. /\ DOMAIN unbond_orders' = DOMAIN R \cup {n}
          /\ \A k \in DOMAIN R : k # n => unbond_orders'[k] = R[k]
      BY <1>3, <3>1, <3>3
    <3>5. ASSUME NEW x, NEW o PROVE <<x, QueueToken, o>> # n
      <4>1. PICK j : j = <<x, QueueToken, o>>
        OBVIOUS
      <4>2. j[2] = QueueToken /\ n[2] = t
        BY <3>3, <4>1
      <4>3. QED BY <2>1, <4>1, <4>2
    <3>6. OrdersStay(unbond_orders')
      BY <3>2, <3>4, <3>5 DEF OrdersStay
    <3>7. Promised' = Promised /\ \A x \in Users : Record(x, QueueToken)' = Record(x, QueueToken)
      BY <1>1, <2>1, OneCallReady
    <3>8. QED BY <3>6, <3>7, QueueUntouched
  <2>2. CASE t = QueueToken
    <3>1. /\ Promised' = Promised + a
          /\ \A x \in Users \ {u} : Record(x, QueueToken)' = Record(x, QueueToken)
          /\ Record(u, QueueToken)'.withdrawable_amount = i.withdrawable_amount
      BY <1>1, <1>3, <2>2, OneCallReady
    <3>2. \A x \in Users : Record(x, QueueToken).withdrawable_amount \in Nat
      BY ReadyNat
    <3>3. ReadyGrows(u, withdrawable_amount(u, QueueToken))
      BY <1>1, <2>2, <3>1, <3>2 DEF ReadyGrows, Settled
    <3>4. QED BY <1>3, <2>2, <3>1, <3>3, QueuePlaces
  <2>3. QED BY <2>1, <2>2
<1>4. QED BY <1>1, <1>2, <1>3

LEMMA ClaimUnbondedQueues ==
  ASSUME LpInv, LpInv', NEW u \in Users, NEW t \in DOMAIN pools, claim_unbonded(u, t)
  PROVE  Queue!Next
<1>1. PICK i \in RewardInfo, p \in PoolInfo, a \in Nat :
           /\ OneCall(u, t, i, p)
           /\ 0 < a /\ a = Record(u, t).withdrawable_amount + withdrawable_amount(u, t)
           /\ i = [Record(u, t) EXCEPT !.withdrawable_amount = 0]
           /\ p = [pools[t] EXCEPT !.total_pending_withdraw = pools[t].total_pending_withdraw - a]
           /\ unbond_orders' = Remaining(u, {t})
           /\ held'[t] = held[t] - a /\ prism' = prism
  BY ClaimUnbondedMoves, Zenon
<1>2. CASE t # QueueToken
  <2>1. OrdersStay(unbond_orders')
    BY <1>1, <1>2, OtherOrders
  <2>2. Promised' = Promised /\ \A x \in Users : Record(x, QueueToken)' = Record(x, QueueToken)
    BY <1>1, <1>2, OneCallReady
  <2>3. QED BY <2>1, <2>2, QueueUntouched
<1>3. CASE t = QueueToken
  <2>1. TypeOK
    BY DEF LpInv
  <2>2. i.withdrawable_amount = 0
    <3>1. PICK r \in RewardInfo : r = Record(u, t)
      BY <2>1, RecordIs
    <3>2. i = [r EXCEPT !.withdrawable_amount = 0]
      BY <1>1, <3>1
    <3>3. QED BY <3>2 DEF RewardInfo
  <2>3. p.total_pending_withdraw = pools[t].total_pending_withdraw - a
    <3>1. PICK q \in PoolInfo : q = pools[t]
      BY <2>1 DEF TypeOK
    <3>2. p = [q EXCEPT !.total_pending_withdraw = q.total_pending_withdraw - a]
      BY <1>1, <3>1
    <3>3. QED BY <3>1, <3>2 DEF PoolInfo
  <2>4. /\ Promised' = Promised - a
        /\ \A x \in Users \ {u} : Record(x, QueueToken)' = Record(x, QueueToken)
        /\ Record(u, QueueToken)'.withdrawable_amount = 0
    BY <1>1, <1>3, <2>2, <2>3, OneCallReady
  <2>5. PICK S \in SUBSET DOMAIN pools : S = {t}
    OBVIOUS
  <2>6. QueueToken \in S /\ unbond_orders' = Remaining(u, S)
    BY <1>1, <1>3, <2>5
  <2>7. QED BY <1>1, <1>3, <2>4, <2>6, QueuePays
<1>4. QED BY <1>2, <1>3

LEMMA ClaimRewardsQueues ==
  ASSUME LpInv, LpInv', NEW u \in Users, NEW S \in SUBSET DOMAIN pools, claim_rewards(u, S)
  PROVE  Queue!Next
<1>1. PICK info :
           /\ UserCall(u, S, info)
           /\ \A t \in S : Settled(u, t, info[t], pools'[t])
           /\ \A t \in DOMAIN pools :
                pools'[t].total_pending_withdraw = pools[t].total_pending_withdraw
           /\ unbond_orders' = Remaining(u, S)
  BY ClaimRewardsMoves
<1>2. RecordsMoved(u, S, info) /\ DOMAIN pools' = DOMAIN pools
  BY <1>1 DEF UserCall, UserMoves
<1>3. Promised' = Promised
  BY <1>1, <1>2 DEF Promised
<1>4. /\ \A x, t : ~(x = u /\ t \in S) => Record(x, t)' = Record(x, t)
      /\ \A t \in S : Record(u, t)'.withdrawable_amount = info[t].withdrawable_amount
  BY <1>2, RecordsAfter
<1>5. CASE QueueToken \notin S
  <2>1. OrdersStay(unbond_orders')
    BY <1>1, <1>5, OtherOrders
  <2>2. \A x \in Users : Record(x, QueueToken)' = Record(x, QueueToken)
    BY <1>4, <1>5
  <2>3. QED BY <1>3, <2>1, <2>2, QueueUntouched
<1>6. CASE QueueToken \in S
  <2>1. \A x \in Users : Record(x, QueueToken).withdrawable_amount \in Nat
    BY ReadyNat
  <2>2. Record(u, QueueToken)'.withdrawable_amount
          = Record(u, QueueToken).withdrawable_amount + withdrawable_amount(u, QueueToken)
    BY <1>1, <1>4, <1>6 DEF Settled
  <2>3. \A x \in Users \ {u} : Record(x, QueueToken)' = Record(x, QueueToken)
    BY <1>4
  <2>4. ReadyGrows(u, withdrawable_amount(u, QueueToken))
    BY <2>1, <2>2, <2>3 DEF ReadyGrows
  <2>5. QED BY <1>1, <1>3, <1>6, <2>4, QueueCollects
<1>7. QED BY <1>5, <1>6

LEMMA QueueInit == Init => Queue!Init
<1> SUFFICES ASSUME Init PROVE Queue!Init
  OBVIOUS
<1>1. DOMAIN unbond_orders = {} /\ DOMAIN reward_info = {}
  BY DEF Init, Empty
<1>2. OpenOrders = {}
  BY <1>1 DEF OpenOrders, QueueOrders, OrdersOf
<1>3. OpenQueue = [k \in {} |-> 0]
  BY <1>2 DEF OpenQueue
<1>4. ReadyNow = [u \in Users |-> 0]
  BY <1>1 DEF ReadyNow, Record, DefaultRewardInfo
<1>5. Promised = 0
  BY DEF Promised, Init, NewPool
<1>6. held[QueueToken] \in Nat
  BY LpAssumption DEF Init
<1>7. QED BY <1>3, <1>4, <1>5, <1>6
  DEF Queue!Init, OpenQueue, OpenOrders, ReadyNow, Promised

LEMMA QueueStep ==
  ASSUME LpInv, LpInv', [Next]_vars
  PROVE  [Queue!Next]_(Queue!queue)
<1>1. ConfigType /\ PoolsType /\ TypeOK /\ \A t \in DOMAIN pools : Accounted(t)
  BY TypeParts DEF LpInv
<1>2. \A t \in DOMAIN pools :
        /\ t \in Tokens /\ held[t] \in Nat
        /\ pools[t].total_bond_amount \in Nat /\ pools[t].total_pending_withdraw \in Nat
        /\ held[t] >= pools[t].total_bond_amount + pools[t].total_pending_withdraw
  BY <1>1 DEF ConfigType, PoolsType, PoolInfo, Accounted
<1>3. ASSUME NEW u \in Users, NEW t \in DOMAIN pools, NEW a \in Nat, Bonded(u, t, a),
             held' \in [Tokens -> Nat], \A x \in DOMAIN pools \ {t} : held'[x] = held[x],
             held'[t] >= pools[t].total_bond_amount + a + pools[t].total_pending_withdraw
      PROVE  Queue!Next
  <2>1. PICK i \in RewardInfo, p \in PoolInfo :
           /\ OneCall(u, t, i, p) /\ Settled(u, t, i, p)
           /\ p.total_pending_withdraw = pools[t].total_pending_withdraw
    BY <1>3, BondedMoves
  <2>2. unbond_orders' = Remaining(u, {t})
    BY <1>3 DEF Bonded
  <2>3. QED BY <2>1, <2>2, SettlingCollects
<1>4. ASSUME NEW u \in Users, NEW t \in DOMAIN pools, NEW a \in BondAmounts, bond(u, t, a)
      PROVE  Queue!Next
  <2>1. a \in Nat
    BY LpAssumption
  <2>2. Bonded(u, t, a) /\ held' = [held EXCEPT ![t] = @ + a]
    BY <1>4 DEF bond
  <2>3. held \in [Tokens -> Nat] /\ held[t] + a \in Nat
    BY <1>1, <1>2, <2>1 DEF ConfigType
  <2>4. /\ held' \in [Tokens -> Nat] /\ held'[t] = held[t] + a
        /\ \A x \in DOMAIN pools \ {t} : held'[x] = held[x]
    BY <1>2, <2>2, <2>3
  <2>5. held'[t] >= pools[t].total_bond_amount + a + pools[t].total_pending_withdraw
    BY <1>2, <2>1, <2>4
  <2>6. QED BY <1>3, <2>1, <2>2, <2>4, <2>5
<1>5. ASSUME NEW u \in Users, NEW t \in DOMAIN pools, auto_stake_hook(u, t)
      PROVE  Queue!Next
  <2>1. PICK a : a = held[t] - pools[t].total_bond_amount - pools[t].total_pending_withdraw
    OBVIOUS
  <2>2. Bonded(u, t, a) /\ held' = held
    BY <1>5, <2>1 DEF auto_stake_hook
  <2>3. a \in Nat /\ held[t] >= pools[t].total_bond_amount + a + pools[t].total_pending_withdraw
    BY <1>2, <2>1
  <2>4. held' \in [Tokens -> Nat] /\ \A x \in DOMAIN pools \ {t} : held'[x] = held[x]
    BY <1>1, <2>2 DEF ConfigType
  <2>5. QED BY <1>3, <2>2, <2>3, <2>4
<1>6. ASSUME NEW u \in Users, NEW t \in DOMAIN pools, NEW a \in UnbondAmounts, unbond(u, t, a)
      PROVE  Queue!Next
  BY <1>6, UnbondQueues, LpAssumption
<1>7. ASSUME NEW u \in Users, NEW t \in DOMAIN pools, unbond(u, t, Record(u, t).bond_amount)
      PROVE  Queue!Next
  <2>1. PICK a \in Nat : a = Record(u, t).bond_amount
    BY <1>1, RecordIs DEF RewardInfo
  <2>2. unbond(u, t, a)
    BY <1>7, <2>1 DEF unbond
  <2>3. QED BY <2>2, UnbondQueues
<1>8. ASSUME NEW u \in Users, NEW t \in DOMAIN pools, claim_unbonded(u, t)
      PROVE  Queue!Next
  BY <1>8, ClaimUnbondedQueues
<1>9. ASSUME NEW u \in Users, NEW t \in DOMAIN pools, claim_rewards(u, {t})
      PROVE  Queue!Next
  <2>1. PICK S \in SUBSET DOMAIN pools : S = {t}
    OBVIOUS
  <2>2. claim_rewards(u, S)
    BY <1>9, <2>1 DEF claim_rewards
  <2>3. QED BY <2>2, ClaimRewardsQueues
<1>10. ASSUME NEW u \in Users, claim_rewards(u, StakedBy(u))
       PROVE  Queue!Next
  <2>1. StakedBy(u) \subseteq DOMAIN pools
    BY <1>1 DEF StakedBy, TypeOK
  <2>2. PICK S \in SUBSET DOMAIN pools : S = StakedBy(u)
    BY <2>1
  <2>3. claim_rewards(u, S)
    BY <1>10, <2>2 DEF claim_rewards
  <2>4. QED BY <2>3, ClaimRewardsQueues
<1>11. CASE \/ \E s, o \in Owners : update_owner(s, o)
            \/ \E o \in Owners, s \in Schedules : add_distribution_schedule(o, s)
            \/ \E t \in Tokens, a \in GiftAmounts : LpArrives(t, a)
            \/ EndBlock
            \/ UNCHANGED vars
  BY <1>11, PoolsStayIdles DEF update_owner, add_distribution_schedule, LpArrives, EndBlock, vars
<1>12. ASSUME NEW o \in Owners, NEW t \in Tokens, NEW p \in Periods, NEW w \in Weights,
              register_staking_token(o, t, p, w)
       PROVE  Queue!Next
  BY <1>12, RegisterStays, StakesStayIdles, LpAssumption
<1>13. ASSUME NEW o \in Owners, NEW t \in DOMAIN pools, NEW w \in Weights, update_weight(o, t, w)
       PROVE  Queue!Next
  BY <1>13, UpdateWeightStays, StakesStayIdles, LpAssumption
<1>14. ASSUME NEW o \in Owners, NEW t \in DOMAIN pools, NEW p \in Periods,
              update_unbond_period(o, t, p)
       PROVE  Queue!Next
  BY <1>14, UpdatePeriodStays, StakesStayIdles, LpAssumption
<1>15. QED BY <1>4, <1>5, <1>6, <1>7, <1>8, <1>9, <1>10, <1>11, <1>12, <1>13, <1>14 DEF Next

\* The unbond orders of a token, whichever, are a redemption queue: an order keeps its
\* amount, leaves once, expired and after the staker's older ones, and is paid in full by
\* claim_unbonded, though bonding, unbonding and claiming rewards pull orders as well, some
\* at a time, and the owner may change the period under them.
THEOREM UnbondingImplementsQueue == Spec => ImplementsQueue
<1>1. LpInv /\ LpInv' /\ [Next]_vars => [Queue!Next]_(Queue!queue)
  BY QueueStep
<1>2. QED BY <1>1, QueueInit, InvAlways, PTL DEF Spec, ImplementsQueue, Queue!Spec

-----------------------------------------------------------------------------
(***************************************************************************)
(* What a staker can claim at an instant is fixed at that instant: a pool  *)
(* that was brought up to now gains nothing when it is computed again, so  *)
(* the calls of one instant, in whatever order, agree about the index.     *)
(***************************************************************************)
LEMMA NothingNow ==
  ASSUME ConfigType, NEW p \in PoolInfo, p.last_distributed = now, NEW n \in Nat \ {0},
         NEW s \in Schedule, ValidSchedule(s), Applies(s, p)
  PROVE  DistributedBy(s, p, n) = 0
<1>1. s.start \in Nat /\ s.end \in Nat /\ s.amount \in Nat /\ s.start < s.end
  BY DEF Schedule, ValidSchedule
<1>2. p.weight \in Nat /\ now \in Nat
  BY DEF PoolInfo, ConfigType
<1>3. smaller(s.end, now) - later(s.start, p.last_distributed) = 0
  BY <1>1, <1>2 DEF smaller, later, Applies
<1>4. PICK r \in Nat : r = from_ratio(p.weight, n)
  BY <1>2, RatioNat
<1>5. PICK m \in Nat : m = mul(s.amount, r)
  BY <1>1, MulNat
<1>6. PICK d \in Nat \ {0} : d = s.end - s.start
  BY <1>1
<1>7. PICK q \in Nat : q = from_ratio(m, d)
  BY RatioNat
<1>8. mul(0, q) = 0
  BY OnePos DEF mul
<1>9. QED BY <1>3, <1>4, <1>5, <1>6, <1>7, <1>8 DEF DistributedBy

LEMMA NothingMore ==
  ASSUME ConfigType, NEW p \in PoolInfo, p.last_distributed = now,
         NEW n \in Nat, Computable(p, n)
  PROVE  distributed_amount(p, n) = 0
<1>1. PICK D : D = DOMAIN distribution_schedule
  OBVIOUS
<1>2. IsFiniteSet(D)
  <2>1. distribution_schedule \in Seq(Schedule)
    BY DEF ConfigType
  <2>2. D = 1..Len(distribution_schedule) /\ Len(distribution_schedule) \in Nat
    BY <1>1, <2>1
  <2>3. QED BY <2>2, FS_Interval
<1>3. PICK f : f = [i \in D |-> IF Applies(distribution_schedule[i], p)
                                THEN DistributedBy(distribution_schedule[i], p, n) ELSE 0]
  OBVIOUS
<1>4. ASSUME NEW i \in D PROVE f[i] = 0
  <2>1. distribution_schedule[i] \in Schedule /\ ValidSchedule(distribution_schedule[i])
    BY <1>1 DEF ConfigType
  <2>2. CASE Applies(distribution_schedule[i], p)
    <3>1. n \in Nat \ {0}
      BY <1>1, <2>2 DEF Computable
    <3>2. QED BY <1>3, <2>1, <2>2, <3>1, NothingNow
  <2>3. QED BY <1>3, <2>2
<1>5. SumFunctionOnSet(f, D) = 0
  BY <1>2, <1>4, SumZero
<1>6. QED BY <1>1, <1>3, <1>5 DEF distributed_amount

Weighted == total_weight > 0

\* A pool with bonds keeps no pending reward when it is computed; one that is up to now and
\* has no bonds, or nothing pending, keeps its index.
UpFact ==
  \A t \in DOMAIN pools :
    /\ Brought(pools[t], Up(t))
    /\ pools[t].total_bond_amount > 0 => Up(t).pending_reward = 0
    /\ pools[t].last_distributed = now
       /\ (pools[t].total_bond_amount = 0 \/ pools[t].pending_reward = 0)
       => Up(t).reward_index = pools[t].reward_index

LEMMA UpFacts == LpInv /\ total_weight > 0 => UpFact
<1> SUFFICES ASSUME LpInv, total_weight > 0, NEW t \in DOMAIN pools
             PROVE  /\ Brought(pools[t], Up(t))
                    /\ pools[t].total_bond_amount > 0 => Up(t).pending_reward = 0
                    /\ pools[t].last_distributed = now
                       /\ (pools[t].total_bond_amount = 0 \/ pools[t].pending_reward = 0)
                       => Up(t).reward_index = pools[t].reward_index
  BY DEF UpFact
<1>1. TypeOK /\ ConfigType /\ PoolsType
  BY TypeParts DEF LpInv
<1>2. PICK p \in PoolInfo : p = pools[t] /\ p.last_distributed <= now
  BY <1>1 DEF PoolsType
<1>3. Computable(p, total_weight) /\ total_weight \in Nat
  BY <1>1 DEF Computable, ConfigType
<1>4. PICK d \in Nat : d = distributed_amount(p, total_weight)
  BY <1>1, <1>2, <1>3, DistributedAmountNat
<1>5. Up(t) = compute_pool_reward(p, total_weight)
  BY <1>2 DEF Up
<1>6. Brought(pools[t], Up(t))
  BY <1>1, <1>2, <1>3, <1>5, ComputedIsBrought
<1>7. p.total_bond_amount \in Nat /\ p.pending_reward \in Nat /\ p.reward_index \in Nat
  BY DEF PoolInfo
<1>8. ASSUME p.total_bond_amount = 0 PROVE Up(t).reward_index = p.reward_index
  <2>1. Up(t) = [p EXCEPT !.last_distributed = now, !.pending_reward = p.pending_reward + d]
    BY <1>4, <1>5, <1>8 DEF compute_pool_reward
  <2>2. QED BY <2>1 DEF PoolInfo
<1>9. ASSUME p.total_bond_amount # 0
      PROVE  /\ Up(t).pending_reward = 0
             /\ Up(t).reward_index = p.reward_index + from_ratio(p.pending_reward + d, p.total_bond_amount)
  <2>1. PICK r : r = from_ratio(p.pending_reward + d, p.total_bond_amount)
    OBVIOUS
  <2>2. Up(t) = [p EXCEPT !.last_distributed = now, !.pending_reward = 0, !.reward_index = @ + r]
    BY <1>4, <1>5, <1>9, <2>1 DEF compute_pool_reward
  <2>3. QED BY <2>1, <2>2 DEF PoolInfo
<1>10. ASSUME p.total_bond_amount # 0, p.last_distributed = now, p.pending_reward = 0
       PROVE  Up(t).reward_index = p.reward_index
  <2>1. d = 0
    BY <1>1, <1>3, <1>4, <1>10, NothingMore
  <2>2. from_ratio(0, p.total_bond_amount) = 0
    BY <1>7, <1>10, OnePos DEF from_ratio
  <2>3. p.pending_reward + d = 0
    BY <1>10, <2>1
  <2>4. QED BY <1>7, <1>9, <1>10, <2>2, <2>3
<1>11. QED BY <1>2, <1>6, <1>7, <1>8, <1>9, <1>10

LEMMA UpFactsNext == LpInv' /\ Weighted' => UpFact'
<1>1. LpInv /\ Weighted => UpFact
  BY UpFacts DEF Weighted
<1>2. QED BY <1>1, PTL

\* What a staker can claim, in full.
ClaimFact ==
  \A u \in Users, t \in DOMAIN pools :
    /\ Record(u, t) \in RewardInfo
    /\ Record(u, t).reward_index <= Up(t).reward_index
    /\ Claimable(u, t) = Record(u, t).pending_reward
                           + (mul(Record(u, t).bond_amount, Up(t).reward_index)
                                - mul(Record(u, t).bond_amount, Record(u, t).reward_index))
    /\ Earned(u, t).pending_reward = Claimable(u, t)

LEMMA ClaimFacts == LpInv /\ total_weight > 0 => ClaimFact
<1> SUFFICES ASSUME LpInv, total_weight > 0, NEW u \in Users, NEW t \in DOMAIN pools
             PROVE  /\ Record(u, t) \in RewardInfo
                    /\ Record(u, t).reward_index <= Up(t).reward_index
                    /\ Claimable(u, t) = Record(u, t).pending_reward
                         + (mul(Record(u, t).bond_amount, Up(t).reward_index)
                              - mul(Record(u, t).bond_amount, Record(u, t).reward_index))
                    /\ Earned(u, t).pending_reward = Claimable(u, t)
  BY DEF ClaimFact
<1>1. TypeOK
  BY DEF LpInv
<1>2. PICK r \in RewardInfo : r = Record(u, t) /\ r.reward_index <= pools[t].reward_index
  BY <1>1, RecordIs
<1>3. PICK q : q = Up(t)
  OBVIOUS
<1>4. Brought(pools[t], q)
  BY <1>3, UpFacts DEF UpFact
<1>5. r.reward_index <= q.reward_index
  <2>1. r.reward_index \in Nat /\ pools[t].reward_index \in Nat /\ q.reward_index \in Nat
        /\ pools[t].reward_index <= q.reward_index
    BY <1>1, <1>4 DEF Brought, TypeOK, PoolInfo, RewardInfo
  <2>2. QED BY <1>2, <2>1
<1>6. ASSUME NEW i \in RewardInfo
      PROVE  compute_staker_reward(q, i).pending_reward
               = i.pending_reward + (mul(i.bond_amount, q.reward_index)
                                       - mul(i.bond_amount, i.reward_index))
  BY DEF compute_staker_reward, RewardInfo
<1>7. Claimable(u, t) = compute_staker_reward(q, r).pending_reward
  BY <1>2, <1>3 DEF Claimable, Up
<1>8. PICK i \in RewardInfo : /\ i = Pulled(u, t) /\ i.pending_reward = r.pending_reward
                              /\ i.bond_amount = r.bond_amount /\ i.reward_index = r.reward_index
  <2>1. Pulled(u, t) \in RewardInfo
    BY <1>1, PulledIs
  <2>2. /\ Pulled(u, t).pending_reward = r.pending_reward
        /\ Pulled(u, t).bond_amount = r.bond_amount /\ Pulled(u, t).reward_index = r.reward_index
    BY <1>1, <1>2, PulledIs
  <2>3. QED BY <2>1, <2>2
<1>9. Earned(u, t).pending_reward = compute_staker_reward(q, i).pending_reward
  BY <1>3, <1>8 DEF Earned
<1>10. compute_staker_reward(q, i).pending_reward = compute_staker_reward(q, r).pending_reward
  BY <1>6, <1>8
<1>11. QED BY <1>2, <1>3, <1>5, <1>6, <1>7, <1>9, <1>10

LEMMA ClaimFactsNext == LpInv' /\ Weighted' => ClaimFact'
<1>1. LpInv /\ Weighted => ClaimFact
  BY ClaimFacts DEF Weighted
<1>2. QED BY <1>1, PTL

\* The index a pool has at this instant, after a step that has brought it up to now and
\* may have changed its bonds: only rewards that waited for a bond can raise it.
Reached(t) ==
  /\ pools'[t].reward_index = Up(t).reward_index /\ pools'[t].pending_reward = Up(t).pending_reward
  /\ pools'[t].last_distributed = now
IndexHolds(t) ==
  /\ Up(t)'.reward_index \in Nat /\ Up(t).reward_index \in Nat
  /\ Up(t).reward_index <= Up(t)'.reward_index
  /\ pools[t].total_bond_amount > 0 => Up(t)'.reward_index = Up(t).reward_index

LEMMA IndexAfter ==
  ASSUME LpInv, LpInv', total_weight > 0, Weighted', now' = now,
         NEW t \in DOMAIN pools, t \in DOMAIN pools', Reached(t)
  PROVE  /\ IndexHolds(t)
         /\ pools'[t].total_bond_amount = pools[t].total_bond_amount =>
              Up(t)'.reward_index = Up(t).reward_index
<1>1. /\ Brought(pools[t], Up(t))
      /\ pools[t].total_bond_amount > 0 => Up(t).pending_reward = 0
  BY UpFacts DEF UpFact
<1>2. /\ Up(t)' \in PoolInfo /\ pools'[t].reward_index <= Up(t)'.reward_index
      /\ pools'[t].last_distributed = now
         /\ (pools'[t].total_bond_amount = 0 \/ pools'[t].pending_reward = 0)
         => Up(t)'.reward_index = pools'[t].reward_index
  BY UpFactsNext DEF UpFact, Brought
<1>3. Up(t)'.reward_index \in Nat /\ Up(t).reward_index \in Nat
  BY <1>1, <1>2 DEF Brought, PoolInfo
<1>4. Up(t).reward_index <= Up(t)'.reward_index
  BY <1>2 DEF Reached
<1>5. ASSUME pools[t].total_bond_amount > 0 PROVE Up(t)'.reward_index = Up(t).reward_index
  BY <1>1, <1>2, <1>5 DEF Reached
<1>6. ASSUME pools'[t].total_bond_amount = pools[t].total_bond_amount
      PROVE  Up(t)'.reward_index = Up(t).reward_index
  <2>1. pools[t].total_bond_amount \in Nat
    BY DEF LpInv, TypeOK, PoolInfo
  <2>2. CASE pools[t].total_bond_amount = 0
    BY <1>2, <1>6, <2>2 DEF Reached
  <2>3. CASE pools[t].total_bond_amount > 0
    BY <1>5, <2>3
  <2>4. QED BY <2>1, <2>2, <2>3
<1>7. QED BY <1>3, <1>4, <1>5, <1>6 DEF IndexHolds

\* A pool that no step of this instant has touched where it matters.
LEMMA IndexStays ==
  ASSUME LpInv, total_weight > 0, UNCHANGED <<now, total_weight, distribution_schedule>>,
         NEW t \in DOMAIN pools, t \in DOMAIN pools',
         pools'[t].last_distributed = pools[t].last_distributed, pools'[t].weight = pools[t].weight,
         pools'[t].total_bond_amount = pools[t].total_bond_amount,
         pools'[t].pending_reward = pools[t].pending_reward,
         pools'[t].reward_index = pools[t].reward_index, pools'[t] \in PoolInfo
  PROVE  IndexHolds(t) /\ Up(t)'.reward_index = Up(t).reward_index
<1>1. PICK p \in PoolInfo : p = pools[t]
  BY DEF LpInv, TypeOK
<1>2. PICK q \in PoolInfo : q = pools'[t]
  OBVIOUS
<1>3. /\ q.last_distributed = p.last_distributed /\ q.weight = p.weight
      /\ q.total_bond_amount = p.total_bond_amount /\ q.pending_reward = p.pending_reward
      /\ q.reward_index = p.reward_index
  BY <1>1, <1>2
<1>4. \A s : Applies(s, q) = Applies(s, p) /\ DistributedBy(s, q, total_weight) = DistributedBy(s, p, total_weight)
  BY <1>3 DEF Applies, DistributedBy
<1>5. distributed_amount(q, total_weight) = distributed_amount(p, total_weight)
  BY <1>4 DEF distributed_amount
<1>6. compute_pool_reward(q, total_weight).reward_index = compute_pool_reward(p, total_weight).reward_index
  BY <1>3, <1>5 DEF compute_pool_reward, PoolInfo
<1>7. Up(t)' = compute_pool_reward(q, total_weight)
  BY <1>2 DEF Up, compute_pool_reward, distributed_amount, Applies, DistributedBy
<1>8. Up(t).reward_index \in Nat
  BY UpFacts DEF UpFact, Brought, PoolInfo
<1>9. QED BY <1>1, <1>6, <1>7, <1>8 DEF IndexHolds, Up

\* What one of three treatments of a record makes of the claim: it stays as it is, it is
\* settled, or it is settled and paid.
ClaimHolds(u, t) ==
  /\ pools[t].total_bond_amount > 0 => Claimable(u, t)' \in {Claimable(u, t), 0}
  /\ Claimable(u, t)' < Claimable(u, t) => prism' < prism

LEMMA RecordStays ==
  ASSUME LpInv, LpInv', total_weight > 0, Weighted',
         NEW u \in Users, NEW t \in DOMAIN pools, t \in DOMAIN pools', IndexHolds(t),
         Record(u, t)'.bond_amount = Record(u, t).bond_amount,
         Record(u, t)'.reward_index = Record(u, t).reward_index,
         Record(u, t)'.pending_reward = Record(u, t).pending_reward
  PROVE  ClaimHolds(u, t)
<1>1. /\ Record(u, t) \in RewardInfo
      /\ Record(u, t).reward_index <= Up(t).reward_index
      /\ Claimable(u, t) = Record(u, t).pending_reward
                             + (mul(Record(u, t).bond_amount, Up(t).reward_index)
                                  - mul(Record(u, t).bond_amount, Record(u, t).reward_index))
  BY ClaimFacts DEF ClaimFact
<1>2. Claimable(u, t)' = Record(u, t)'.pending_reward
                           + (mul(Record(u, t)'.bond_amount, Up(t)'.reward_index)
                                - mul(Record(u, t)'.bond_amount, Record(u, t)'.reward_index))
  BY ClaimFactsNext DEF ClaimFact, mul
<1>3. PICK b \in Nat, r \in Nat, n \in Nat :
        b = Record(u, t).bond_amount /\ r = Record(u, t).reward_index /\ n = Record(u, t).pending_reward
  <2>1. Record(u, t).bond_amount \in Nat /\ Record(u, t).reward_index \in Nat
        /\ Record(u, t).pending_reward \in Nat
    BY <1>1 DEF RewardInfo
  <2>2. QED BY ONLY <2>1, Zenon
<1>4. PICK i \in Nat, j \in Nat : i = Up(t).reward_index /\ j = Up(t)'.reward_index
  BY DEF IndexHolds
<1>5. i <= j /\ b <= b /\ (pools[t].total_bond_amount > 0 => j = i)
  BY <1>4 DEF IndexHolds
<1>6. mul(b, i) \in Nat /\ mul(b, j) \in Nat /\ mul(b, r) \in Nat /\ mul(b, i) <= mul(b, j)
  BY ONLY <1>5, MulNat, MulGrows, b \in Nat, i \in Nat, j \in Nat, r \in Nat
<1>7. Claimable(u, t) = n + (mul(b, i) - mul(b, r))
  BY <1>1, <1>3, <1>4
<1>8. Claimable(u, t)' = n + (mul(b, j) - mul(b, r))
  BY <1>2, <1>3, <1>4
<1>9. Claimable(u, t) <= Claimable(u, t)' /\ ~ (Claimable(u, t)' < Claimable(u, t))
  BY <1>6, <1>7, <1>8
<1>10. pools[t].total_bond_amount > 0 => Claimable(u, t)' = Claimable(u, t)
  BY <1>5, <1>7, <1>8
<1>11. QED BY <1>9, <1>10 DEF ClaimHolds

LEMMA RecordSettled ==
  ASSUME LpInv, LpInv', total_weight > 0, Weighted',
         NEW u \in Users, NEW t \in DOMAIN pools, t \in DOMAIN pools', IndexHolds(t),
         \/ /\ Record(u, t)'.reward_index = Up(t).reward_index
            /\ Record(u, t)'.pending_reward = Claimable(u, t)
         \/ Record(u, t)' = DefaultRewardInfo /\ Claimable(u, t) = 0
  PROVE  ClaimHolds(u, t)
<1>1. /\ Record(u, t)' \in RewardInfo
      /\ Claimable(u, t)' = Record(u, t)'.pending_reward
                              + (mul(Record(u, t)'.bond_amount, Up(t)'.reward_index)
                                   - mul(Record(u, t)'.bond_amount, Record(u, t)'.reward_index))
  BY ClaimFactsNext DEF ClaimFact, mul, RewardInfo
<1>2. PICK i \in Nat, j \in Nat : i = Up(t).reward_index /\ j = Up(t)'.reward_index
  BY DEF IndexHolds
<1>3. PICK b \in Nat : b = Record(u, t)'.bond_amount
  BY <1>1 DEF RewardInfo
<1>4. i <= j /\ b <= b /\ (pools[t].total_bond_amount > 0 => j = i)
  BY <1>2 DEF IndexHolds
<1>5. mul(b, i) \in Nat /\ mul(b, j) \in Nat /\ mul(b, i) <= mul(b, j)
  BY ONLY <1>4, MulNat, MulGrows, b \in Nat, i \in Nat, j \in Nat
<1>6. CASE Record(u, t)'.reward_index = Up(t).reward_index
           /\ Record(u, t)'.pending_reward = Claimable(u, t)
  <2>1. PICK n \in Nat : n = Claimable(u, t)
    BY <1>1, <1>6 DEF RewardInfo
  <2>2. Claimable(u, t)' = n + (mul(b, j) - mul(b, i))
    BY <1>1, <1>2, <1>3, <1>6, <2>1
  <2>3. ~ (Claimable(u, t)' < Claimable(u, t))
    BY <1>5, <2>1, <2>2
  <2>4. pools[t].total_bond_amount > 0 => Claimable(u, t)' = Claimable(u, t)
    BY <1>4, <1>5, <2>1, <2>2
  <2>5. QED BY <2>3, <2>4 DEF ClaimHolds
<1>7. CASE Record(u, t)' = DefaultRewardInfo /\ Claimable(u, t) = 0
  <2>1. Record(u, t)'.pending_reward = 0 /\ Record(u, t)'.bond_amount = 0
        /\ Record(u, t)'.reward_index = 0
    BY <1>7 DEF DefaultRewardInfo
  <2>2. mul(0, j) = 0 /\ mul(0, 0) = 0
    BY OnePos DEF mul
  <2>3. Claimable(u, t)' = 0
    BY <1>1, <1>2, <2>1, <2>2
  <2>4. QED BY <1>7, <2>3 DEF ClaimHolds
<1>8. QED BY <1>6, <1>7

LEMMA RecordPaid ==
  ASSUME LpInv, LpInv', total_weight > 0, Weighted',
         NEW u \in Users, NEW t \in DOMAIN pools, t \in DOMAIN pools', IndexHolds(t),
         Up(t)'.reward_index = Up(t).reward_index,
         \/ /\ Record(u, t)'.reward_index = Up(t).reward_index
            /\ Record(u, t)'.pending_reward = 0
         \/ Record(u, t)' = DefaultRewardInfo,
         Claimable(u, t) > 0 => prism' < prism
  PROVE  ClaimHolds(u, t)
<1>1. /\ Record(u, t)' \in RewardInfo
      /\ Claimable(u, t)' = Record(u, t)'.pending_reward
                              + (mul(Record(u, t)'.bond_amount, Up(t)'.reward_index)
                                   - mul(Record(u, t)'.bond_amount, Record(u, t)'.reward_index))
  BY ClaimFactsNext DEF ClaimFact, mul, RewardInfo
<1>2. PICK i \in Nat : i = Up(t).reward_index /\ i = Up(t)'.reward_index
  BY DEF IndexHolds
<1>3. PICK b \in Nat : b = Record(u, t)'.bond_amount
  BY <1>1 DEF RewardInfo
<1>4. mul(b, i) \in Nat
  BY ONLY MulNat, b \in Nat, i \in Nat
<1>5. Claimable(u, t)' = 0
  <2>1. CASE Record(u, t)'.reward_index = Up(t).reward_index /\ Record(u, t)'.pending_reward = 0
    BY <1>1, <1>2, <1>3, <1>4, <2>1
  <2>2. CASE Record(u, t)' = DefaultRewardInfo
    <3>1. Record(u, t)'.pending_reward = 0 /\ Record(u, t)'.bond_amount = 0
          /\ Record(u, t)'.reward_index = 0
      BY <2>2 DEF DefaultRewardInfo
    <3>2. mul(0, i) = 0 /\ mul(0, 0) = 0
      BY OnePos DEF mul
    <3>3. QED BY <1>1, <1>2, <3>1, <3>2
  <2>3. QED BY <2>1, <2>2
<1>6. QED BY <1>5 DEF ClaimHolds

LEMMA RecordOrNone ==
  ASSUME NEW u, NEW S, NEW info, RecordsMoved(u, S, info), NEW t \in S
  PROVE  \/ Record(u, t)' = info[t]
         \/ Record(u, t)' = DefaultRewardInfo /\ Emptied(info[t])
<1>1. CASE <<u, t>> \in DOMAIN reward_info'
  <2>1. reward_info'[<<u, t>>] = info[t]
    BY <1>1 DEF RecordsMoved
  <2>2. QED BY <1>1, <2>1 DEF Record
<1>2. CASE <<u, t>> \notin DOMAIN reward_info'
  BY <1>2 DEF Record, RecordsMoved
<1>3. QED BY <1>1, <1>2

\* A call that settles a record, of one pool.
LEMMA SettlingHolds ==
  ASSUME LpInv, LpInv', total_weight > 0, Weighted', NEW u \in Users, NEW t \in DOMAIN pools,
         NEW i \in RewardInfo, NEW p \in PoolInfo, OneCall(u, t, i, p), Settled(u, t, i, p),
         i.pending_reward = Earned(u, t).pending_reward
  PROVE  \A x \in Users, y \in DOMAIN pools : ClaimHolds(x, y)
<1>1. RecordsMoved(u, {t}, [z \in {t} |-> i]) /\ pools' = [pools EXCEPT ![t] = p]
      /\ UNCHANGED <<now, total_weight, distribution_schedule>>
  BY DEF OneCall, configVars
<1>2. PICK info : info = [z \in {t} |-> i]
  OBVIOUS
<1>3. DOMAIN pools' = DOMAIN pools /\ pools'[t] = p /\ \A y \in DOMAIN pools \ {t} : pools'[y] = pools[y]
  BY <1>1
<1>4. \A x, y : ~(x = u /\ y \in {t}) => Record(x, y)' = Record(x, y)
  BY <1>1, <1>2, RecordsAfter
<1>5. Record(u, t)' = i \/ (Record(u, t)' = DefaultRewardInfo /\ Emptied(i))
  <2>1. info[t] = i /\ t \in {t}
    BY <1>2
  <2>2. QED BY <1>1, <1>2, <2>1, RecordOrNone
<1>6. Reached(t)
  BY <1>3 DEF Settled, Reached
<1>7. IndexHolds(t)
  BY <1>1, <1>3, <1>6, IndexAfter
<1>8. Earned(u, t).pending_reward = Claimable(u, t)
  BY ClaimFacts DEF ClaimFact
<1>9. ASSUME NEW x \in Users, NEW y \in DOMAIN pools PROVE ClaimHolds(x, y)
  <2>1. CASE y # t
    <3>1. pools'[y] = pools[y] /\ pools[y] \in PoolInfo
      BY <1>3, <2>1 DEF LpInv, TypeOK
    <3>2. IndexHolds(y)
      BY <1>1, <1>3, <3>1, IndexStays
    <3>3. Record(x, y)' = Record(x, y)
      BY <1>4, <2>1
    <3>4. QED BY <1>3, <3>2, <3>3, RecordStays
  <2>2. CASE y = t /\ x # u
    <3>1. Record(x, t)' = Record(x, t)
      BY <1>4, <2>2
    <3>2. ClaimHolds(x, t)
      BY <1>3, <1>7, <3>1, RecordStays
    <3>3. QED BY <2>2, <3>2
  <2>3. CASE y = t /\ x = u
    <3>1. \/ /\ Record(u, t)'.reward_index = Up(t).reward_index
             /\ Record(u, t)'.pending_reward = Claimable(u, t)
          \/ Record(u, t)' = DefaultRewardInfo /\ Claimable(u, t) = 0
      BY <1>5, <1>8 DEF Settled, Emptied
    <3>2. ClaimHolds(u, t)
      BY <1>3, <1>7, <3>1, RecordSettled
    <3>3. QED BY <2>3, <3>2
  <2>4. QED BY <2>1, <2>2, <2>3
<1>10. QED BY <1>9

LEMMA ClaimUnbondedHolds ==
  ASSUME LpInv, LpInv', total_weight > 0, Weighted', NEW u \in Users, NEW t \in DOMAIN pools,
         claim_unbonded(u, t)
  PROVE  \A x \in Users, y \in DOMAIN pools : ClaimHolds(x, y)
<1>1. PICK i \in RewardInfo, p \in PoolInfo, a \in Nat :
           /\ OneCall(u, t, i, p)
           /\ 0 < a /\ a = Record(u, t).withdrawable_amount + withdrawable_amount(u, t)
           /\ i = [Record(u, t) EXCEPT !.withdrawable_amount = 0]
           /\ p = [pools[t] EXCEPT !.total_pending_withdraw = pools[t].total_pending_withdraw - a]
           /\ unbond_orders' = Remaining(u, {t})
           /\ held'[t] = held[t] - a /\ prism' = prism
  BY ClaimUnbondedMoves, Zenon
<1>2. RecordsMoved(u, {t}, [z \in {t} |-> i]) /\ pools' = [pools EXCEPT ![t] = p]
      /\ UNCHANGED <<now, total_weight, distribution_schedule>>
  BY <1>1 DEF OneCall, configVars
<1>3. PICK info : info = [z \in {t} |-> i]
  OBVIOUS
<1>4. DOMAIN pools' = DOMAIN pools /\ pools'[t] = p /\ \A y \in DOMAIN pools \ {t} : pools'[y] = pools[y]
  BY <1>2
<1>5. \A x, y : ~(x = u /\ y \in {t}) => Record(x, y)' = Record(x, y)
  BY <1>2, <1>3, RecordsAfter
<1>6. Record(u, t)' = i \/ (Record(u, t)' = DefaultRewardInfo /\ Emptied(i))
  <2>1. info[t] = i /\ t \in {t}
    BY <1>3
  <2>2. QED BY <1>2, <1>3, <2>1, RecordOrNone
<1>7. TypeOK
  BY DEF LpInv
<1>8. PICK q \in PoolInfo : q = pools[t]
  BY <1>7 DEF TypeOK
<1>9. p = [q EXCEPT !.total_pending_withdraw = q.total_pending_withdraw - a]
  BY <1>1, <1>8
<1>10. /\ p.last_distributed = q.last_distributed /\ p.weight = q.weight
       /\ p.total_bond_amount = q.total_bond_amount /\ p.pending_reward = q.pending_reward
       /\ p.reward_index = q.reward_index
  BY <1>9 DEF PoolInfo
<1>11. IndexHolds(t)
  <2>1. pools'[t] \in PoolInfo /\ t \in DOMAIN pools'
    BY <1>4
  <2>2. QED BY <1>2, <1>4, <1>8, <1>10, <2>1, IndexStays
<1>12. PICK r \in RewardInfo : r = Record(u, t)
  BY <1>7, RecordIs
<1>13. i.bond_amount = r.bond_amount /\ i.reward_index = r.reward_index
       /\ i.pending_reward = r.pending_reward
  <2>1. i = [r EXCEPT !.withdrawable_amount = 0]
    BY <1>1, <1>12
  <2>2. QED BY <2>1 DEF RewardInfo
<1>14. ASSUME NEW x \in Users, NEW y \in DOMAIN pools PROVE ClaimHolds(x, y)
  <2>1. CASE y # t
    <3>1. pools'[y] = pools[y] /\ pools[y] \in PoolInfo
      BY <1>4, <1>7, <2>1 DEF TypeOK
    <3>2. IndexHolds(y)
      BY <1>2, <1>4, <3>1, IndexStays
    <3>3. Record(x, y)' = Record(x, y)
      BY <1>5, <2>1
    <3>4. QED BY <1>4, <3>2, <3>3, RecordStays
  <2>2. CASE y = t /\ x # u
    <3>1. Record(x, t)' = Record(x, t)
      BY <1>5, <2>2
    <3>2. ClaimHolds(x, t)
      BY <1>4, <1>11, <3>1, RecordStays
    <3>3. QED BY <2>2, <3>2
  <2>3. CASE y = t /\ x = u
    <3>1. CASE Record(u, t)' = i
      <4>1. ClaimHolds(u, t)
        BY <1>4, <1>11, <1>12, <1>13, <3>1, RecordStays
      <4>2. QED BY <2>3, <4>1
    <3>2. CASE Record(u, t)' = DefaultRewardInfo /\ Emptied(i)
      <4>1. r.bond_amount = 0 /\ r.pending_reward = 0
        BY <1>13, <3>2 DEF Emptied
      <4>2. Claimable(u, t) = 0 + (mul(0, Up(t).reward_index) - mul(0, r.reward_index))
        BY <1>12, <4>1, ClaimFacts DEF ClaimFact
      <4>3. Up(t).reward_index \in Nat /\ r.reward_index \in Nat
        BY <1>11 DEF IndexHolds, RewardInfo
      <4>4. \A n \in Nat : mul(0, n) = 0
        BY OnePos DEF mul
      <4>5. Claimable(u, t) = 0
        BY <4>2, <4>3, <4>4
      <4>6. ClaimHolds(u, t)
        BY <1>4, <1>11, <3>2, <4>5, RecordSettled
      <4>7. QED BY <2>3, <4>6
    <3>3. QED BY <1>6, <3>1, <3>2
  <2>4. QED BY <2>1, <2>2, <2>3
<1>15. QED BY <1>14

LEMMA ClaimRewardsHolds ==
  ASSUME LpInv, LpInv', total_weight > 0, Weighted', NEW u \in Users,
         NEW S \in SUBSET DOMAIN pools, claim_rewards(u, S)
  PROVE  \A x \in Users, y \in DOMAIN pools : ClaimHolds(x, y)
<1>1. PICK info :
           /\ UserCall(u, S, info)
           /\ \A t \in S : Settled(u, t, info[t], pools'[t]) /\ info[t].pending_reward = 0
           /\ \A t \in DOMAIN pools \ S : pools'[t] = pools[t]
           /\ \A t \in S : Earned(u, t).pending_reward > 0 => prism' < prism
  BY ClaimRewardsMoves
<1>2. RecordsMoved(u, S, info) /\ DOMAIN pools' = DOMAIN pools
      /\ UNCHANGED <<now, total_weight, distribution_schedule>>
  BY <1>1 DEF UserCall, UserMoves, configVars
<1>3. ASSUME NEW t \in S
      PROVE  Reached(t) /\ pools'[t].total_bond_amount = pools[t].total_bond_amount
  <2>1. pools'[t] = Up(t)
    BY DEF claim_rewards, Up
  <2>2. Brought(pools[t], Up(t))
    BY UpFacts DEF UpFact
  <2>3. QED BY <2>1, <2>2 DEF Reached, Brought
<1>4. \A x, y : ~(x = u /\ y \in S) => Record(x, y)' = Record(x, y)
  BY <1>2, RecordsAfter
<1>5. ASSUME NEW x \in Users, NEW y \in DOMAIN pools PROVE ClaimHolds(x, y)
  <2>1. CASE y \notin S
    <3>1. pools'[y] = pools[y] /\ pools[y] \in PoolInfo
      BY <1>1, <2>1 DEF LpInv, TypeOK
    <3>2. IndexHolds(y)
      BY <1>2, <3>1, IndexStays
    <3>3. Record(x, y)' = Record(x, y)
      BY <1>4, <2>1
    <3>4. QED BY <1>2, <3>2, <3>3, RecordStays
  <2>2. CASE y \in S
    <3>1. IndexHolds(y) /\ Up(y)'.reward_index = Up(y).reward_index
      BY <1>2, <1>3, <2>2, IndexAfter
    <3>2. CASE x # u
      <4>1. Record(x, y)' = Record(x, y)
        BY <1>4, <3>2
      <4>2. QED BY <1>2, <3>1, <4>1, RecordStays
    <3>3. CASE x = u
      <4>1. \/ /\ Record(u, y)'.reward_index = Up(y).reward_index
               /\ Record(u, y)'.pending_reward = 0
            \/ Record(u, y)' = DefaultRewardInfo
        <5>1. Record(u, y)' = info[y] \/ Record(u, y)' = DefaultRewardInfo
          BY <1>2, <2>2, RecordOrNone
        <5>2. info[y].reward_index = Up(y).reward_index /\ info[y].pending_reward = 0
          BY <1>1, <2>2 DEF Settled
        <5>3. QED BY <5>1, <5>2
      <4>2. Claimable(u, y) > 0 => prism' < prism
        BY <1>1, <2>2, ClaimFacts DEF ClaimFact
      <4>3. ClaimHolds(u, y)
        BY <1>2, <3>1, <4>1, <4>2, RecordPaid
      <4>4. QED BY <3>3, <4>3
    <3>4. QED BY <3>2, <3>3
  <2>3. QED BY <2>1, <2>2
<1>6. QED BY <1>5

\* Steps that touch no record.
LEMMA IndexesHold ==
  ASSUME LpInv, LpInv', total_weight > 0, Weighted', UNCHANGED stakeVars,
         DOMAIN pools \subseteq DOMAIN pools', \A y \in DOMAIN pools : IndexHolds(y)
  PROVE  \A x \in Users, y \in DOMAIN pools : ClaimHolds(x, y)
<1>1. \A x, y : Record(x, y)' = Record(x, y)
  BY DEF Record, stakeVars
<1>2. QED BY <1>1, RecordStays

LEMMA RegisterHolds ==
  ASSUME LpInv, LpInv', total_weight > 0, Weighted', NEW o, NEW t, NEW d, NEW w,
         register_staking_token(o, t, d, w)
  PROVE  \A x \in Users, y \in DOMAIN pools : ClaimHolds(x, y)
<1>1. UNCHANGED <<stakeVars, now>> /\ DOMAIN pools \subseteq DOMAIN pools'
  BY DEF register_staking_token
<1>2. ASSUME NEW y \in DOMAIN pools PROVE Reached(y)
  <2>1. Brought(pools[y], Up(y))
    BY UpFacts DEF UpFact
  <2>2. pools'[y] = Up(y)
    BY DEF register_staking_token, Up
  <2>3. QED BY <2>1, <2>2 DEF Reached, Brought
<1>3. \A y \in DOMAIN pools : IndexHolds(y)
  BY <1>1, <1>2, IndexAfter
<1>4. QED BY <1>1, <1>3, IndexesHold

\* A pool that was brought up to now becomes the same at whatever total.
LEMMA SameAtAnyTotal ==
  ASSUME LpInv, NEW y \in DOMAIN pools, pools[y].last_distributed = now,
         NEW n \in Nat, Computable(pools[y], n), NEW k \in Nat, Computable(pools[y], k)
  PROVE  compute_pool_reward(pools[y], n) = compute_pool_reward(pools[y], k)
<1>1. ConfigType /\ pools[y] \in PoolInfo
  BY TypeParts DEF LpInv, PoolsType
<1>2. distributed_amount(pools[y], n) = 0 /\ distributed_amount(pools[y], k) = 0
  BY <1>1, NothingMore
<1>3. QED BY <1>2 DEF compute_pool_reward

\* The change of a weight: a pool behind it keeps its claims if it was brought up to now, or
\* if the weight is what it was.
LEMMA UpdateWeightHolds ==
  ASSUME LpInv, LpInv', total_weight > 0, Weighted', NEW o, NEW t \in DOMAIN pools, NEW w \in Nat,
         update_weight(o, t, w)
  PROVE  \A x \in Users, y \in DOMAIN pools : ReweightedAhead(y) \/ ClaimHolds(x, y)
<1>1. UNCHANGED <<stakeVars, now>>
  BY DEF update_weight
<1>2. PICK c : /\ c = [x \in DOMAIN pools |-> compute_pool_reward(pools[x], total_at(x, t, w))]
               /\ pools' = [c EXCEPT ![t].weight = w]
               /\ \A x \in DOMAIN pools : Brought(pools[x], c[x])
  BY ReweightedPools
<1>3. DOMAIN c = DOMAIN pools /\ DOMAIN pools' = DOMAIN pools
  BY <1>2
<1>4. ASSUME NEW y \in DOMAIN pools
      PROVE  /\ pools'[y].reward_index = c[y].reward_index
             /\ pools'[y].pending_reward = c[y].pending_reward
             /\ pools'[y].last_distributed = now
             /\ y = t => pools'[y].weight = w
  <2>1. PICK q \in PoolInfo : q = c[y] /\ q.last_distributed = now
    BY <1>2 DEF Brought
  <2>2. pools'[y] = IF y = t THEN [q EXCEPT !.weight = w] ELSE q
    BY <1>2, <1>3, <2>1
  <2>3. QED BY <2>1, <2>2 DEF PoolInfo
<1>5. ASSUME NEW y \in DOMAIN pools, ~ ReweightedAhead(y)
      PROVE  c[y] = Up(y)
  <2>1. c[y] = compute_pool_reward(pools[y], total_at(y, t, w))
    BY <1>2
  <2>2. CASE total_at(y, t, w) = total_weight
    BY <2>1, <2>2 DEF Up
  <2>3. CASE total_at(y, t, w) # total_weight
    <3>1. /\ pools[t].weight \in Nat /\ total_weight \in Nat /\ now \in Nat
          /\ pools[y].last_distributed \in Nat /\ pools[y].last_distributed <= now
          /\ y \in Nat /\ t \in Nat
      BY LpAssumption DEF LpInv, TypeOK, PoolInfo
    <3>2. t < y /\ w # pools[t].weight
      BY <2>3, <3>1 DEF total_at, total_reweighted
    <3>3. pools'[t].weight # pools[t].weight
      BY <1>4, <3>2
    <3>4. pools[y].last_distributed = now
      BY <1>5, <3>1, <3>2, <3>3 DEF ReweightedAhead, Stale
    <3>5. Computable(pools[y], total_at(y, t, w)) /\ total_at(y, t, w) \in Nat
      BY Reweighted DEF update_weight
    <3>6. Computable(pools[y], total_weight)
      BY DEF Computable
    <3>7. QED BY <2>1, <3>1, <3>4, <3>5, <3>6, SameAtAnyTotal DEF Up
  <2>4. QED BY <2>2, <2>3
<1>6. \A x, y : Record(x, y)' = Record(x, y)
  BY <1>1 DEF Record, stakeVars
<1>7. ASSUME NEW x \in Users, NEW y \in DOMAIN pools, ~ ReweightedAhead(y)
      PROVE  ClaimHolds(x, y)
  <2>1. Reached(y)
    BY <1>4, <1>5, <1>7 DEF Reached
  <2>2. IndexHolds(y)
    BY <1>1, <1>3, <2>1, IndexAfter
  <2>3. QED BY <1>3, <1>6, <2>2, RecordStays
<1>8. QED BY <1>7

LEMMA PeriodHolds ==
  ASSUME LpInv, LpInv', total_weight > 0, Weighted', NEW o, NEW t \in DOMAIN pools, NEW d \in Nat,
         update_unbond_period(o, t, d)
  PROVE  \A x \in Users, y \in DOMAIN pools : ClaimHolds(x, y)
<1>1. /\ UNCHANGED <<stakeVars, now, total_weight, distribution_schedule>>
      /\ pools' = [pools EXCEPT ![t].unbond_period = d]
  BY DEF update_unbond_period, configVars
<1>2. DOMAIN pools' = DOMAIN pools
  BY <1>1
<1>3. ASSUME NEW y \in DOMAIN pools PROVE IndexHolds(y)
  <2>1. PICK q \in PoolInfo : q = pools[y]
    BY DEF LpInv, TypeOK
  <2>2. PICK p : p = IF y = t THEN [q EXCEPT !.unbond_period = d] ELSE q
    OBVIOUS
  <2>3. pools'[y] = p
    BY <1>1, <2>1, <2>2
  <2>4. /\ p.last_distributed = q.last_distributed /\ p.weight = q.weight /\ p \in PoolInfo
        /\ p.total_bond_amount = q.total_bond_amount /\ p.pending_reward = q.pending_reward
        /\ p.reward_index = q.reward_index
    BY <2>2 DEF PoolInfo
  <2>5. QED BY <1>1, <1>2, <2>1, <2>3, <2>4, IndexStays
<1>4. QED BY <1>1, <1>2, <1>3, IndexesHold

LEMMA PoolsStayHolds ==
  ASSUME LpInv, LpInv', total_weight > 0, Weighted',
         UNCHANGED <<stakeVars, pools, now, total_weight, distribution_schedule>>
  PROVE  \A x \in Users, y \in DOMAIN pools : ClaimHolds(x, y)
<1>1. ASSUME NEW y \in DOMAIN pools PROVE IndexHolds(y)
  <2>1. pools[y] \in PoolInfo /\ pools' = pools
    BY DEF LpInv, TypeOK
  <2>2. QED BY <2>1, IndexStays
<1>2. QED BY <1>1, IndexesHold

\* A schedule that starts now or later has brought nothing yet.
LEMMA ScheduleHolds ==
  ASSUME LpInv, LpInv', total_weight > 0, Weighted', NEW o, NEW s \in Schedule,
         add_distribution_schedule(o, s)
  PROVE  \A x \in Users, y \in DOMAIN pools : ClaimHolds(x, y)
<1>1. /\ s.start >= now /\ ValidSchedule(s)
      /\ distribution_schedule' = Append(distribution_schedule, s)
      /\ UNCHANGED <<stakeVars, pools, now, total_weight>>
  BY DEF add_distribution_schedule
<1>2. TypeOK /\ ConfigType /\ PoolsType
  BY TypeParts DEF LpInv
<1>3. PICK D : D = DOMAIN distribution_schedule
  OBVIOUS
<1>4. PICK n \in Nat : n = Len(distribution_schedule) /\ D = 1..n
  BY <1>2, <1>3 DEF ConfigType
<1>5. PICK k : k = n + 1 /\ IsFiniteSet(D) /\ k \notin D
  BY <1>4, FS_Interval
<1>6. /\ DOMAIN distribution_schedule' = D \cup {k} /\ distribution_schedule'[k] = s
      /\ \A i \in D : distribution_schedule'[i] = distribution_schedule[i]
  BY <1>1, <1>2, <1>3, <1>4, <1>5 DEF ConfigType
<1>7. ASSUME NEW y \in DOMAIN pools PROVE IndexHolds(y)
  <2>1. PICK p \in PoolInfo : p = pools[y] /\ p.last_distributed <= now
    BY <1>2 DEF PoolsType
  <2>2. PICK f : f = [i \in D |-> IF Applies(distribution_schedule[i], p)
                                  THEN DistributedBy(distribution_schedule[i], p, total_weight) ELSE 0]
    OBVIOUS
  <2>3. PICK h : h = [i \in D \cup {k} |->
                        IF Applies(distribution_schedule'[i], p)
                        THEN DistributedBy(distribution_schedule'[i], p, total_weight) ELSE 0]
    OBVIOUS
  <2>4. \A i \in D : f[i] \in Nat /\ h[i] = f[i]
    <3>1. ASSUME NEW i \in D PROVE f[i] \in Nat
      <4>1. distribution_schedule[i] \in Schedule /\ ValidSchedule(distribution_schedule[i])
        BY <1>2, <1>3 DEF ConfigType
      <4>2. total_weight \in Nat \ {0}
        BY <1>2 DEF ConfigType
      <4>3. QED BY <1>2, <2>1, <2>2, <4>1, <4>2, DistributedNat
    <3>2. QED BY <1>6, <2>2, <2>3, <3>1
  <2>5. h[k] = 0
    <3>1. h[k] = IF Applies(s, p) THEN DistributedBy(s, p, total_weight) ELSE 0
      BY <1>6, <2>3
    <3>2. ASSUME Applies(s, p) PROVE DistributedBy(s, p, total_weight) = 0
      <4>1. s.start \in Nat /\ s.end \in Nat /\ s.amount \in Nat /\ s.start < s.end
        BY <1>1 DEF Schedule, ValidSchedule
      <4>2. p.weight \in Nat /\ p.last_distributed \in Nat /\ now \in Nat
            /\ total_weight \in Nat \ {0}
        BY <1>2 DEF PoolInfo, ConfigType
      <4>3. smaller(s.end, now) - later(s.start, p.last_distributed) = 0
        BY <1>1, <2>1, <3>2, <4>1, <4>2 DEF smaller, later, Applies
      <4>4. PICK r \in Nat : r = from_ratio(p.weight, total_weight)
        BY <4>2, RatioNat
      <4>5. PICK m \in Nat : m = mul(s.amount, r)
        BY <4>1, MulNat
      <4>6. PICK e \in Nat \ {0} : e = s.end - s.start
        BY <4>1
      <4>7. PICK q \in Nat : q = from_ratio(m, e)
        BY RatioNat
      <4>8. mul(0, q) = 0
        BY OnePos DEF mul
      <4>9. QED BY <4>3, <4>4, <4>5, <4>6, <4>7, <4>8 DEF DistributedBy
    <3>3. QED BY <3>1, <3>2
  <2>6. SumFunctionOnSet(h, D \cup {k}) = SumFunctionOnSet(f, D)
    <3>1. h[k] \in Nat
      BY <2>5
    <3>2. SumFunctionOnSet(h, D \cup {k}) = SumFunctionOnSet(f, D) + h[k]
      BY ONLY <1>5, <2>4, <3>1, SumExtend
    <3>3. SumFunctionOnSet(f, D) \in Nat
      BY <1>5, <2>4, SumNat
    <3>4. QED BY <2>5, <3>2, <3>3
  <2>7. distributed_amount(pools[y], total_weight) = SumFunctionOnSet(f, D)
    BY <1>3, <2>1, <2>2 DEF distributed_amount
  <2>8. distributed_amount(pools[y], total_weight)' = SumFunctionOnSet(h, D \cup {k})
    BY <1>1, <1>6, <2>1, <2>3 DEF distributed_amount, Applies, DistributedBy
  <2>9. distributed_amount(pools[y], total_weight)' = distributed_amount(pools[y], total_weight)
    BY <2>6, <2>7, <2>8
  <2>10. Up(y)' = Up(y)
    BY <1>1, <2>9 DEF Up, compute_pool_reward
  <2>11. Up(y).reward_index \in Nat
    BY UpFacts DEF UpFact, Brought, PoolInfo
  <2>12. QED BY <2>10, <2>11 DEF IndexHolds
<1>8. QED BY <1>1, <1>7, IndexesHold

LEMMA PastStep ==
  ASSUME LpInv, LpInv', Next, now' = now, total_weight > 0, Weighted'
  PROVE  \A x \in Users, y \in DOMAIN pools : ReweightedAhead(y) \/ ClaimHolds(x, y)
<1> DEFINE Holds == \A x \in Users, y \in DOMAIN pools : ReweightedAhead(y) \/ ClaimHolds(x, y)
<1>1. ConfigType /\ PoolsType /\ TypeOK /\ \A t \in DOMAIN pools : Accounted(t)
  BY TypeParts DEF LpInv
<1>2. \A t \in DOMAIN pools :
        /\ t \in Tokens /\ held[t] \in Nat
        /\ pools[t].total_bond_amount \in Nat /\ pools[t].total_pending_withdraw \in Nat
        /\ held[t] >= pools[t].total_bond_amount + pools[t].total_pending_withdraw
  BY <1>1 DEF ConfigType, PoolsType, PoolInfo, Accounted
<1>3. ASSUME NEW u \in Users, NEW t \in DOMAIN pools, NEW a \in Nat, Bonded(u, t, a),
             held' \in [Tokens -> Nat], \A x \in DOMAIN pools \ {t} : held'[x] = held[x],
             held'[t] >= pools[t].total_bond_amount + a + pools[t].total_pending_withdraw
      PROVE  Holds
  <2>1. PICK i \in RewardInfo, p \in PoolInfo :
           /\ OneCall(u, t, i, p) /\ Settled(u, t, i, p)
           /\ i.pending_reward = Earned(u, t).pending_reward
    BY <1>3, BondedMoves
  <2>2. QED BY <2>1, SettlingHolds
<1>4. ASSUME NEW u \in Users, NEW t \in DOMAIN pools, NEW a \in BondAmounts, bond(u, t, a)
      PROVE  Holds
  <2>1. a \in Nat
    BY LpAssumption
  <2>2. Bonded(u, t, a) /\ held' = [held EXCEPT ![t] = @ + a]
    BY <1>4 DEF bond
  <2>3. held \in [Tokens -> Nat] /\ held[t] + a \in Nat
    BY <1>1, <1>2, <2>1 DEF ConfigType
  <2>4. /\ held' \in [Tokens -> Nat] /\ held'[t] = held[t] + a
        /\ \A x \in DOMAIN pools \ {t} : held'[x] = held[x]
    BY <1>2, <2>2, <2>3
  <2>5. held'[t] >= pools[t].total_bond_amount + a + pools[t].total_pending_withdraw
    BY <1>2, <2>1, <2>4
  <2>6. QED BY <1>3, <2>1, <2>2, <2>4, <2>5
<1>5. ASSUME NEW u \in Users, NEW t \in DOMAIN pools, auto_stake_hook(u, t)
      PROVE  Holds
  <2>1. PICK a : a = held[t] - pools[t].total_bond_amount - pools[t].total_pending_withdraw
    OBVIOUS
  <2>2. Bonded(u, t, a) /\ held' = held
    BY <1>5, <2>1 DEF auto_stake_hook
  <2>3. a \in Nat /\ held[t] >= pools[t].total_bond_amount + a + pools[t].total_pending_withdraw
    BY <1>2, <2>1
  <2>4. held' \in [Tokens -> Nat] /\ \A x \in DOMAIN pools \ {t} : held'[x] = held[x]
    BY <1>1, <2>2 DEF ConfigType
  <2>5. QED BY <1>3, <2>2, <2>3, <2>4
<1>6. ASSUME NEW u \in Users, NEW t \in DOMAIN pools, NEW a \in Nat, unbond(u, t, a)
      PROVE  Holds
  <2>1. PICK i \in RewardInfo, p \in PoolInfo :
           /\ OneCall(u, t, i, p) /\ Settled(u, t, i, p)
           /\ i.pending_reward = Earned(u, t).pending_reward
    BY <1>6, UnbondMoves, ZenonT(40)
  <2>2. QED BY <2>1, SettlingHolds
<1>7. ASSUME NEW u \in Users, NEW t \in DOMAIN pools, unbond(u, t, Record(u, t).bond_amount)
      PROVE  Holds
  <2>1. PICK a \in Nat : a = Record(u, t).bond_amount
    BY <1>1, RecordIs DEF RewardInfo
  <2>2. unbond(u, t, a)
    BY <1>7, <2>1 DEF unbond
  <2>3. QED BY <1>6, <2>2
<1>8. ASSUME NEW u \in Users, NEW t \in DOMAIN pools, claim_unbonded(u, t)
      PROVE  Holds
  BY <1>8, ClaimUnbondedHolds
<1>9. ASSUME NEW u \in Users, NEW t \in DOMAIN pools, claim_rewards(u, {t})
      PROVE  Holds
  <2>1. PICK S \in SUBSET DOMAIN pools : S = {t}
    OBVIOUS
  <2>2. claim_rewards(u, S)
    BY <1>9, <2>1 DEF claim_rewards
  <2>3. QED BY <2>2, ClaimRewardsHolds
<1>10. ASSUME NEW u \in Users, claim_rewards(u, StakedBy(u))
       PROVE  Holds
  <2>1. StakedBy(u) \subseteq DOMAIN pools
    BY <1>1 DEF StakedBy, TypeOK
  <2>2. PICK S \in SUBSET DOMAIN pools : S = StakedBy(u)
    BY <2>1
  <2>3. claim_rewards(u, S)
    BY <1>10, <2>2 DEF claim_rewards
  <2>4. QED BY <2>3, ClaimRewardsHolds
<1>11. ASSUME \/ \E s, o \in Owners : update_owner(s, o)
              \/ \E t \in Tokens, a \in GiftAmounts : LpArrives(t, a)
       PROVE  Holds
  <2>1. UNCHANGED <<stakeVars, pools, now, total_weight, distribution_schedule>>
    BY <1>11 DEF update_owner, LpArrives, configVars
  <2>2. QED BY <2>1, PoolsStayHolds
<1>12. ASSUME NEW o \in Owners, NEW s \in Schedules, add_distribution_schedule(o, s)
       PROVE  Holds
  BY <1>12, ScheduleHolds, LpAssumption
<1>13. ASSUME NEW o \in Owners, NEW t \in Tokens, NEW p \in Periods, NEW w \in Weights,
              register_staking_token(o, t, p, w)
       PROVE  Holds
  BY <1>13, RegisterHolds
<1>14. ASSUME NEW o \in Owners, NEW t \in DOMAIN pools, NEW w \in Weights, update_weight(o, t, w)
       PROVE  Holds
  BY <1>14, UpdateWeightHolds, LpAssumption
<1>15. ASSUME NEW o \in Owners, NEW t \in DOMAIN pools, NEW p \in Periods,
              update_unbond_period(o, t, p)
       PROVE  Holds
  BY <1>15, PeriodHolds, LpAssumption
<1>16. ~ EndBlock
  BY <1>1 DEF EndBlock, ConfigType
<1>17. ASSUME NEW u \in Users, NEW t \in DOMAIN pools, NEW a \in UnbondAmounts, unbond(u, t, a)
       PROVE  Holds
  BY <1>6, <1>17, LpAssumption
<1> HIDE DEF Holds
<1>18. Holds
  BY <1>4, <1>5, <1>7, <1>8, <1>9, <1>10, <1>11, <1>12, <1>13, <1>14, <1>15, <1>16, <1>17, Zenon
  DEF Next
<1>19. QED BY <1>18 DEF Holds

\* At any instant, nobody's call and no new pool or schedule changes what another staker
\* can claim of a pool with bonds, and a claim goes only when it is paid: what bonds, unbonds
\* and claims touch is brought up to now before it changes.  A change of a weight
\* (update_staking_token) keeps the claims of the pool itself, of those ahead of it and of
\* those that were up to now already.
THEOREM ClaimsAreFixed == Spec => ClaimsKept
<1>1. LpInv /\ LpInv' /\ [Next]_vars =>
        [(now' = now /\ total_weight > 0 /\ total_weight' > 0) =>
           \A t \in DOMAIN pools :
             ReweightedAhead(t) \/ \A u \in Stakers(t) \cup Stakers(t)' : ClaimKept(u, t)]_vars
  <2>1. ASSUME LpInv, LpInv', Next, now' = now, total_weight > 0, total_weight' > 0,
               NEW t \in DOMAIN pools, ~ ReweightedAhead(t), NEW u \in Stakers(t) \cup Stakers(t)'
        PROVE  ClaimKept(u, t)
    <3>1. Weighted'
      BY <2>1 DEF Weighted
    <3>2. u \in Users
      BY DEF Stakers
    <3>3. ClaimHolds(u, t)
      BY <2>1, <3>1, <3>2, PastStep
    <3>4. QED BY <3>3 DEF ClaimHolds, ClaimKept
  <2>2. QED BY <2>1, Zenon
<1>2. QED BY <1>1, InvAlways, PTL DEF Spec, ClaimsKept

(***************************************************************************)
(* The schedules cover the rewards.  What stakers can claim is rounded     *)
(* down for each of them, at each index, and cannot be followed step by    *)
(* step; the books are kept in units of 1/ONE, in which a rising index     *)
(* adds exactly the bonds times the rise.  On the other side, what pools   *)
(* were booked of a schedule is bounded by what it has released without    *)
(* the time that some pool has not counted yet.                            *)
(***************************************************************************)
Elapsed(s) == IF s.start > now THEN 0 ELSE smaller(s.end, now) - s.start
Counted(s, pool) ==
  IF Applies(s, pool) THEN smaller(s.end, now) - later(s.start, pool.last_distributed) ELSE 0
RateOf(s, pool) ==
  IF total_weight = 0 THEN 0
  ELSE from_ratio(mul(s.amount, from_ratio(pool.weight, total_weight)), s.end - s.start)
Share(s, pool) == mul(Counted(s, pool), RateOf(s, pool))
Due(s, pool) == Counted(s, pool) * RateOf(s, pool)

DueTable(s) == [t \in DOMAIN pools |-> Due(s, pools[t])]
Open(s) == SumFunctionOnSet(DueTable(s), DOMAIN pools)
Limit(s) == s.amount * ONE * Elapsed(s)
Booked(s) == (Limit(s) - (s.end - s.start) * Open(s)) \div ((s.end - s.start) * ONE)

\* The time a pool has not counted yet is part of the time that has passed.
LEMMA CountedFacts ==
  ASSUME ConfigType, NEW p \in PoolInfo, p.last_distributed <= now,
         NEW s \in Schedule, ValidSchedule(s)
  PROVE  /\ Counted(s, p) \in Nat /\ Elapsed(s) \in Nat /\ Counted(s, p) <= Elapsed(s)
         /\ p.last_distributed = now => Counted(s, p) = 0
         /\ s.start >= now => Elapsed(s) = 0
<1>1. s.start \in Nat /\ s.end \in Nat /\ s.start < s.end
  BY DEF Schedule, ValidSchedule
<1>2. p.last_distributed \in Nat /\ now \in Nat
  BY DEF PoolInfo, ConfigType
<1>3. QED BY <1>1, <1>2 DEF Counted, Elapsed, Applies, smaller, later

LEMMA RateNat ==
  ASSUME ConfigType, NEW p \in PoolInfo, NEW s \in Schedule, ValidSchedule(s)
  PROVE  RateOf(s, p) \in Nat
<1>1. s.start \in Nat /\ s.end \in Nat /\ s.amount \in Nat /\ s.start < s.end
  BY DEF Schedule, ValidSchedule
<1>2. p.weight \in Nat /\ total_weight \in Nat
  BY DEF PoolInfo, ConfigType
<1>3. CASE total_weight = 0
  BY <1>3 DEF RateOf
<1>4. CASE total_weight # 0
  <2>1. PICK r \in Nat : r = from_ratio(p.weight, total_weight)
    BY <1>2, <1>4, RatioNat
  <2>2. PICK m \in Nat : m = mul(s.amount, r)
    BY <1>1, MulNat
  <2>3. PICK d \in Nat \ {0} : d = s.end - s.start
    BY <1>1
  <2>4. from_ratio(m, d) \in Nat
    BY RatioNat
  <2>5. QED BY <1>4, <2>1, <2>2, <2>3, <2>4 DEF RateOf
<1>5. QED BY <1>3, <1>4

\* What a schedule brings a pool, unrounded and rounded.
LEMMA ShareFacts ==
  ASSUME ConfigType, NEW p \in PoolInfo, p.last_distributed <= now,
         NEW s \in Schedule, ValidSchedule(s)
  PROVE  /\ Due(s, p) \in Nat /\ Share(s, p) \in Nat /\ ONE * Share(s, p) <= Due(s, p)
         /\ Due(s, p) <= Elapsed(s) * RateOf(s, p)
         /\ p.last_distributed = now => Due(s, p) = 0
<1>1. PICK c \in Nat, e \in Nat, r \in Nat : c = Counted(s, p) /\ e = Elapsed(s) /\ r = RateOf(s, p)
  BY CountedFacts, RateNat
<1>2. c <= e /\ (p.last_distributed = now => c = 0)
  BY <1>1, CountedFacts
<1>3. c * r \in Nat /\ c * r <= e * r /\ (c = 0 => c * r = 0)
  BY <1>2
<1>4. mul(c, r) \in Nat /\ ONE * mul(c, r) <= c * r
  BY MulNat, MulRest
<1>5. QED BY <1>1, <1>2, <1>3, <1>4 DEF Due, Share

\* A higher total brings a pool no more of a schedule, and no total brings it anything when
\* it is up to now.
LEMMA ShareCovers ==
  ASSUME ConfigType, NEW p \in PoolInfo, p.last_distributed <= now, NEW s \in Schedule,
         ValidSchedule(s), Applies(s, p), NEW n \in Nat \ {0},
         total_weight <= n \/ p.last_distributed = now, total_weight = 0 => p.weight = 0
  PROVE  DistributedBy(s, p, n) \in Nat /\ DistributedBy(s, p, n) <= Share(s, p)
<1>1. s.start \in Nat /\ s.end \in Nat /\ s.amount \in Nat /\ s.start < s.end
  BY DEF Schedule, ValidSchedule
<1>2. p.weight \in Nat /\ total_weight \in Nat
  BY DEF PoolInfo, ConfigType
<1>3. Share(s, p) \in Nat /\ DistributedBy(s, p, n) \in Nat
  BY ShareFacts, DistributedNat
<1>4. CASE p.last_distributed = now
  <2>1. DistributedBy(s, p, n) = 0
    BY <1>4, NothingNow
  <2>2. QED BY <1>3, <2>1
<1>5. CASE total_weight <= n
  <2>1. PICK c \in Nat : c = Counted(s, p)
    BY CountedFacts
  <2>2. PICK d \in Nat \ {0} : d = s.end - s.start
    BY <1>1
  <2>3. PICK r \in Nat : r = from_ratio(p.weight, n)
    BY <1>2, RatioNat
  <2>4. PICK m \in Nat : m = mul(s.amount, r)
    BY <1>1, MulNat
  <2>5. PICK q \in Nat : q = from_ratio(m, d)
    BY RatioNat
  <2>6. DistributedBy(s, p, n) = mul(c, q)
    BY <2>1, <2>2, <2>3, <2>4, <2>5 DEF DistributedBy, Counted
  <2>7. PICK k \in Nat : k = RateOf(s, p)
    BY RateNat
  <2>8. q <= k
    <3>1. CASE total_weight = 0
      <4>1. r = 0
        BY <2>3, <3>1, OnePos DEF from_ratio
      <4>2. m = 0
        BY <1>1, <2>4, <4>1, OnePos DEF mul
      <4>3. q = 0
        BY <2>5, <4>2, OnePos DEF from_ratio
      <4>4. QED BY <4>3
    <3>2. CASE total_weight # 0
      <4>1. PICK b \in Nat \ {0} : b = total_weight
        BY <1>2, <3>2
      <4>2. PICK e \in Nat : e = from_ratio(p.weight, b)
        BY <1>2, RatioNat
      <4>3. r <= e
        BY <1>2, <1>5, <2>3, <4>1, <4>2, RatioFalls
      <4>4. PICK f \in Nat : f = mul(s.amount, e)
        BY <1>1, MulNat
      <4>5. m <= f
        BY <1>1, <2>4, <4>3, <4>4, MulGrows
      <4>6. q <= from_ratio(f, d)
        BY <2>5, <4>5, RatioGrows
      <4>7. k = from_ratio(f, d)
        BY <2>2, <2>7, <3>2, <4>1, <4>2, <4>4 DEF RateOf
      <4>8. QED BY <4>6, <4>7
    <3>3. QED BY <3>1, <3>2
  <2>9. mul(c, q) <= mul(c, k)
    BY <2>8, MulGrows
  <2>10. QED BY <1>3, <2>1, <2>6, <2>7, <2>9 DEF Share
<1>6. QED BY <1>4, <1>5

\* The pools together are brought no more of a schedule than it has for its time.
LEMMA RatesWithin ==
  ASSUME LpInv, NEW s \in Schedule, ValidSchedule(s),
         NEW R, R = [t \in DOMAIN pools |-> RateOf(s, pools[t])]
  PROVE  /\ \A t \in DOMAIN pools : R[t] \in Nat
         /\ SumFunctionOnSet(R, DOMAIN pools) \in Nat
         /\ (s.end - s.start) * SumFunctionOnSet(R, DOMAIN pools) <= s.amount * ONE
<1>1. ConfigType /\ PoolsType
  BY TypeParts DEF LpInv
<1>2. PICK T : T = DOMAIN pools
  OBVIOUS
<1>3. PICK A \in Nat, d \in Nat \ {0}, W \in Nat, o \in Nat \ {0} :
        A = s.amount /\ d = s.end - s.start /\ W = total_weight /\ o = ONE
  <2>1. s.amount \in Nat /\ s.end - s.start \in Nat \ {0}
    BY DEF Schedule, ValidSchedule
  <2>2. QED BY <1>1, <2>1, OnePos DEF ConfigType
<1>4. \A t \in T : pools[t] \in PoolInfo /\ R[t] = RateOf(s, pools[t]) /\ R[t] \in Nat
  BY <1>1, <1>2, RateNat DEF PoolsType
<1>5. IsFiniteSet(T)
  BY <1>2, WeightsAre
<1>6. PICK X \in Nat : X = SumFunctionOnSet(R, T)
  BY <1>4, <1>5, SumNat
<1>7. CASE W = 0
  <2>1. \A t \in T : R[t] = 0
    BY <1>3, <1>4, <1>7 DEF RateOf
  <2>2. X = 0
    BY <1>5, <1>6, <2>1, SumZero
  <2>3. d * X = 0 /\ A * o \in Nat
    BY <2>2
  <2>4. QED BY <1>2, <1>3, <1>4, <1>6, <2>3
<1>8. CASE W # 0
  <2>1. PICK g : g = WeightTable
    OBVIOUS
  <2>2. PICK z : z = [t \in T |-> 0]
    OBVIOUS
  <2>3. PICK P \in Nat, Q \in Nat : P = W * d /\ Q = A * o
    OBVIOUS
  <2>4. ASSUME NEW t \in T
        PROVE  z[t] \in Nat /\ g[t] \in Nat /\ R[t] \in Nat /\ P * R[t] <= z[t] + Q * g[t]
    <3>1. PICK w \in Nat : w = g[t] /\ w = pools[t].weight
      BY <1>2, <2>1, WeightsAre
    <3>2. PICK r \in Nat : r = from_ratio(w, W) /\ r * W <= w * o
      BY <1>3, <1>8, RatioNat, RatioRest
    <3>3. PICK m \in Nat : m = mul(A, r) /\ o * m <= A * r
      BY <1>3, MulNat, MulRest
    <3>4. PICK q \in Nat : q = from_ratio(m, d) /\ q * d <= m * o
      BY <1>3, RatioNat, RatioRest
    <3>5. R[t] = q
      BY <1>3, <1>4, <1>8, <3>1, <3>2, <3>3, <3>4 DEF RateOf
    <3>6. q * d <= A * r
      BY <3>3, <3>4
    <3>7. PICK k \in Nat, l \in Nat : k = q * d /\ l = A * r
      OBVIOUS
    <3>8. k * W <= l * W
      BY <3>6, <3>7
    <3>9. l * W = A * (r * W)
      BY <3>7
    <3>10. A * (r * W) <= A * (w * o)
      <4>1. PICK x \in Nat, y \in Nat : x = r * W /\ y = w * o
        OBVIOUS
      <4>2. x <= y
        BY <3>2, <4>1
      <4>3. A * x <= A * y
        BY <4>2
      <4>4. QED BY <4>1, <4>3
    <3>11. k * W = P * q /\ A * (w * o) = Q * w
      BY <2>3, <3>7
    <3>12. P * q <= Q * w
      BY <3>8, <3>9, <3>10, <3>11
    <3>13. Q * w \in Nat
      OBVIOUS
    <3>14. QED BY <2>2, <3>1, <3>5, <3>12, <3>13
  <2>5. P * SumFunctionOnSet(R, T) <= SumFunctionOnSet(z, T) + Q * SumFunctionOnSet(g, T)
    BY <1>5, <2>4, SumBound
  <2>6. SumFunctionOnSet(z, T) = 0
    BY <1>5, <2>2, SumZero
  <2>7. SumFunctionOnSet(g, T) = W
    BY <1>2, <1>3, <2>1, WeightsAre
  <2>8. P * X <= Q * W
    BY <1>6, <2>5, <2>6, <2>7
  <2>9. PICK h \in Nat : h = d * X
    OBVIOUS
  <2>10. W * h <= W * Q
    <3>1. P * X = W * h /\ Q * W = W * Q
      BY <2>3, <2>9
    <3>2. QED BY <2>8, <3>1
  <2>11. h <= Q
    BY <1>8, <2>10, LeqByFactor
  <2>12. QED BY <1>2, <1>3, <1>4, <1>6, <2>3, <2>9, <2>11
<1>9. QED BY <1>7, <1>8

\* What was booked of a schedule, characterised without the quotient: the most that leaves
\* room for the time that is not counted yet.
BookedFact ==
  \A s \in Schedule : ValidSchedule(s) =>
    /\ Booked(s) \in Nat /\ Open(s) \in Nat /\ Limit(s) \in Nat
    /\ (s.end - s.start) * (ONE * Booked(s) + Open(s)) <= Limit(s)
    /\ \A n \in Nat : (s.end - s.start) * (ONE * n + Open(s)) <= Limit(s) => n <= Booked(s)

LEMMA BookedFacts == LpInv => BookedFact
<1> SUFFICES ASSUME LpInv, NEW s \in Schedule, ValidSchedule(s)
             PROVE  /\ Booked(s) \in Nat /\ Open(s) \in Nat /\ Limit(s) \in Nat
                    /\ (s.end - s.start) * (ONE * Booked(s) + Open(s)) <= Limit(s)
                    /\ \A n \in Nat : (s.end - s.start) * (ONE * n + Open(s)) <= Limit(s)
                                        => n <= Booked(s)
  BY DEF BookedFact
<1>1. ConfigType /\ PoolsType
  BY TypeParts DEF LpInv
<1>2. PICK T : T = DOMAIN pools
  OBVIOUS
<1>3. PICK A \in Nat, d \in Nat \ {0}, o \in Nat \ {0} : A = s.amount /\ d = s.end - s.start /\ o = ONE
  <2>1. s.amount \in Nat /\ s.end - s.start \in Nat \ {0}
    BY DEF Schedule, ValidSchedule
  <2>2. QED BY <2>1, OnePos
<1>4. PICK e \in Nat : e = Elapsed(s)
  <2>1. s.start \in Nat /\ s.end \in Nat /\ s.start < s.end /\ now \in Nat
    BY <1>1 DEF Schedule, ValidSchedule, ConfigType
  <2>2. QED BY <2>1 DEF Elapsed, smaller
<1>5. PICK R : R = [t \in DOMAIN pools |-> RateOf(s, pools[t])]
  OBVIOUS
<1>6. PICK X \in Nat : X = SumFunctionOnSet(R, T) /\ d * X <= A * o
  BY <1>2, <1>3, <1>5, RatesWithin
<1>7. \A t \in T : R[t] \in Nat
  BY <1>2, <1>5, RatesWithin
<1>8. IsFiniteSet(T)
  BY <1>2, WeightsAre
<1>9. PICK D : D = DueTable(s)
  OBVIOUS
<1>10. \A t \in T : D[t] \in Nat /\ D[t] <= e * R[t]
  <2>1. ASSUME NEW t \in T PROVE D[t] \in Nat /\ D[t] <= e * R[t]
    <3>1. pools[t] \in PoolInfo /\ pools[t].last_distributed <= now
      BY <1>1, <1>2 DEF PoolsType
    <3>2. Due(s, pools[t]) \in Nat /\ Due(s, pools[t]) <= e * RateOf(s, pools[t])
      BY <1>1, <1>4, <3>1, ShareFacts
    <3>3. QED BY <1>2, <1>5, <1>9, <3>2 DEF DueTable
  <2>2. QED BY <2>1
<1>11. PICK Y \in Nat : Y = SumFunctionOnSet(D, T) /\ Y = Open(s)
  BY <1>2, <1>8, <1>9, <1>10, SumNat DEF Open
<1>12. Y <= e * X
  <2>1. PICK z : z = [t \in T |-> 0]
    OBVIOUS
  <2>2. \A t \in T : z[t] \in Nat /\ R[t] \in Nat /\ D[t] \in Nat /\ 1 * D[t] <= z[t] + e * R[t]
    BY <1>7, <1>10, <2>1
  <2>3. 1 * SumFunctionOnSet(D, T) <= SumFunctionOnSet(z, T) + e * SumFunctionOnSet(R, T)
    BY <1>8, <2>2, SumBound
  <2>4. SumFunctionOnSet(z, T) = 0
    BY <1>8, <2>1, SumZero
  <2>5. e * X \in Nat
    OBVIOUS
  <2>6. QED BY <1>6, <1>11, <2>3, <2>4, <2>5
<1>13. PICK L \in Nat : L = A * o * e /\ L = Limit(s)
  BY <1>3, <1>4 DEF Limit
<1>14. PICK F \in Nat : F = d * Y
  OBVIOUS
<1>15. F <= L
  <2>1. d * Y <= d * (e * X)
    <3>1. PICK x \in Nat : x = e * X
      OBVIOUS
    <3>2. d * Y <= d * x
      BY <1>12, <3>1
    <3>3. QED BY <3>1, <3>2
  <2>2. d * (e * X) = e * (d * X)
    OBVIOUS
  <2>3. e * (d * X) <= e * (A * o)
    <3>1. PICK x \in Nat, y \in Nat : x = d * X /\ y = A * o
      OBVIOUS
    <3>2. e * x <= e * y
      BY <1>6, <3>1
    <3>3. QED BY <3>1, <3>2
  <2>4. e * (A * o) = L
    BY <1>13
  <2>5. QED BY <1>14, <2>1, <2>2, <2>3, <2>4
<1>16. PICK c \in Nat \ {0} : c = d * o
  OBVIOUS
<1>17. PICK m \in Nat : m = L - F
  BY <1>15
<1>18. PICK b \in Nat : b = m \div c /\ b * c <= m /\ m < b * c + c
  BY DivFacts
<1>19. Booked(s) = b
  BY <1>3, <1>11, <1>13, <1>14, <1>16, <1>17, <1>18 DEF Booked
<1>20. \A n \in Nat : d * (o * n + Y) = n * c + F
  BY <1>14, <1>16
<1>21. d * (o * b + Y) <= L
  <2>1. b * c + F <= L
    BY <1>15, <1>17, <1>18
  <2>2. QED BY <1>20, <2>1
<1>22. ASSUME NEW n \in Nat, d * (o * n + Y) <= L PROVE n <= b
  <2>1. n * c + F <= L
    BY <1>20, <1>22
  <2>2. n * c < (b + 1) * c
    <3>1. n * c \in Nat /\ b * c \in Nat /\ (b + 1) * c = b * c + c
      OBVIOUS
    <3>2. QED BY <1>15, <1>17, <1>18, <2>1, <3>1
  <2>3. n < b + 1
    BY <2>2, LessByFactor
  <2>4. QED BY <2>3
<1>23. QED BY <1>3, <1>11, <1>13, <1>19, <1>21, <1>22

LEMMA BookedFactsNext == LpInv' => BookedFact'
<1>1. LpInv => BookedFact
  BY BookedFacts
<1>2. QED BY <1>1, PTL

DueFact ==
  \A s \in Schedule : ValidSchedule(s) =>
    \A t \in DOMAIN pools :
      /\ DueTable(s)[t] \in Nat /\ DueTable(s)[t] = Due(s, pools[t])
      /\ pools[t].last_distributed = now => DueTable(s)[t] = 0

LEMMA DueFacts == LpInv => DueFact
<1> SUFFICES ASSUME LpInv, NEW s \in Schedule, ValidSchedule(s), NEW t \in DOMAIN pools
             PROVE  /\ DueTable(s)[t] \in Nat /\ DueTable(s)[t] = Due(s, pools[t])
                    /\ pools[t].last_distributed = now => DueTable(s)[t] = 0
  BY DEF DueFact
<1>1. ConfigType /\ PoolsType
  BY TypeParts DEF LpInv
<1>2. PICK p \in PoolInfo : p = pools[t] /\ p.last_distributed <= now
  BY <1>1 DEF PoolsType
<1>3. Due(s, p) \in Nat /\ (p.last_distributed = now => Due(s, p) = 0)
  BY <1>1, <1>2, ShareFacts
<1>4. DueTable(s)[t] = Due(s, p)
  BY <1>2 DEF DueTable
<1>5. QED BY <1>2, <1>3, <1>4

LEMMA DueFactsNext == LpInv' => DueFact'
<1>1. LpInv => DueFact
  BY DueFacts
<1>2. QED BY <1>1, PTL

\* A step that takes no time, brings the pools of P up to now, and leaves the time and the
\* weight of the others.
SomeBrought(P) ==
  /\ now' = now
  /\ DOMAIN pools \subseteq DOMAIN pools'
  /\ \A t \in DOMAIN pools' : t \in P \/ t \notin DOMAIN pools => pools'[t].last_distributed = now
  /\ \A t \in DOMAIN pools \ P :
       /\ total_weight' = total_weight /\ pools'[t].weight = pools[t].weight
       /\ pools'[t].last_distributed = pools[t].last_distributed

LEMMA BookedGrows ==
  ASSUME LpInv, LpInv', NEW P \in SUBSET DOMAIN pools, SomeBrought(P),
         NEW s \in Schedule, ValidSchedule(s), NEW X, X = [t \in P |-> Share(s, pools[t])]
  PROVE  /\ \A t \in P : X[t] \in Nat
         /\ SumFunctionOnSet(X, P) \in Nat
         /\ Booked(s) + SumFunctionOnSet(X, P) <= Booked(s)'
<1>1. ConfigType /\ PoolsType
  BY TypeParts DEF LpInv
<1>2. PICK T : T = DOMAIN pools
  OBVIOUS
<1>3. PICK U : U = DOMAIN pools'
  OBVIOUS
<1>4. IsFiniteSet(T) /\ IsFiniteSet(U) /\ T \subseteq U /\ P \subseteq T
  <2>1. PoolsType'
    BY TypePartsNext DEF LpInv
  <2>2. U \subseteq Tokens
    BY <1>3, <2>1 DEF PoolsType
  <2>3. QED BY <1>2, <1>3, <2>2, WeightsAre, FS_Subset, LpAssumption DEF SomeBrought
<1>5. PICK D : D = DueTable(s)
  OBVIOUS
<1>6. PICK E : E = DueTable(s)'
  OBVIOUS
<1>7. /\ \A t \in T : D[t] \in Nat /\ D[t] = Due(s, pools[t])
      /\ \A t \in U : E[t] \in Nat
  <2>1. DueFact /\ DueFact'
    BY DueFacts, DueFactsNext
  <2>2. QED BY <1>2, <1>3, <1>5, <1>6, <2>1 DEF DueFact
<1>8. \A t \in U \ (T \ P) : E[t] = 0
  <2>1. ASSUME NEW t \in U \ (T \ P) PROVE E[t] = 0
    <3>1. t \in DOMAIN pools' /\ pools'[t].last_distributed = now'
      BY <1>2, <1>3, <2>1 DEF SomeBrought
    <3>2. DueFact'
      BY DueFactsNext
    <3>3. QED BY <1>6, <3>1, <3>2 DEF DueFact
  <2>2. QED BY <2>1
<1>9. \A t \in T \ P : E[t] = D[t]
  <2>1. ASSUME NEW t \in T \ P PROVE E[t] = D[t]
    <3>1. PICK p \in PoolInfo : p = pools[t]
      BY <1>1, <1>2 DEF PoolsType
    <3>2. PICK q : q = pools'[t]
      OBVIOUS
    <3>3. q.last_distributed = p.last_distributed /\ q.weight = p.weight
          /\ total_weight' = total_weight /\ now' = now
      BY <1>2, <3>1, <3>2 DEF SomeBrought
    <3>4. E[t] = Due(s, pools[t])'
      BY <1>3, <1>4, <1>6 DEF DueTable
    <3>5. Due(s, pools[t])' = Due(s, pools[t])
      BY <3>1, <3>2, <3>3 DEF Due, Counted, RateOf, Applies
    <3>6. QED BY <1>7, <3>4, <3>5
  <2>2. QED BY <2>1
<1>10. \A t \in P : X[t] \in Nat /\ ONE * X[t] <= D[t]
  <2>1. ASSUME NEW t \in P PROVE X[t] \in Nat /\ ONE * X[t] <= D[t]
    <3>1. PICK p \in PoolInfo : p = pools[t] /\ p.last_distributed <= now
      BY <1>1, <1>2, <1>4 DEF PoolsType
    <3>2. Share(s, p) \in Nat /\ ONE * Share(s, p) <= Due(s, p)
      BY <1>1, <3>1, ShareFacts
    <3>3. X[t] = Share(s, p) /\ D[t] = Due(s, p)
      BY <1>4, <1>7, <3>1
    <3>4. QED BY <3>2, <3>3
  <2>2. QED BY <2>1
<1>11. IsFiniteSet(P) /\ IsFiniteSet(T \ P) /\ IsFiniteSet(U \ (T \ P))
  BY <1>4, FS_Subset
<1>12. PICK x \in Nat : x = SumFunctionOnSet(X, P)
  BY <1>10, <1>11, SumNat
<1>13. PICK a \in Nat, b \in Nat : a = SumFunctionOnSet(D, P) /\ b = SumFunctionOnSet(D, T \ P)
  BY <1>4, <1>7, <1>11, SumNat
<1>14. Open(s) = a + b
  <2>1. SumFunctionOnSet(D, T) = SumFunctionOnSet(D, P) + SumFunctionOnSet(D, T \ P)
    BY <1>4, <1>7, SumSplit
  <2>2. QED BY <1>2, <1>5, <1>13, <2>1 DEF Open
<1>15. Open(s)' = b
  <2>1. T \ P \subseteq U
    BY <1>4
  <2>2. SumFunctionOnSet(E, U) = SumFunctionOnSet(E, T \ P) + SumFunctionOnSet(E, U \ (T \ P))
    BY <1>4, <1>7, <2>1, SumSplit
  <2>3. SumFunctionOnSet(E, U \ (T \ P)) = 0
    BY <1>8, <1>11, SumZero
  <2>4. SumFunctionOnSet(E, T \ P) = b
    <3>1. \A t \in T \ P : D[t] \in Nat /\ E[t] = D[t]
      BY <1>7, <1>9
    <3>2. QED BY <1>11, <1>13, <3>1, SumEqual
  <2>5. QED BY <1>3, <1>6, <2>2, <2>3, <2>4 DEF Open
<1>16. ONE * x <= a
  <2>1. PICK z : z = [t \in P |-> 0]
    OBVIOUS
  <2>2. ONE \in Nat /\ 0 \in Nat
    BY OnePos
  <2>3. \A t \in P : D[t] \in Nat /\ z[t] \in Nat /\ X[t] \in Nat /\ ONE * X[t] <= D[t] + 0 * z[t]
    BY <1>4, <1>7, <1>10, <2>1
  <2>4. ONE * SumFunctionOnSet(X, P) <= SumFunctionOnSet(D, P) + 0 * SumFunctionOnSet(z, P)
    BY <1>11, <2>2, <2>3, SumBound
  <2>5. SumFunctionOnSet(z, P) = 0
    BY <1>11, <2>1, SumZero
  <2>6. QED BY <1>12, <1>13, <2>4, <2>5
<1>17. PICK d \in Nat, o \in Nat : d = s.end - s.start /\ o = ONE
  <2>1. s.end - s.start \in Nat
    BY DEF Schedule, ValidSchedule
  <2>2. QED BY <2>1, OnePos
<1>18. PICK L \in Nat, c \in Nat : /\ L = Limit(s) /\ c = Booked(s) /\ d * (o * c + (a + b)) <= L
  BY <1>14, <1>17, BookedFacts DEF BookedFact
<1>19. Limit(s)' = L
  BY <1>18 DEF Limit, Elapsed, SomeBrought
<1>20. \A n \in Nat : d * (o * n + b) <= L => n <= Booked(s)'
  <2>1. BookedFact'
    BY BookedFactsNext
  <2>2. \A n \in Nat : (s.end - s.start) * (ONE * n + Open(s)') <= Limit(s)' => n <= Booked(s)'
    BY <2>1 DEF BookedFact
  <2>3. QED BY <1>15, <1>17, <1>19, <2>2
<1>21. d * (o * (c + x) + b) <= L
  <2>1. PICK g \in Nat, h \in Nat : g = o * c /\ h = o * x
    OBVIOUS
  <2>2. o * (c + x) = g + h
    BY <2>1
  <2>3. g + h + b <= g + (a + b)
    BY <1>16, <1>17, <2>1
  <2>4. PICK k \in Nat, l \in Nat : k = g + h + b /\ l = g + (a + b)
    OBVIOUS
  <2>5. d * k <= d * l
    BY <2>3, <2>4
  <2>6. d * l <= L
    BY <1>18, <2>1, <2>4
  <2>7. QED BY <2>2, <2>4, <2>5, <2>6
<1>22. c + x \in Nat
  OBVIOUS
<1>23. c + x <= Booked(s)'
  BY <1>20, <1>21, <1>22
<1>24. QED BY <1>10, <1>12, <1>18, <1>23

\* Time that passes is released before it is counted: no pool counts more than has passed.
LEMMA BookedStays ==
  ASSUME LpInv, LpInv', EndBlock, NEW s \in Schedule, ValidSchedule(s)
  PROVE  Booked(s) <= Booked(s)'
<1>1. ConfigType /\ PoolsType
  BY TypeParts DEF LpInv
<1>2. now' = now + 1 /\ pools' = pools /\ total_weight' = total_weight
  BY DEF EndBlock, configVars
<1>3. PICK T : T = DOMAIN pools
  OBVIOUS
<1>4. IsFiniteSet(T)
  BY <1>3, WeightsAre
<1>5. /\ s.start \in Nat /\ s.end \in Nat /\ s.start < s.end /\ now \in Nat
  BY <1>1 DEF Schedule, ValidSchedule, ConfigType
<1>6. PICK e \in Nat, f \in Nat : e = Elapsed(s) /\ f = Elapsed(s)' /\ e <= f
  BY <1>2, <1>5 DEF Elapsed, smaller
<1>7. PICK v \in Nat : v = f - e
  BY <1>6
<1>8. PICK R : R = [t \in DOMAIN pools |-> RateOf(s, pools[t])]
  OBVIOUS
<1>9. PICK A \in Nat, d \in Nat, o \in Nat : A = s.amount /\ d = s.end - s.start /\ o = ONE
  <2>1. s.amount \in Nat /\ s.end - s.start \in Nat
    BY DEF Schedule, ValidSchedule
  <2>2. QED BY <2>1, OnePos
<1>10. PICK X \in Nat : X = SumFunctionOnSet(R, T) /\ d * X <= A * o
  BY <1>3, <1>8, <1>9, RatesWithin
<1>11. \A t \in T : R[t] \in Nat
  BY <1>3, <1>8, RatesWithin
<1>12. PICK D : D = DueTable(s)
  OBVIOUS
<1>13. PICK E : E = DueTable(s)'
  OBVIOUS
<1>14. /\ \A t \in T : D[t] \in Nat /\ D[t] = Due(s, pools[t])
       /\ \A t \in T : E[t] \in Nat
  <2>1. DueFact /\ DueFact'
    BY DueFacts, DueFactsNext
  <2>2. QED BY <1>2, <1>3, <1>12, <1>13, <2>1 DEF DueFact
<1>15. ASSUME NEW t \in T PROVE E[t] <= D[t] + v * R[t]
  <2>1. PICK p \in PoolInfo : p = pools[t] /\ p.last_distributed <= now
    BY <1>1, <1>3 DEF PoolsType
  <2>2. PICK c \in Nat : c = Counted(s, p)
    BY <1>1, <2>1, CountedFacts
  <2>3. p.last_distributed \in Nat
    BY DEF PoolInfo
  <2>4. PICK k \in Nat : k = Counted(s, p)' /\ k <= c + v
    <3>1. Counted(s, p)' = IF s.start <= now + 1 /\ s.end >= p.last_distributed
                           THEN smaller(s.end, now + 1) - later(s.start, p.last_distributed)
                           ELSE 0
      BY <1>2 DEF Counted, Applies
    <3>2. Counted(s, p) = IF s.start <= now /\ s.end >= p.last_distributed
                          THEN smaller(s.end, now) - later(s.start, p.last_distributed)
                          ELSE 0
      BY DEF Counted, Applies
    <3>3. f = IF s.start > now + 1 THEN 0 ELSE smaller(s.end, now + 1) - s.start
      BY <1>2, <1>6 DEF Elapsed
    <3>4. e = IF s.start > now THEN 0 ELSE smaller(s.end, now) - s.start
      BY <1>6 DEF Elapsed
    <3>5. QED BY <1>5, <1>7, <2>1, <2>2, <2>3, <3>1, <3>2, <3>3, <3>4 DEF smaller, later
  <2>5. PICK r \in Nat : r = R[t] /\ r = RateOf(s, p)
    BY <1>3, <1>8, <1>11, <2>1
  <2>6. RateOf(s, p)' = r
    BY <1>2, <2>5 DEF RateOf
  <2>7. D[t] = c * r
    BY <1>14, <2>1, <2>2, <2>5 DEF Due
  <2>8. E[t] = k * r
    <3>1. E[t] = Due(s, pools[t])'
      BY <1>2, <1>3, <1>13 DEF DueTable
    <3>2. Due(s, pools[t])' = Counted(s, p)' * RateOf(s, p)'
      BY <1>2, <2>1 DEF Due, Counted, RateOf, Applies
    <3>3. QED BY <2>4, <2>6, <3>1, <3>2
  <2>9. k * r <= (c + v) * r /\ (c + v) * r = c * r + v * r
    BY <2>4
  <2>10. QED BY <2>5, <2>7, <2>8, <2>9
<1>16. PICK a \in Nat, b \in Nat : a = SumFunctionOnSet(D, T) /\ b = SumFunctionOnSet(E, T)
  BY <1>4, <1>14, SumNat
<1>17. b <= a + v * X
  <2>1. \A t \in T : D[t] \in Nat /\ R[t] \in Nat /\ E[t] \in Nat /\ 1 * E[t] <= D[t] + v * R[t]
    BY <1>11, <1>14, <1>15
  <2>2. 1 * SumFunctionOnSet(E, T) <= SumFunctionOnSet(D, T) + v * SumFunctionOnSet(R, T)
    BY <1>4, <2>1, SumBound
  <2>3. QED BY <1>10, <1>16, <2>2
<1>18. Open(s) = a /\ Open(s)' = b
  BY <1>2, <1>3, <1>12, <1>13, <1>16 DEF Open
<1>19. PICK L \in Nat, c \in Nat : L = Limit(s) /\ c = Booked(s) /\ d * (o * c + a) <= L
  BY <1>9, <1>18, BookedFacts DEF BookedFact
<1>20. L = A * o * e /\ Limit(s)' = A * o * f
  BY <1>6, <1>9, <1>19 DEF Limit
<1>21. d * (o * c + b) <= A * o * f
  <2>1. PICK g \in Nat, h \in Nat, w \in Nat : g = o * c /\ h = v * X /\ w = A * o
    OBVIOUS
  <2>2. d * (g + b) <= d * (g + a + h)
    <3>1. PICK k \in Nat, l \in Nat : k = g + b /\ l = g + a + h
      OBVIOUS
    <3>2. k <= l
      BY <1>17, <2>1, <3>1
    <3>3. d * k <= d * l
      BY <3>2
    <3>4. QED BY <3>1, <3>3
  <2>3. d * (g + a + h) = d * (g + a) + d * h
    OBVIOUS
  <2>4. d * h <= w * v
    <3>1. PICK k \in Nat : k = d * X
      OBVIOUS
    <3>2. k * v <= w * v
      BY <1>10, <2>1, <3>1
    <3>3. d * h = k * v
      BY <2>1, <3>1
    <3>4. QED BY <3>2, <3>3
  <2>5. d * (g + a) <= w * e
    BY <1>19, <1>20, <2>1
  <2>6. w * e + w * v = w * f
    BY <1>6, <1>7
  <2>7. d * (g + a) \in Nat /\ d * h \in Nat /\ w * e \in Nat /\ w * v \in Nat /\ w * f \in Nat
    OBVIOUS
  <2>8. d * (g + b) <= w * f
    BY <2>2, <2>3, <2>4, <2>5, <2>6, <2>7
  <2>9. QED BY <2>1, <2>8
<1>22. \A n \in Nat : d * (o * n + b) <= A * o * f => n <= Booked(s)'
  <2>1. BookedFact'
    BY BookedFactsNext
  <2>2. \A n \in Nat : (s.end - s.start) * (ONE * n + Open(s)') <= Limit(s)' => n <= Booked(s)'
    BY <2>1 DEF BookedFact
  <2>3. QED BY <1>9, <1>18, <1>20, <2>2
<1>23. QED BY <1>19, <1>21, <1>22

\* What was booked of all schedules, and what a step that brings pools up to now books.
BookedTable == [i \in DOMAIN distribution_schedule |-> Booked(distribution_schedule[i])]
BookedSum == SumFunctionOnSet(BookedTable, DOMAIN distribution_schedule)
GainTable == [t \in DOMAIN pools |->
                SumFunctionOnSet([i \in DOMAIN distribution_schedule |->
                                    Share(distribution_schedule[i], pools[t])],
                                 DOMAIN distribution_schedule)]

BookedSumFact ==
  /\ IsFiniteSet(DOMAIN distribution_schedule)
  /\ \A i \in DOMAIN distribution_schedule :
       /\ distribution_schedule[i] \in Schedule /\ ValidSchedule(distribution_schedule[i])
       /\ BookedTable[i] \in Nat /\ BookedTable[i] = Booked(distribution_schedule[i])
  /\ BookedSum \in Nat

LEMMA BookedSumFacts == LpInv => BookedSumFact
<1> SUFFICES ASSUME LpInv PROVE BookedSumFact
  OBVIOUS
<1>1. ConfigType
  BY TypeParts DEF LpInv
<1>2. IsFiniteSet(DOMAIN distribution_schedule)
  <2>1. PICK n \in Nat : DOMAIN distribution_schedule = 1..n
    BY <1>1 DEF ConfigType
  <2>2. QED BY <2>1, FS_Interval
<1>3. ASSUME NEW i \in DOMAIN distribution_schedule
      PROVE  /\ distribution_schedule[i] \in Schedule /\ ValidSchedule(distribution_schedule[i])
             /\ BookedTable[i] \in Nat /\ BookedTable[i] = Booked(distribution_schedule[i])
  <2>1. PICK s \in Schedule : s = distribution_schedule[i] /\ ValidSchedule(s)
    BY <1>1 DEF ConfigType
  <2>2. Booked(s) \in Nat
    BY <2>1, BookedFacts DEF BookedFact
  <2>3. QED BY <2>1, <2>2 DEF BookedTable
<1>4. BookedSum \in Nat
  BY <1>2, <1>3, SumNat DEF BookedSum
<1>5. QED BY <1>2, <1>3, <1>4 DEF BookedSumFact

LEMMA BookedSumFactsNext == LpInv' => BookedSumFact'
<1>1. LpInv => BookedSumFact
  BY BookedSumFacts
<1>2. QED BY <1>1, PTL

LEMMA BookedSumGrows ==
  ASSUME LpInv, LpInv', NEW P \in SUBSET DOMAIN pools, SomeBrought(P),
         distribution_schedule' = distribution_schedule
  PROVE  /\ \A t \in P : GainTable[t] \in Nat
         /\ SumFunctionOnSet(GainTable, P) \in Nat
         /\ BookedSum + SumFunctionOnSet(GainTable, P) <= BookedSum'
<1>1. ConfigType /\ PoolsType
  BY TypeParts DEF LpInv
<1>2. PICK S : S = DOMAIN distribution_schedule
  OBVIOUS
<1>3. PICK c : c = distribution_schedule
  OBVIOUS
<1>4. BookedSumFact /\ BookedSumFact'
  BY BookedSumFacts, BookedSumFactsNext
<1>5. /\ IsFiniteSet(S) /\ \A i \in S : c[i] \in Schedule /\ ValidSchedule(c[i])
  BY <1>2, <1>3, <1>4 DEF BookedSumFact
<1>6. PICK f : f = [i \in S |-> [t \in P |-> Share(c[i], pools[t])]]
  OBVIOUS
<1>7. PICK g : g = [t \in P |-> [i \in S |-> Share(c[i], pools[t])]]
  OBVIOUS
<1>8. PICK r : r = [i \in S |-> SumFunctionOnSet(f[i], P)]
  OBVIOUS
<1>9. PICK b : b = BookedTable
  OBVIOUS
<1>10. PICK h : h = BookedTable'
  OBVIOUS
<1>11. ASSUME NEW i \in S
       PROVE  /\ \A t \in P : f[i][t] \in Nat
              /\ b[i] \in Nat /\ h[i] \in Nat /\ r[i] \in Nat /\ b[i] + r[i] <= h[i]
  <2>1. PICK s \in Schedule : s = c[i] /\ ValidSchedule(s)
    BY <1>5
  <2>2. PICK X : X = [t \in P |-> Share(s, pools[t])]
    OBVIOUS
  <2>3. f[i] = X /\ r[i] = SumFunctionOnSet(X, P)
    BY <1>6, <1>8, <2>1, <2>2
  <2>4. /\ \A t \in P : X[t] \in Nat
        /\ SumFunctionOnSet(X, P) \in Nat
        /\ Booked(s) + SumFunctionOnSet(X, P) <= Booked(s)'
    BY <2>1, <2>2, BookedGrows
  <2>5. b[i] \in Nat /\ b[i] = Booked(s)
    BY <1>2, <1>3, <1>4, <1>9, <2>1 DEF BookedSumFact
  <2>6. h[i] \in Nat /\ h[i] = Booked(s)'
    <3>1. i \in DOMAIN distribution_schedule' /\ distribution_schedule'[i] = s
      BY <1>2, <1>3, <2>1
    <3>2. h[i] \in Nat /\ h[i] = Booked(distribution_schedule[i])'
      BY <1>4, <1>10, <3>1 DEF BookedSumFact
    <3>3. Booked(distribution_schedule[i])' = Booked(s)'
      BY <3>1 DEF Booked, Limit, Elapsed, Open, DueTable, Due, Counted, RateOf, Applies
    <3>4. QED BY <3>2, <3>3
  <2>7. QED BY <2>3, <2>4, <2>5, <2>6
<1>12. IsFiniteSet(P)
  BY WeightsAre, FS_Subset
<1>13. \A t \in P : GainTable[t] = SumFunctionOnSet(g[t], S)
  <2>1. ASSUME NEW t \in P PROVE GainTable[t] = SumFunctionOnSet(g[t], S)
    <3>1. t \in DOMAIN pools /\ g[t] = [i \in S |-> Share(c[i], pools[t])]
      BY <1>7
    <3>2. QED BY <1>2, <1>3, <3>1 DEF GainTable
  <2>2. QED BY <2>1
<1>14. \A i \in S, t \in P : f[i][t] \in Nat /\ g[t][i] = f[i][t]
  BY <1>6, <1>7, <1>11
<1>15. \A t \in P : GainTable[t] \in Nat
  <2>1. ASSUME NEW t \in P PROVE GainTable[t] \in Nat
    <3>1. \A i \in S : g[t][i] \in Nat
      BY <1>14
    <3>2. SumFunctionOnSet(g[t], S) \in Nat
      BY <1>5, <3>1, SumNat
    <3>3. QED BY <1>13, <3>2
  <2>2. QED BY <2>1
<1>16. PICK G : G = GainTable
  OBVIOUS
<1>17. SumFunctionOnSet(r, S) = SumFunctionOnSet(G, P)
  <2>1. \A i \in S : r[i] = SumFunctionOnSet(f[i], P)
    BY <1>8
  <2>2. \A t \in P : G[t] = SumFunctionOnSet(g[t], S)
    BY <1>13, <1>16
  <2>3. Table(S, P, f, g, r, G)
    BY ONLY <1>14, <2>1, <2>2 DEF Table
  <2>4. QED BY <1>5, <1>12, <2>3, SumSwap
<1>18. SumFunctionOnSet(G, P) \in Nat
  BY <1>12, <1>15, <1>16, SumNat
<1>19. PICK k : k = [i \in S |-> b[i] + r[i]]
  OBVIOUS
<1>20. SumFunctionOnSet(k, S) = SumFunctionOnSet(b, S) + SumFunctionOnSet(r, S)
  <2>1. \A i \in S : b[i] \in Nat /\ r[i] \in Nat /\ k[i] = b[i] + r[i]
    BY <1>11, <1>19
  <2>2. QED BY <1>5, <2>1, SumAdd
<1>21. SumFunctionOnSet(k, S) <= SumFunctionOnSet(h, S)
  <2>1. PICK z : z = [i \in S |-> 0]
    OBVIOUS
  <2>2. \A i \in S : h[i] \in Nat /\ z[i] \in Nat /\ k[i] \in Nat /\ 1 * k[i] <= h[i] + 0 * z[i]
    BY <1>11, <1>19, <2>1
  <2>3. 1 * SumFunctionOnSet(k, S) <= SumFunctionOnSet(h, S) + 0 * SumFunctionOnSet(z, S)
    BY <1>5, <2>2, SumBound
  <2>4. /\ SumFunctionOnSet(k, S) \in Nat /\ SumFunctionOnSet(h, S) \in Nat
        /\ SumFunctionOnSet(z, S) \in Nat
    BY <1>5, <2>2, SumNat
  <2>5. QED BY <2>3, <2>4
<1>22. BookedSum = SumFunctionOnSet(b, S) /\ BookedSum' = SumFunctionOnSet(h, S)
  BY <1>2, <1>9, <1>10 DEF BookedSum
<1>23. QED BY <1>15, <1>16, <1>17, <1>18, <1>20, <1>21, <1>22

\* A block's end books nothing, and a new schedule has nothing to book.
LEMMA BookedSumStays ==
  ASSUME LpInv, LpInv',
         \/ EndBlock
         \/ \E o \in Owners, s \in Schedules : add_distribution_schedule(o, s)
  PROVE  BookedSum <= BookedSum'
<1>1. ConfigType /\ PoolsType
  BY TypeParts DEF LpInv
<1>2. PICK S : S = DOMAIN distribution_schedule
  OBVIOUS
<1>3. PICK V : V = DOMAIN distribution_schedule'
  OBVIOUS
<1>4. BookedSumFact /\ BookedSumFact'
  BY BookedSumFacts, BookedSumFactsNext
<1>5. S \subseteq V /\ \A i \in S : distribution_schedule'[i] = distribution_schedule[i]
  <2>1. CASE EndBlock
    BY <1>2, <1>3, <2>1 DEF EndBlock, configVars
  <2>2. CASE \E o \in Owners, s \in Schedules : add_distribution_schedule(o, s)
    <3>1. PICK s \in Schedule : distribution_schedule' = Append(distribution_schedule, s)
      BY <2>2, LpAssumption DEF add_distribution_schedule
    <3>2. QED BY <1>1, <1>2, <1>3, <3>1 DEF ConfigType
  <2>3. QED BY <2>1, <2>2
<1>6. IsFiniteSet(V) /\ IsFiniteSet(S) /\ IsFiniteSet(V \ S)
  BY <1>2, <1>3, <1>4, FS_Subset DEF BookedSumFact
<1>7. PICK b : b = BookedTable
  OBVIOUS
<1>8. PICK h : h = BookedTable'
  OBVIOUS
<1>9. ASSUME NEW i \in S PROVE b[i] \in Nat /\ h[i] \in Nat /\ b[i] <= h[i]
  <2>1. PICK s \in Schedule : s = distribution_schedule[i] /\ ValidSchedule(s)
    BY <1>2, <1>4 DEF BookedSumFact
  <2>2. b[i] \in Nat /\ b[i] = Booked(s)
    BY <1>2, <1>4, <1>7, <2>1 DEF BookedSumFact
  <2>3. h[i] \in Nat /\ h[i] = Booked(s)'
    <3>1. i \in DOMAIN distribution_schedule' /\ distribution_schedule'[i] = s
      BY <1>3, <1>5, <2>1
    <3>2. h[i] \in Nat /\ h[i] = Booked(distribution_schedule[i])'
      BY <1>4, <1>8, <3>1 DEF BookedSumFact
    <3>3. Booked(distribution_schedule[i])' = Booked(s)'
      BY <3>1 DEF Booked, Limit, Elapsed, Open, DueTable, Due, Counted, RateOf, Applies
    <3>4. QED BY <3>2, <3>3
  <2>4. Booked(s) <= Booked(s)'
    <3>1. CASE EndBlock
      BY <2>1, <3>1, BookedStays
    <3>2. CASE \E o \in Owners, q \in Schedules : add_distribution_schedule(o, q)
      <4>1. UNCHANGED <<pools, now, total_weight>>
        BY <3>2 DEF add_distribution_schedule
      <4>2. Booked(s)' = Booked(s)
        BY <4>1 DEF Booked, Limit, Elapsed, Open, DueTable, Due, Counted, RateOf, Applies
      <4>3. QED BY <2>2, <4>2
    <3>3. QED BY <3>1, <3>2
  <2>5. QED BY <2>2, <2>3, <2>4
<1>10. \A i \in V : h[i] \in Nat
  BY <1>3, <1>4, <1>8 DEF BookedSumFact
<1>11. SumFunctionOnSet(h, V) = SumFunctionOnSet(h, S) + SumFunctionOnSet(h, V \ S)
  BY <1>5, <1>6, <1>10, SumSplit
<1>12. SumFunctionOnSet(h, V \ S) \in Nat
  BY <1>6, <1>10, SumNat
<1>13. SumFunctionOnSet(b, S) <= SumFunctionOnSet(h, S)
  <2>1. PICK z : z = [i \in S |-> 0]
    OBVIOUS
  <2>2. \A i \in S : h[i] \in Nat /\ z[i] \in Nat /\ b[i] \in Nat /\ 1 * b[i] <= h[i] + 0 * z[i]
    BY <1>9, <2>1
  <2>3. 1 * SumFunctionOnSet(b, S) <= SumFunctionOnSet(h, S) + 0 * SumFunctionOnSet(z, S)
    BY <1>6, <2>2, SumBound
  <2>4. /\ SumFunctionOnSet(b, S) \in Nat /\ SumFunctionOnSet(h, S) \in Nat
        /\ SumFunctionOnSet(z, S) \in Nat
    BY <1>6, <2>2, SumNat
  <2>5. QED BY <2>3, <2>4
<1>14. SumFunctionOnSet(h, S) \in Nat /\ SumFunctionOnSet(b, S) \in Nat
  BY <1>6, <1>9, SumNat
<1>15. BookedSum = SumFunctionOnSet(b, S) /\ BookedSum' = SumFunctionOnSet(h, V)
  BY <1>2, <1>3, <1>7, <1>8 DEF BookedSum
<1>16. QED BY <1>11, <1>12, <1>13, <1>14, <1>15

\* What a staker has of a pool at an index, and what a pool has for all, in units of 1/ONE.
Worth(u, t, i) ==
  ONE * Record(u, t).pending_reward
    + (Record(u, t).bond_amount * i - ONE * mul(Record(u, t).bond_amount, Record(u, t).reward_index))
WorthTable(t, i) == [u \in Users |-> Worth(u, t, i)]
WorthSum(t, i) == SumFunctionOnSet(WorthTable(t, i), Users)
ValueTable == [t \in DOMAIN pools |->
                 WorthSum(t, pools[t].reward_index) + ONE * pools[t].pending_reward]
ValueSum == SumFunctionOnSet(ValueTable, DOMAIN pools)

\* No reward that was paid, is recorded, has accrued or waits for a bond was booked twice.
Books == ONE * (Funding - prism) + ValueSum <= ONE * BookedSum + ONE * rebonds

WorthNat ==
  /\ \A u \in Users, t \in DOMAIN pools, i \in Nat :
       i >= pools[t].reward_index => Worth(u, t, i) \in Nat
  /\ \A t \in DOMAIN pools, i \in Nat : i >= pools[t].reward_index => WorthSum(t, i) \in Nat
  /\ \A t \in DOMAIN pools :
       /\ pools[t].pending_reward \in Nat /\ pools[t].reward_index \in Nat
       /\ ValueTable[t] \in Nat
       /\ ValueTable[t] = WorthSum(t, pools[t].reward_index) + ONE * pools[t].pending_reward
  /\ IsFiniteSet(DOMAIN pools)
  /\ ValueSum \in Nat

LEMMA WorthIsNat == LpInv => WorthNat
<1> SUFFICES ASSUME LpInv PROVE WorthNat
  OBVIOUS
<1>1. TypeOK
  BY DEF LpInv
<1>2. ASSUME NEW u \in Users, NEW t \in DOMAIN pools, NEW i \in Nat, i >= pools[t].reward_index
      PROVE  Worth(u, t, i) \in Nat
  <2>1. PICK r \in RewardInfo : r = Record(u, t) /\ r.reward_index <= pools[t].reward_index
    BY <1>1, RecordIs
  <2>2. PICK b \in Nat, p \in Nat, j \in Nat, o \in Nat :
          b = r.bond_amount /\ p = r.pending_reward /\ j = r.reward_index /\ o = ONE
    BY OnePos DEF RewardInfo
  <2>3. j <= i
    <3>1. pools[t].reward_index \in Nat
      BY <1>1 DEF TypeOK, PoolInfo
    <3>2. QED BY <1>2, <2>1, <2>2, <3>1
  <2>4. ONE * mul(b, j) \in Nat /\ ONE * mul(b, j) <= b * j
    BY MulRest
  <2>5. b * j <= b * i /\ b * i \in Nat /\ b * j \in Nat /\ o * p \in Nat
    BY <2>3
  <2>6. PICK m \in Nat : m = ONE * mul(b, j)
    BY <2>4
  <2>7. o * p + (b * i - m) \in Nat
    BY <2>4, <2>5, <2>6
  <2>8. Worth(u, t, i) = o * p + (b * i - m)
    BY <2>1, <2>2, <2>6 DEF Worth
  <2>9. QED BY <2>7, <2>8
<1>3. ASSUME NEW t \in DOMAIN pools, NEW i \in Nat, i >= pools[t].reward_index
      PROVE  WorthSum(t, i) \in Nat
  <2>1. PICK w : w = WorthTable(t, i)
    OBVIOUS
  <2>2. \A u \in Users : w[u] \in Nat
    BY <1>2, <1>3, <2>1 DEF WorthTable
  <2>3. QED BY <2>1, <2>2, SumNat, LpAssumption DEF WorthSum
<1>4. ASSUME NEW t \in DOMAIN pools
      PROVE  /\ pools[t].pending_reward \in Nat /\ pools[t].reward_index \in Nat
             /\ ValueTable[t] \in Nat
             /\ ValueTable[t] = WorthSum(t, pools[t].reward_index) + ONE * pools[t].pending_reward
  <2>1. PICK i \in Nat, p \in Nat : i = pools[t].reward_index /\ p = pools[t].pending_reward
    BY <1>1 DEF TypeOK, PoolInfo
  <2>2. WorthSum(t, i) \in Nat
    BY <1>3, <2>1
  <2>3. ONE * p \in Nat
    BY OnePos
  <2>4. ValueTable[t] = WorthSum(t, i) + ONE * p
    BY <2>1 DEF ValueTable
  <2>5. QED BY <2>1, <2>2, <2>3, <2>4
<1>5. IsFiniteSet(DOMAIN pools)
  BY WeightsAre
<1>6. ValueSum \in Nat
  BY <1>4, <1>5, SumNat DEF ValueSum
<1>7. QED BY <1>2, <1>3, <1>4, <1>5, <1>6 DEF WorthNat

LEMMA WorthIsNatNext == LpInv' => WorthNat'
<1>1. LpInv => WorthNat
  BY WorthIsNat
<1>2. QED BY <1>1, PTL

\* What a pool is brought, at the total there is or a higher one, or when it is up to now
\* at any.
LEMMA GainCovers ==
  ASSUME LpInv, NEW t \in DOMAIN pools, NEW n \in Nat, Computable(pools[t], n),
         total_weight <= n \/ pools[t].last_distributed = now
  PROVE  GainTable[t] \in Nat /\ distributed_amount(pools[t], n) <= GainTable[t]
<1>1. ConfigType /\ PoolsType
  BY TypeParts DEF LpInv
<1>2. PICK p \in PoolInfo : p = pools[t] /\ p.last_distributed <= now
  BY <1>1 DEF PoolsType
<1>3. PICK S, c : S = DOMAIN distribution_schedule /\ c = distribution_schedule
  OBVIOUS
<1>4. IsFiniteSet(S) /\ \A i \in S : c[i] \in Schedule /\ ValidSchedule(c[i])
  BY <1>3, BookedSumFacts DEF BookedSumFact
<1>5. total_weight = 0 => p.weight = 0
  <2>1. PICK D, f : D = DOMAIN pools /\ f = WeightTable
    OBVIOUS
  <2>2. IsFiniteSet(D) /\ t \in D /\ (\A x \in D : f[x] \in Nat) /\ f[t] = p.weight
        /\ total_weight = SumFunctionOnSet(f, D)
    BY <1>2, <2>1, WeightsAre
  <2>3. SumFunctionOnSet(f, D) = f[t] + SumFunctionOnSet(f, D \ {t})
    BY ONLY <2>2, SumRemove
  <2>4. SumFunctionOnSet(f, D \ {t}) \in Nat
    BY ONLY <2>2, FS_Subset, SumNat
  <2>5. QED BY <2>2, <2>3, <2>4
<1>6. PICK f : f = [i \in S |-> IF Applies(c[i], p) THEN DistributedBy(c[i], p, n) ELSE 0]
  OBVIOUS
<1>7. PICK g : g = [i \in S |-> Share(c[i], p)]
  OBVIOUS
<1>8. ASSUME NEW i \in S PROVE f[i] \in Nat /\ g[i] \in Nat /\ f[i] <= g[i]
  <2>1. PICK s \in Schedule : s = c[i] /\ ValidSchedule(s)
    BY <1>4
  <2>2. Share(s, p) \in Nat /\ g[i] = Share(s, p)
    BY <1>1, <1>2, <1>7, <2>1, ShareFacts
  <2>3. CASE Applies(s, p)
    <3>1. n # 0
      BY <1>2, <1>3, <2>1, <2>3 DEF Computable
    <3>2. DistributedBy(s, p, n) \in Nat /\ DistributedBy(s, p, n) <= Share(s, p)
      BY <1>1, <1>2, <1>5, <2>1, <2>3, <3>1, ShareCovers
    <3>3. QED BY <1>6, <2>1, <2>2, <2>3, <3>2
  <2>4. CASE ~ Applies(s, p)
    <3>1. f[i] = 0
      BY <1>6, <2>1, <2>4
    <3>2. QED BY <2>2, <3>1
  <2>5. QED BY <2>3, <2>4
<1>9. SumFunctionOnSet(f, S) <= SumFunctionOnSet(g, S)
  <2>1. PICK z : z = [i \in S |-> 0]
    OBVIOUS
  <2>2. \A i \in S : g[i] \in Nat /\ z[i] \in Nat /\ f[i] \in Nat /\ 1 * f[i] <= g[i] + 0 * z[i]
    BY <1>8, <2>1
  <2>3. 1 * SumFunctionOnSet(f, S) <= SumFunctionOnSet(g, S) + 0 * SumFunctionOnSet(z, S)
    BY <1>4, <2>2, SumBound
  <2>4. /\ SumFunctionOnSet(f, S) \in Nat /\ SumFunctionOnSet(g, S) \in Nat
        /\ SumFunctionOnSet(z, S) \in Nat
    BY <1>4, <2>2, SumNat
  <2>5. QED BY <2>3, <2>4
<1>10. SumFunctionOnSet(g, S) \in Nat
  BY <1>4, <1>8, SumNat
<1>11. GainTable[t] = SumFunctionOnSet(g, S)
  BY <1>2, <1>3, <1>7 DEF GainTable
<1>12. distributed_amount(pools[t], n) = SumFunctionOnSet(f, S)
  BY <1>2, <1>3, <1>6 DEF distributed_amount
<1>13. QED BY <1>9, <1>10, <1>11, <1>12

\* Bringing a pool up to now adds no more than what it is brought.
LEMMA UpWorthAt ==
  ASSUME LpInv, NEW t \in DOMAIN pools, NEW n \in Nat, Computable(pools[t], n),
         total_weight <= n \/ pools[t].last_distributed = now,
         NEW e, e = compute_pool_reward(pools[t], n)
  PROVE  /\ e.reward_index \in Nat /\ e.pending_reward \in Nat /\ GainTable[t] \in Nat
         /\ pools[t].reward_index <= e.reward_index
         /\ WorthSum(t, e.reward_index) \in Nat
         /\ WorthSum(t, e.reward_index) + ONE * e.pending_reward
              <= ValueTable[t] + ONE * GainTable[t]
<1>1. TypeOK /\ ConfigType /\ PoolsType /\ Accounted(t)
  BY TypeParts DEF LpInv
<1>2. PICK q \in PoolInfo : q = pools[t] /\ q.last_distributed <= now
  BY <1>1 DEF PoolsType
<1>3. PICK g \in Nat : g = distributed_amount(q, n) /\ g <= GainTable[t] /\ GainTable[t] \in Nat
  BY <1>1, <1>2, DistributedAmountNat, GainCovers
<1>4. PICK B \in Nat, p \in Nat, i \in Nat, o \in Nat \ {0} :
        B = q.total_bond_amount /\ p = q.pending_reward /\ i = q.reward_index /\ o = ONE
  BY OnePos DEF PoolInfo
<1>5. e = compute_pool_reward(q, n)
  BY <1>2
<1>6. WorthNat
  BY WorthIsNat
<1>7. ValueTable[t] = WorthSum(t, i) + o * p /\ WorthSum(t, i) \in Nat
  BY <1>2, <1>4, <1>6 DEF WorthNat
<1>a. PICK h \in Nat : h = GainTable[t] /\ o * g <= o * h /\ o * h \in Nat
  <2>1. PICK h \in Nat : h = GainTable[t]
    BY <1>3
  <2>2. g <= h
    BY <1>3, <2>1
  <2>3. o * g <= o * h /\ o * h \in Nat
    BY ONLY <2>2, o \in Nat, g \in Nat, h \in Nat
  <2>4. QED BY <2>1, <2>3
<1>8. CASE B = 0
  <2>1. e = [q EXCEPT !.last_distributed = now, !.pending_reward = p + g]
    BY <1>3, <1>4, <1>5, <1>8 DEF compute_pool_reward
  <2>2. e.reward_index = i /\ e.pending_reward = p + g
    BY <1>4, <2>1 DEF PoolInfo
  <2>3. o * (p + g) = o * p + o * g /\ o * p \in Nat /\ o * g \in Nat
    OBVIOUS
  <2>4. QED BY <1>2, <1>3, <1>4, <1>7, <1>a, <2>2, <2>3
<1>9. CASE B # 0
  <2>1. PICK a \in Nat : a = p + g
    OBVIOUS
  <2>2. PICK r \in Nat : r = from_ratio(a, B) /\ r * B <= a * o
    BY <1>4, <1>9, RatioNat, RatioRest
  <2>3. e = [q EXCEPT !.last_distributed = now, !.pending_reward = 0, !.reward_index = @ + r]
    BY <1>3, <1>4, <1>5, <1>9, <2>1, <2>2 DEF compute_pool_reward
  <2>4. e.reward_index = i + r /\ e.pending_reward = 0
    BY <1>4, <2>3 DEF PoolInfo
  <2>5. PICK j \in Nat : j = i + r
    OBVIOUS
  <2>6. PICK w : w = WorthTable(t, i)
    OBVIOUS
  <2>7. PICK v : v = WorthTable(t, j)
    OBVIOUS
  <2>8. PICK b : b = BondTable(t)
    OBVIOUS
  <2>9. ASSUME NEW u \in Users
        PROVE  w[u] \in Nat /\ b[u] \in Nat /\ v[u] \in Nat /\ v[u] = w[u] + r * b[u]
    <3>1. w[u] = Worth(u, t, i) /\ v[u] = Worth(u, t, j) /\ b[u] = Record(u, t).bond_amount
      BY <2>6, <2>7, <2>8 DEF WorthTable, BondTable
    <3>2. Worth(u, t, i) \in Nat /\ Worth(u, t, j) \in Nat
      BY <1>2, <1>4, <1>6, <2>5 DEF WorthNat
    <3>3. b[u] \in Nat
      BY <1>1, <2>8, TablesAre
    <3>4. PICK c \in Nat, x \in Nat, y \in Nat, m \in Nat :
            c = b[u] /\ x = Record(u, t).pending_reward /\ y = Record(u, t).reward_index /\ m = mul(c, y)
      BY <1>1, <3>3, RecordIs, MulNat DEF RewardInfo
    <3>5. Worth(u, t, i) = o * x + (c * i - o * m) /\ Worth(u, t, j) = o * x + (c * j - o * m)
      BY <1>4, <3>1, <3>4 DEF Worth
    <3>6. c * j = c * i + r * c
      BY <2>5
    <3>7. o * x + (c * j - o * m) = o * x + (c * i - o * m) + r * c
      BY <3>6
    <3>8. QED BY <3>1, <3>2, <3>3, <3>4, <3>5, <3>7
  <2>10. SumFunctionOnSet(v, Users) <= SumFunctionOnSet(w, Users) + r * SumFunctionOnSet(b, Users)
    <3>1. \A u \in Users : w[u] \in Nat /\ b[u] \in Nat /\ v[u] \in Nat /\ 1 * v[u] <= w[u] + r * b[u]
      BY <2>9
    <3>2. 1 * SumFunctionOnSet(v, Users) <= SumFunctionOnSet(w, Users) + r * SumFunctionOnSet(b, Users)
      BY <3>1, SumBound, LpAssumption
    <3>3. SumFunctionOnSet(v, Users) \in Nat
      BY <2>9, SumNat, LpAssumption
    <3>4. QED BY <3>2, <3>3
  <2>11. SumFunctionOnSet(b, Users) = B
    BY <1>1, <1>2, <1>4, <2>8 DEF Accounted
  <2>12. PICK x \in Nat, y \in Nat : x = WorthSum(t, i) /\ y = WorthSum(t, j)
    BY <1>2, <1>4, <1>6, <2>5 DEF WorthNat
  <2>13. y <= x + r * B
    BY <2>6, <2>7, <2>10, <2>11, <2>12 DEF WorthSum
  <2>14. a * o = o * p + o * g /\ o * p \in Nat /\ o * g \in Nat /\ r * B \in Nat
    BY <2>1
  <2>15. y <= x + o * p + o * g
    BY <2>2, <2>13, <2>14
  <2>16. QED BY <1>2, <1>3, <1>4, <1>7, <1>a, <2>4, <2>5, <2>12, <2>14, <2>15
<1>10. QED BY <1>8, <1>9

LEMMA UpWorth ==
  ASSUME LpInv, NEW t \in DOMAIN pools, Computable(pools[t], total_weight)
  PROVE  /\ Up(t).reward_index \in Nat /\ Up(t).pending_reward \in Nat /\ GainTable[t] \in Nat
         /\ pools[t].reward_index <= Up(t).reward_index
         /\ WorthSum(t, Up(t).reward_index) \in Nat
         /\ WorthSum(t, Up(t).reward_index) + ONE * Up(t).pending_reward
              <= ValueTable[t] + ONE * GainTable[t]
<1>1. total_weight \in Nat /\ total_weight <= total_weight
  BY DEF LpInv, TypeOK
<1>2. PICK e : e = Up(t) /\ e = compute_pool_reward(pools[t], total_weight)
  BY DEF Up
<1>3. QED BY <1>1, <1>2, UpWorthAt

\* The worth of a pool's stakers when one of them changes.
LEMMA WorthFollows ==
  ASSUME LpInv, LpInv', NEW u \in Users, NEW t \in DOMAIN pools, t \in DOMAIN pools',
         NEW i \in Nat, i >= pools[t].reward_index, i >= pools'[t].reward_index,
         \A x \in Users \ {u} : Record(x, t)' = Record(x, t),
         NEW a \in Nat, NEW c \in Nat, Worth(u, t, i)' + a <= Worth(u, t, i) + c
  PROVE  WorthSum(t, i)' + a <= WorthSum(t, i) + c
<1>1. WorthNat /\ WorthNat'
  BY WorthIsNat, WorthIsNatNext
<1>2. PICK w : w = WorthTable(t, i)
  OBVIOUS
<1>3. PICK v : v = WorthTable(t, i)'
  OBVIOUS
<1>4. \A x \in Users : w[x] = Worth(x, t, i) /\ v[x] = Worth(x, t, i)'
  BY <1>2, <1>3 DEF WorthTable
<1>5. \A x \in Users : w[x] \in Nat /\ v[x] \in Nat
  <2>1. ASSUME NEW x \in Users PROVE w[x] \in Nat /\ v[x] \in Nat
    <3>1. Worth(x, t, i) \in Nat /\ Worth(x, t, i)' \in Nat
      BY <1>1 DEF WorthNat
    <3>2. QED BY <1>4, <3>1
  <2>2. QED BY <2>1
<1>6. \A x \in Users \ {u} : v[x] = w[x]
  BY <1>4 DEF Worth
<1>7. SumFunctionOnSet(v, Users) = SumFunctionOnSet(w, Users) - w[u] + v[u]
  BY <1>5, <1>6, SumUpdate, LpAssumption
<1>8. SumFunctionOnSet(w, Users) \in Nat /\ w[u] \in Nat /\ v[u] \in Nat
  BY <1>5, SumNat, LpAssumption
<1>9. WorthSum(t, i) = SumFunctionOnSet(w, Users) /\ WorthSum(t, i)' = SumFunctionOnSet(v, Users)
  BY <1>2, <1>3 DEF WorthSum
<1>10. v[u] + a <= w[u] + c
  BY <1>4
<1>11. QED BY <1>7, <1>8, <1>9, <1>10

\* What a staker earns, in full, of a pool that can be computed.
LEMMA EarnedPending ==
  ASSUME LpInv, NEW u \in Users, NEW t \in DOMAIN pools
  PROVE  Earned(u, t).pending_reward
           = Record(u, t).pending_reward
               + (mul(Record(u, t).bond_amount, Up(t).reward_index)
                    - mul(Record(u, t).bond_amount, Record(u, t).reward_index))
<1>1. TypeOK
  BY DEF LpInv
<1>2. PICK i \in RewardInfo : i = Pulled(u, t)
  BY <1>1, PulledIs
<1>3. /\ i.pending_reward = Record(u, t).pending_reward
      /\ i.bond_amount = Record(u, t).bond_amount /\ i.reward_index = Record(u, t).reward_index
  BY <1>1, <1>2, PulledIs
<1>4. PICK q : q = Up(t)
  OBVIOUS
<1>5. compute_staker_reward(q, i).pending_reward
        = i.pending_reward + (mul(i.bond_amount, q.reward_index) - mul(i.bond_amount, i.reward_index))
  BY DEF compute_staker_reward, RewardInfo
<1>6. Earned(u, t) = compute_staker_reward(q, i)
  BY <1>2, <1>4 DEF Earned
<1>7. QED BY <1>3, <1>4, <1>5, <1>6

\* A staker's worth after a call that has settled the record: what is paid is gone, and the
\* rounding of a changed bond is less than a unit.
LEMMA SettledWorth ==
  ASSUME LpInv, NEW u \in Users, NEW t \in DOMAIN pools, Computable(pools[t], total_weight),
         NEW i \in RewardInfo, i.reward_index = Up(t).reward_index,
         Record(u, t)' = i \/ (Record(u, t)' = DefaultRewardInfo /\ Emptied(i)),
         NEW a \in Nat, NEW c \in {0, 1}, i.pending_reward + a = Earned(u, t).pending_reward,
         c = 0 => i.bond_amount = Record(u, t).bond_amount,
         NEW j, j = Up(t).reward_index
  PROVE  Worth(u, t, j)' + ONE * a <= Worth(u, t, j) + ONE * c
<1>1. TypeOK
  BY DEF LpInv
<1>2. j \in Nat
  BY UpWorth
<1>3. PICK o \in Nat \ {0}, b \in Nat, p \in Nat, k \in Nat :
        /\ o = ONE /\ b = Record(u, t).bond_amount /\ p = Record(u, t).pending_reward
        /\ k = Record(u, t).reward_index
  BY <1>1, RecordIs, OnePos DEF RewardInfo
<1>4. PICK d \in Nat, q \in Nat : d = i.bond_amount /\ q = i.pending_reward
  BY DEF RewardInfo
<1>5. PICK m \in Nat, n \in Nat, l \in Nat : m = mul(b, k) /\ n = mul(b, j) /\ l = mul(d, j)
  BY <1>2, MulNat
<1>6. Worth(u, t, j) = o * p + (b * j - o * m)
  BY <1>3, <1>5 DEF Worth
<1>7. q + a = p + (n - m)
  BY <1>3, <1>4, <1>5, EarnedPending
<1>8. Worth(u, t, j)' = o * q + (d * j - o * l)
  <2>1. CASE Record(u, t)' = i
    BY <1>3, <1>4, <1>5, <2>1 DEF Worth
  <2>2. CASE Record(u, t)' = DefaultRewardInfo /\ Emptied(i)
    <3>1. d = 0 /\ q = 0
      BY <1>4, <2>2 DEF Emptied
    <3>2. mul(0, 0) = 0 /\ mul(0, j) = 0
      BY <1>2, OnePos DEF mul
    <3>3. Worth(u, t, j)' = o * 0 + (0 * j - o * mul(0, 0))
      BY <1>3, <2>2 DEF Worth, DefaultRewardInfo
    <3>4. l = 0
      BY <1>5, <3>1, <3>2
    <3>5. QED BY <1>2, <3>1, <3>2, <3>3, <3>4
  <2>3. QED BY <2>1, <2>2
<1>9. PICK x \in Nat, y \in Nat : x = b * j - o * n /\ y = d * j - o * l /\ y <= o
  <2>1. /\ b * j \in Nat /\ o * n \in Nat /\ o * n <= b * j
        /\ d * j \in Nat /\ o * l \in Nat /\ o * l <= d * j /\ d * j < o * l + o
    BY <1>2, <1>3, <1>5, MulRest
  <2>2. QED BY <2>1
<1>10. c = 0 => y = x
  BY <1>3, <1>4, <1>5, <1>9
<1>11. y <= x + o * c
  BY <1>9, <1>10
<1>12. o * q + o * a = o * p + (o * n - o * m)
  <2>1. o * (q + a) = o * (p + (n - m))
    BY <1>7
  <2>2. QED BY <2>1
<1>13. Worth(u, t, j)' + o * a = o * p + (o * n - o * m) + y
  <2>1. PICK w \in Nat, v \in Nat : w = o * q /\ v = o * a
    OBVIOUS
  <2>2. Worth(u, t, j)' = w + y
    BY <1>8, <1>9, <2>1
  <2>3. QED BY <1>12, <2>1, <2>2
<1>14. Worth(u, t, j) = o * p + (o * n - o * m) + x
  <2>1. PICK w \in Nat, v \in Nat, z \in Nat, e \in Int : w = o * p /\ v = o * n /\ z = o * m /\ e = b * j
    <3>1. o * p \in Nat /\ o * n \in Nat /\ o * m \in Nat /\ b * j \in Int
      BY <1>2
    <3>2. QED BY ONLY <3>1, Zenon
  <2>2. Worth(u, t, j) = w + (e - z) /\ x = e - v
    BY <1>6, <1>9, <2>1
  <2>3. QED BY <2>1, <2>2
<1>15. PICK w \in Int : w = o * p + (o * n - o * m)
  OBVIOUS
<1>16. w + y <= w + x + o * c
  BY <1>11
<1>17. QED BY <1>3, <1>13, <1>14, <1>15, <1>16

\* A pool that is brought up to now, whose staker u settles.
LEMMA SettledValue ==
  ASSUME LpInv, LpInv', NEW u \in Users, NEW t \in DOMAIN pools, t \in DOMAIN pools',
         Computable(pools[t], total_weight),
         pools'[t].reward_index = Up(t).reward_index,
         pools'[t].pending_reward = Up(t).pending_reward,
         \A x \in Users \ {u} : Record(x, t)' = Record(x, t),
         NEW i \in RewardInfo, i.reward_index = Up(t).reward_index,
         Record(u, t)' = i \/ (Record(u, t)' = DefaultRewardInfo /\ Emptied(i)),
         NEW a \in Nat, NEW c \in {0, 1}, i.pending_reward + a = Earned(u, t).pending_reward,
         c = 0 => i.bond_amount = Record(u, t).bond_amount
  PROVE  ValueTable'[t] + ONE * a <= ValueTable[t] + ONE * (GainTable[t] + c)
<1>1. PICK j \in Nat, p \in Nat, g \in Nat : /\ j = Up(t).reward_index /\ p = Up(t).pending_reward
                                             /\ g = GainTable[t] /\ pools[t].reward_index <= j
  BY UpWorth
<1>2. PICK o \in Nat : o = ONE
  BY OnePos
<1>3. Worth(u, t, j)' + o * a <= Worth(u, t, j) + o * c
  BY <1>1, <1>2, SettledWorth
<1>4. WorthNat /\ WorthNat'
  BY WorthIsNat, WorthIsNatNext
<1>5. j >= pools[t].reward_index /\ j >= pools'[t].reward_index
  BY <1>1, <1>4 DEF WorthNat
<1>6. PICK w \in Nat, v \in Nat : w = o * a /\ v = o * c
  OBVIOUS
<1>7. Worth(u, t, j)' + w <= Worth(u, t, j) + v
  BY <1>3, <1>6
<1>8. WorthSum(t, j)' + w <= WorthSum(t, j) + v
  BY <1>5, <1>7, WorthFollows
<1>9. PICK x \in Nat, y \in Nat : x = WorthSum(t, j) /\ y = WorthSum(t, j)'
  BY <1>4, <1>5 DEF WorthNat
<1>10. ValueTable'[t] = y + o * p
  <2>1. ValueTable'[t] = WorthSum(t, pools[t].reward_index)' + ONE * pools'[t].pending_reward
    BY DEF ValueTable
  <2>2. WorthSum(t, pools[t].reward_index)' = WorthSum(t, j)'
    BY <1>1 DEF WorthSum, WorthTable, Worth
  <2>3. QED BY <1>1, <1>2, <1>9, <2>1, <2>2
<1>11. PICK z \in Nat : z = ValueTable[t] /\ x + o * p <= z + o * g
  <2>1. ValueTable[t] \in Nat
    BY <1>4 DEF WorthNat
  <2>2. WorthSum(t, j) + ONE * p <= ValueTable[t] + ONE * g
    BY <1>1, UpWorth
  <2>3. QED BY <1>2, <1>9, <2>1, <2>2
<1>12. y + w <= x + v
  BY <1>8, <1>9
<1>13. PICK h \in Nat, k \in Nat : h = o * p /\ k = o * g
  OBVIOUS
<1>14. y + h + w <= z + k + v
  BY <1>11, <1>12, <1>13
<1>15. o * (g + c) = k + v
  BY <1>6, <1>13
<1>16. QED BY <1>1, <1>2, <1>6, <1>10, <1>11, <1>13, <1>14, <1>15

\* A pool whose stakers are worth the same at every index.
SameWorth(t) == \A u \in Users, i \in Nat : Worth(u, t, i)' = Worth(u, t, i)

LEMMA SameSum ==
  ASSUME NEW t, SameWorth(t), NEW i \in Nat
  PROVE  WorthSum(t, i)' = WorthSum(t, i)
<1>1. WorthTable(t, i)' = WorthTable(t, i)
  BY DEF SameWorth, WorthTable
<1>2. QED BY <1>1 DEF WorthSum

LEMMA RecordsSame ==
  ASSUME NEW t, \A u \in Users : Record(u, t)' = Record(u, t)
  PROVE  SameWorth(t)
  BY DEF SameWorth, Worth

LEMMA BroughtValue ==
  ASSUME LpInv, LpInv', NEW t \in DOMAIN pools, t \in DOMAIN pools', NEW n \in Nat,
         Computable(pools[t], n), total_weight <= n \/ pools[t].last_distributed = now,
         NEW e, e = compute_pool_reward(pools[t], n),
         pools'[t].reward_index = e.reward_index,
         pools'[t].pending_reward = e.pending_reward, SameWorth(t)
  PROVE  ValueTable'[t] <= ValueTable[t] + ONE * GainTable[t]
<1>1. PICK j \in Nat, p \in Nat : j = e.reward_index /\ p = e.pending_reward
  BY UpWorthAt
<1>2. ValueTable'[t] = WorthSum(t, pools[t].reward_index)' + ONE * pools'[t].pending_reward
  BY DEF ValueTable
<1>3. WorthSum(t, pools[t].reward_index)' = WorthSum(t, j)'
  BY <1>1 DEF WorthSum, WorthTable, Worth
<1>4. WorthSum(t, j)' = WorthSum(t, j)
  BY <1>1, SameSum
<1>5. ValueTable'[t] = WorthSum(t, j) + ONE * p
  BY <1>1, <1>2, <1>3, <1>4
<1>6. WorthSum(t, j) + ONE * p <= ValueTable[t] + ONE * GainTable[t]
  BY <1>1, UpWorthAt
<1>7. QED BY <1>5, <1>6

LEMMA SameValue ==
  ASSUME LpInv, NEW t \in DOMAIN pools, t \in DOMAIN pools', SameWorth(t),
         pools'[t].reward_index = pools[t].reward_index,
         pools'[t].pending_reward = pools[t].pending_reward
  PROVE  ValueTable'[t] = ValueTable[t]
<1>1. WorthNat
  BY WorthIsNat
<1>2. PICK j \in Nat : j = pools[t].reward_index
  BY <1>1 DEF WorthNat
<1>3. ValueTable'[t] = WorthSum(t, pools[t].reward_index)' + ONE * pools'[t].pending_reward
  BY DEF ValueTable
<1>4. WorthSum(t, pools[t].reward_index)' = WorthSum(t, j)'
  BY <1>2 DEF WorthSum, WorthTable, Worth
<1>5. WorthSum(t, j)' = WorthSum(t, j)
  BY <1>2, SameSum
<1>6. ValueTable[t] = WorthSum(t, j) + ONE * pools[t].pending_reward
  BY <1>1, <1>2 DEF WorthNat
<1>7. QED BY <1>3, <1>4, <1>5, <1>6

\* What the values of the pools do in a step, together.
LEMMA ValuesMove ==
  ASSUME LpInv, LpInv', NEW P \in SUBSET DOMAIN pools, DOMAIN pools \subseteq DOMAIN pools',
         \A t \in P : GainTable[t] \in Nat,
         NEW paid, NEW re, \A t \in DOMAIN pools : paid[t] \in Nat /\ re[t] \in Nat,
         \A t \in P : ValueTable'[t] + ONE * paid[t] <= ValueTable[t] + ONE * (GainTable[t] + re[t]),
         \A t \in DOMAIN pools \ P : ValueTable'[t] = ValueTable[t] /\ paid[t] = 0,
         \A t \in DOMAIN pools' \ DOMAIN pools : ValueTable'[t] = 0
  PROVE  /\ SumFunctionOnSet(paid, DOMAIN pools) \in Nat /\ SumFunctionOnSet(re, DOMAIN pools) \in Nat
         /\ ValueSum' + ONE * SumFunctionOnSet(paid, DOMAIN pools)
              <= ValueSum + ONE * (SumFunctionOnSet(GainTable, P) + SumFunctionOnSet(re, DOMAIN pools))
<1>1. PICK T : T = DOMAIN pools
  OBVIOUS
<1>2. PICK U : U = DOMAIN pools'
  OBVIOUS
<1>3. WorthNat /\ WorthNat'
  BY WorthIsNat, WorthIsNatNext
<1>4. IsFiniteSet(T) /\ IsFiniteSet(U) /\ T \subseteq U /\ P \subseteq T
  BY <1>1, <1>2, <1>3 DEF WorthNat
<1>5. PICK w : w = ValueTable
  OBVIOUS
<1>6. PICK v : v = ValueTable'
  OBVIOUS
<1>7. (\A t \in T : w[t] \in Nat) /\ \A t \in U : v[t] \in Nat
  BY <1>1, <1>2, <1>3, <1>5, <1>6 DEF WorthNat
<1>8. PICK o \in Nat : o = ONE
  BY OnePos
<1>9. PICK G : G = GainTable
  OBVIOUS
<1>10. PICK g : g = [t \in T |-> IF t \in P THEN G[t] ELSE 0]
  OBVIOUS
<1>11. PICK k : k = [t \in T |-> g[t] + re[t]]
  OBVIOUS
<1>12. ASSUME NEW t \in T
       PROVE  /\ v[t] \in Nat /\ paid[t] \in Nat /\ w[t] \in Nat /\ g[t] \in Nat /\ re[t] \in Nat
              /\ k[t] = g[t] + re[t] /\ k[t] \in Nat
              /\ v[t] + o * paid[t] <= w[t] + o * k[t]
  <2>1. v[t] \in Nat /\ paid[t] \in Nat /\ w[t] \in Nat /\ re[t] \in Nat
    BY <1>1, <1>4, <1>7
  <2>2. g[t] \in Nat
    BY <1>9, <1>10
  <2>3. k[t] = g[t] + re[t] /\ k[t] \in Nat
    BY <1>11, <2>1, <2>2
  <2>4. CASE t \in P
    <3>1. g[t] = G[t]
      BY <1>10, <2>4
    <3>2. v[t] + ONE * paid[t] <= w[t] + ONE * (G[t] + re[t])
      BY <1>5, <1>6, <1>9, <2>4
    <3>3. QED BY <1>8, <2>1, <2>2, <2>3, <3>1, <3>2
  <2>5. CASE t \notin P
    <3>1. v[t] = w[t] /\ paid[t] = 0
      BY <1>1, <1>5, <1>6, <2>5
    <3>2. o * paid[t] = 0 /\ o * k[t] \in Nat
      BY <2>3, <3>1
    <3>3. QED BY <2>1, <2>2, <2>3, <3>1, <3>2
  <2>6. QED BY <2>4, <2>5
<1>13. SumFunctionOnSet(v, T) + o * SumFunctionOnSet(paid, T)
         <= SumFunctionOnSet(w, T) + o * SumFunctionOnSet(k, T)
  BY <1>4, <1>12, SumBalance
<1>14. SumFunctionOnSet(k, T) = SumFunctionOnSet(g, T) + SumFunctionOnSet(re, T)
  BY <1>4, <1>12, SumAdd
<1>15. SumFunctionOnSet(g, T) = SumFunctionOnSet(G, P)
  <2>1. \A t \in P : G[t] \in Nat /\ g[t] = G[t]
    BY <1>4, <1>9, <1>10
  <2>2. \A t \in T \ P : g[t] = 0
    BY <1>10
  <2>3. P \in SUBSET T
    BY <1>4
  <2>4. QED BY <1>4, <2>1, <2>2, <2>3, SumWithin
<1>16. SumFunctionOnSet(v, U) = SumFunctionOnSet(v, T)
  <2>1. \A t \in T : v[t] \in Nat /\ v[t] = v[t]
    BY <1>12
  <2>2. \A t \in U \ T : v[t] = 0
    BY <1>1, <1>2, <1>6
  <2>3. T \in SUBSET U
    BY <1>4
  <2>4. QED BY <1>4, <2>1, <2>2, <2>3, SumWithin
<1>17. SumFunctionOnSet(paid, T) \in Nat /\ SumFunctionOnSet(re, T) \in Nat
  BY <1>4, <1>12, SumNat
<1>18. ValueSum = SumFunctionOnSet(w, T) /\ ValueSum' = SumFunctionOnSet(v, U)
  BY <1>1, <1>2, <1>5, <1>6 DEF ValueSum
<1>19. QED BY <1>1, <1>8, <1>9, <1>13, <1>14, <1>15, <1>16, <1>17, <1>18

-----------------------------------------------------------------------------
\* A step that takes no time keeps the books: the pools of P are brought up to now, and what
\* stakers are paid is what they lose, up to a unit for a changed bond.
LEMMA BooksMove ==
  ASSUME LpInv, LpInv', Books, NEW P \in SUBSET DOMAIN pools, SomeBrought(P),
         distribution_schedule' = distribution_schedule,
         NEW paid, NEW re, \A t \in DOMAIN pools : paid[t] \in Nat /\ re[t] \in Nat,
         \A t \in P : ValueTable'[t] + ONE * paid[t] <= ValueTable[t] + ONE * (GainTable[t] + re[t]),
         \A t \in DOMAIN pools \ P : ValueTable'[t] = ValueTable[t] /\ paid[t] = 0,
         \A t \in DOMAIN pools' \ DOMAIN pools : ValueTable'[t] = 0,
         SumFunctionOnSet(paid, DOMAIN pools) = prism - prism',
         SumFunctionOnSet(re, DOMAIN pools) = rebonds' - rebonds
  PROVE  Books'
<1>1. /\ \A t \in P : GainTable[t] \in Nat
      /\ SumFunctionOnSet(GainTable, P) \in Nat
      /\ BookedSum + SumFunctionOnSet(GainTable, P) <= BookedSum'
  BY BookedSumGrows
<1>2. /\ SumFunctionOnSet(paid, DOMAIN pools) \in Nat /\ SumFunctionOnSet(re, DOMAIN pools) \in Nat
      /\ ValueSum' + ONE * SumFunctionOnSet(paid, DOMAIN pools)
           <= ValueSum + ONE * (SumFunctionOnSet(GainTable, P) + SumFunctionOnSet(re, DOMAIN pools))
  <2>1. DOMAIN pools \subseteq DOMAIN pools'
    BY DEF SomeBrought
  <2>2. QED BY <1>1, <2>1, ValuesMove
<1>3. PICK o \in Nat, F \in Nat, x \in Nat, y \in Nat, m \in Nat, n \in Nat :
        o = ONE /\ F = Funding /\ x = prism /\ y = prism' /\ m = rebonds /\ n = rebonds'
  <2>1. ConfigType /\ ConfigType'
    BY TypeParts, TypePartsNext DEF LpInv
  <2>2. QED BY <2>1, OnePos, LpAssumption DEF ConfigType
<1>4. PICK g \in Nat, d \in Nat, e \in Nat :
        /\ g = SumFunctionOnSet(GainTable, P) /\ d = x - y /\ e = n - m
        /\ d = SumFunctionOnSet(paid, DOMAIN pools) /\ e = SumFunctionOnSet(re, DOMAIN pools)
  BY <1>1, <1>2, <1>3
<1>5. PICK V \in Nat, W \in Nat, B \in Nat, C \in Nat :
        V = ValueSum /\ W = ValueSum' /\ B = BookedSum /\ C = BookedSum'
  BY WorthIsNat, WorthIsNatNext, BookedSumFacts, BookedSumFactsNext DEF WorthNat, BookedSumFact
<1>6. o * (F - x) + V <= o * B + o * m
  BY <1>3, <1>5 DEF Books
<1>7. W + o * d <= V + o * (g + e)
  BY <1>2, <1>3, <1>4, <1>5
<1>8. o * (B + g) <= o * C
  <2>1. B + g <= C
    BY <1>1, <1>4, <1>5
  <2>2. PICK k \in Nat : k = B + g
    OBVIOUS
  <2>3. o * k <= o * C
    BY <2>1, <2>2
  <2>4. QED BY <2>2, <2>3
<1>9. o * (F - y) = o * (F - x) + o * d
  BY <1>4
<1>10. o * n = o * m + o * e /\ o * (B + g) = o * B + o * g /\ o * (g + e) = o * g + o * e
  BY <1>4
<1>11. o * (F - y) + W <= o * C + o * n
  BY <1>6, <1>7, <1>8, <1>9, <1>10
<1>12. QED BY <1>3, <1>5, <1>11 DEF Books

\* bond, auto_stake_hook and unbond.
LEMMA SettlingBooks ==
  ASSUME LpInv, LpInv', Books, NEW u \in Users, NEW t \in DOMAIN pools,
         NEW i \in RewardInfo, NEW p \in PoolInfo, OneCall(u, t, i, p), Settled(u, t, i, p),
         i.pending_reward = Earned(u, t).pending_reward,
         Computable(pools[t], total_weight), prism' = prism, rebonds' = rebonds + 1
  PROVE  Books'
<1>1. RecordsMoved(u, {t}, [z \in {t} |-> i]) /\ pools' = [pools EXCEPT ![t] = p]
      /\ UNCHANGED <<now, total_weight, distribution_schedule>>
  BY DEF OneCall, configVars
<1>2. PICK info : info = [z \in {t} |-> i]
  OBVIOUS
<1>3. DOMAIN pools' = DOMAIN pools /\ pools'[t] = p /\ \A y \in DOMAIN pools \ {t} : pools'[y] = pools[y]
  BY <1>1
<1>4. \A x, y : ~(x = u /\ y \in {t}) => Record(x, y)' = Record(x, y)
  BY <1>1, <1>2, RecordsAfter
<1>5. Record(u, t)' = i \/ (Record(u, t)' = DefaultRewardInfo /\ Emptied(i))
  <2>1. info[t] = i /\ t \in {t}
    BY <1>2
  <2>2. QED BY <1>1, <1>2, <2>1, RecordOrNone
<1>6. PICK P \in SUBSET DOMAIN pools : P = {t}
  OBVIOUS
<1>7. SomeBrought(P)
  BY <1>1, <1>3, <1>6 DEF SomeBrought, Settled
<1>8. PICK paid : paid = [x \in DOMAIN pools |-> 0]
  OBVIOUS
<1>9. PICK re : re = [x \in DOMAIN pools |-> IF x = t THEN 1 ELSE 0]
  OBVIOUS
<1>10. \A x \in DOMAIN pools : paid[x] \in Nat /\ re[x] \in Nat
  BY <1>8, <1>9
<1>11. ValueTable'[t] + ONE * paid[t] <= ValueTable[t] + ONE * (GainTable[t] + re[t])
  <2>1. \A x \in Users \ {u} : Record(x, t)' = Record(x, t)
    BY <1>4
  <2>2. i.pending_reward + 0 = Earned(u, t).pending_reward /\ 0 \in Nat
    BY DEF RewardInfo
  <2>3. 1 \in {0, 1} /\ (1 = 0 => i.bond_amount = Record(u, t).bond_amount)
    OBVIOUS
  <2>4. /\ pools'[t].reward_index = Up(t).reward_index
        /\ pools'[t].pending_reward = Up(t).pending_reward
        /\ i.reward_index = Up(t).reward_index /\ t \in DOMAIN pools'
    BY <1>3 DEF Settled
  <2>5. ValueTable'[t] + ONE * 0 <= ValueTable[t] + ONE * (GainTable[t] + 1)
    BY ONLY LpInv, LpInv', u \in Users, t \in DOMAIN pools, i \in RewardInfo, Computable(pools[t], total_weight),
            <1>5, <2>1, <2>2, <2>3, <2>4, SettledValue
  <2>6. paid[t] = 0 /\ re[t] = 1
    BY <1>8, <1>9
  <2>7. QED BY <2>5, <2>6
<1>12. \A y \in DOMAIN pools \ P : ValueTable'[y] = ValueTable[y] /\ paid[y] = 0
  <2>1. ASSUME NEW y \in DOMAIN pools \ P PROVE ValueTable'[y] = ValueTable[y]
    <3>1. \A x \in Users : Record(x, y)' = Record(x, y)
      BY <1>4, <1>6
    <3>2. SameWorth(y)
      BY <3>1, RecordsSame
    <3>3. y \in DOMAIN pools' /\ pools'[y] = pools[y]
      BY <1>3, <1>6
    <3>4. QED BY <3>2, <3>3, SameValue
  <2>2. QED BY <1>8, <2>1
<1>13. SumFunctionOnSet(paid, DOMAIN pools) = prism - prism'
  <2>1. SumFunctionOnSet(paid, DOMAIN pools) = 0
    BY <1>8, WeightsAre, SumZero
  <2>2. prism \in Nat
    BY TypeParts DEF LpInv, ConfigType
  <2>3. QED BY <2>1, <2>2
<1>14. SumFunctionOnSet(re, DOMAIN pools) = rebonds' - rebonds
  <2>1. SumFunctionOnSet(re, DOMAIN pools) = SumFunctionOnSet(paid, DOMAIN pools) - paid[t] + re[t]
    <3>1. \A x \in DOMAIN pools \ {t} : re[x] = paid[x]
      BY <1>8, <1>9
    <3>2. QED BY <1>10, <3>1, WeightsAre, SumUpdate
  <2>2. SumFunctionOnSet(paid, DOMAIN pools) = 0 /\ paid[t] = 0 /\ re[t] = 1
    BY <1>8, <1>9, WeightsAre, SumZero
  <2>3. rebonds \in Nat
    BY TypeParts DEF LpInv, ConfigType
  <2>4. QED BY <2>1, <2>2, <2>3
<1>15. \A x \in P : ValueTable'[x] + ONE * paid[x] <= ValueTable[x] + ONE * (GainTable[x] + re[x])
  BY <1>6, <1>11
<1>16. \A x \in DOMAIN pools' \ DOMAIN pools : ValueTable'[x] = 0
  BY <1>3
<1>17. distribution_schedule' = distribution_schedule
  BY <1>1
<1>18. QED BY ONLY LpInv, LpInv', Books, P \in SUBSET DOMAIN pools,
        <1>7, <1>10, <1>12, <1>13, <1>14, <1>15, <1>16, <1>17, BooksMove

\* A step that brings no pool up to now and leaves everybody's worth.
LEMMA BooksStay ==
  ASSUME LpInv, LpInv', Books, SomeBrought({}), DOMAIN pools' = DOMAIN pools,
         UNCHANGED <<distribution_schedule, prism, rebonds>>,
         \A t \in DOMAIN pools : /\ SameWorth(t)
                                 /\ pools'[t].reward_index = pools[t].reward_index
                                 /\ pools'[t].pending_reward = pools[t].pending_reward
  PROVE  Books'
<1>1. PICK z : z = [x \in DOMAIN pools |-> 0]
  OBVIOUS
<1>2. PICK P \in SUBSET DOMAIN pools : P = {}
  OBVIOUS
<1>3. \A x \in DOMAIN pools : z[x] \in Nat /\ z[x] \in Nat
  BY <1>1
<1>4. \A y \in DOMAIN pools \ P : ValueTable'[y] = ValueTable[y] /\ z[y] = 0
  BY <1>1, SameValue
<1>5. SumFunctionOnSet(z, DOMAIN pools) = prism - prism' /\ SumFunctionOnSet(z, DOMAIN pools) = rebonds' - rebonds
  <2>1. SumFunctionOnSet(z, DOMAIN pools) = 0
    BY <1>1, WeightsAre, SumZero
  <2>2. prism \in Nat /\ rebonds \in Nat /\ prism' = prism /\ rebonds' = rebonds
    BY TypeParts DEF LpInv, ConfigType
  <2>3. QED BY <2>1, <2>2
<1>6. \A x \in P : ValueTable'[x] + ONE * z[x] <= ValueTable[x] + ONE * (GainTable[x] + z[x])
  BY <1>2
<1>7. \A x \in DOMAIN pools' \ DOMAIN pools : ValueTable'[x] = 0
  OBVIOUS
<1>8. SomeBrought(P)
  BY <1>2
<1>9. distribution_schedule' = distribution_schedule
  OBVIOUS
<1>10. QED BY ONLY LpInv, LpInv', Books, P \in SUBSET DOMAIN pools,
        <1>3, <1>4, <1>5, <1>6, <1>7, <1>8, <1>9, BooksMove

LEMMA ClaimUnbondedBooks ==
  ASSUME LpInv, LpInv', Books, NEW u \in Users, NEW t \in DOMAIN pools, claim_unbonded(u, t)
  PROVE  Books'
<1>1. PICK i \in RewardInfo, p \in PoolInfo, a \in Nat :
           /\ OneCall(u, t, i, p)
           /\ 0 < a /\ a = Record(u, t).withdrawable_amount + withdrawable_amount(u, t)
           /\ i = [Record(u, t) EXCEPT !.withdrawable_amount = 0]
           /\ p = [pools[t] EXCEPT !.total_pending_withdraw = pools[t].total_pending_withdraw - a]
           /\ unbond_orders' = Remaining(u, {t})
           /\ held'[t] = held[t] - a /\ prism' = prism
  BY ClaimUnbondedMoves, Zenon
<1>2. RecordsMoved(u, {t}, [z \in {t} |-> i]) /\ pools' = [pools EXCEPT ![t] = p]
      /\ UNCHANGED <<now, total_weight, distribution_schedule>>
  BY <1>1 DEF OneCall, configVars
<1>3. PICK info : info = [z \in {t} |-> i]
  OBVIOUS
<1>4. DOMAIN pools' = DOMAIN pools /\ pools'[t] = p /\ \A y \in DOMAIN pools \ {t} : pools'[y] = pools[y]
  BY <1>2
<1>5. \A x, y : ~(x = u /\ y \in {t}) => Record(x, y)' = Record(x, y)
  BY <1>2, <1>3, RecordsAfter
<1>6. Record(u, t)' = i \/ (Record(u, t)' = DefaultRewardInfo /\ Emptied(i))
  <2>1. info[t] = i /\ t \in {t}
    BY <1>3
  <2>2. QED BY <1>2, <1>3, <2>1, RecordOrNone
<1>7. TypeOK
  BY DEF LpInv
<1>8. PICK q \in PoolInfo : q = pools[t]
  BY <1>7 DEF TypeOK
<1>9. /\ p.last_distributed = q.last_distributed /\ p.weight = q.weight
      /\ p.pending_reward = q.pending_reward /\ p.reward_index = q.reward_index
  <2>1. p = [q EXCEPT !.total_pending_withdraw = q.total_pending_withdraw - a]
    BY <1>1, <1>8
  <2>2. QED BY <2>1 DEF PoolInfo
<1>10. PICK r \in RewardInfo : r = Record(u, t)
  BY <1>7, RecordIs
<1>11. i.bond_amount = r.bond_amount /\ i.reward_index = r.reward_index
       /\ i.pending_reward = r.pending_reward
  <2>1. i = [r EXCEPT !.withdrawable_amount = 0]
    BY <1>1, <1>10
  <2>2. QED BY <2>1 DEF RewardInfo
<1>12. ASSUME NEW n \in Nat PROVE Worth(u, t, n)' = Worth(u, t, n)
  <2>1. CASE Record(u, t)' = i
    BY <1>10, <1>11, <2>1 DEF Worth
  <2>2. CASE Record(u, t)' = DefaultRewardInfo /\ Emptied(i)
    <3>1. r.bond_amount = 0 /\ r.pending_reward = 0 /\ r.reward_index \in Nat
      BY <1>11, <2>2 DEF Emptied, RewardInfo
    <3>2. \A m \in Nat : mul(0, m) = 0
      BY OnePos DEF mul
    <3>3. Worth(u, t, n) = ONE * 0 + (0 * n - ONE * 0)
      BY <1>10, <3>1, <3>2 DEF Worth
    <3>4. Worth(u, t, n)' = ONE * 0 + (0 * n - ONE * 0)
      <4>1. /\ Record(u, t)'.pending_reward = 0 /\ Record(u, t)'.bond_amount = 0
            /\ Record(u, t)'.reward_index = 0
        BY <2>2 DEF DefaultRewardInfo
      <4>2. QED BY <3>2, <4>1 DEF Worth
    <3>5. QED BY <3>3, <3>4
  <2>3. QED BY <1>6, <2>1, <2>2
<1>13. ASSUME NEW y \in DOMAIN pools PROVE SameWorth(y)
  <2>1. ASSUME NEW x \in Users, NEW n \in Nat PROVE Worth(x, y, n)' = Worth(x, y, n)
    <3>1. CASE x = u /\ y = t
      BY <1>12, <3>1
    <3>2. CASE ~(x = u /\ y = t)
      <4>1. Record(x, y)' = Record(x, y)
        BY <1>5, <3>2
      <4>2. QED BY <4>1 DEF Worth
    <3>3. QED BY <3>1, <3>2
  <2>2. QED BY <2>1 DEF SameWorth
<1>14. ASSUME NEW y \in DOMAIN pools
       PROVE  /\ pools'[y].reward_index = pools[y].reward_index
              /\ pools'[y].pending_reward = pools[y].pending_reward
              /\ pools'[y].weight = pools[y].weight
              /\ pools'[y].last_distributed = pools[y].last_distributed
  BY <1>4, <1>8, <1>9
<1>15. SomeBrought({})
  BY <1>2, <1>4, <1>14 DEF SomeBrought
<1>16. UNCHANGED <<distribution_schedule, prism, rebonds>>
  BY <1>1, <1>2 DEF claim_unbonded
<1>17. QED BY <1>4, <1>13, <1>14, <1>15, <1>16, BooksStay

LEMMA ClaimRewardsBooks ==
  ASSUME LpInv, LpInv', Books, NEW u \in Users, NEW S \in SUBSET DOMAIN pools, claim_rewards(u, S)
  PROVE  Books'
<1>1. PICK info :
           /\ UserCall(u, S, info)
           /\ \A t \in S : Settled(u, t, info[t], pools'[t]) /\ info[t].pending_reward = 0
           /\ \A t \in DOMAIN pools \ S : pools'[t] = pools[t]
  BY ClaimRewardsMoves
<1>2. /\ RecordsMoved(u, S, info) /\ DOMAIN pools' = DOMAIN pools
      /\ \A t \in S : info[t] \in RewardInfo /\ Follows(u, t, info[t])
      /\ UNCHANGED <<distribution_schedule, total_weight, now>>
  BY <1>1 DEF UserCall, UserMoves, configVars
<1>3. \A x, y : ~(x = u /\ y \in S) => Record(x, y)' = Record(x, y)
  BY <1>2, RecordsAfter
<1>4. \A t \in S : Computable(pools[t], total_weight)
  BY DEF claim_rewards
<1>5. PICK e : e = [t \in S |-> Earned(u, t).pending_reward]
  OBVIOUS
<1>6. prism' = prism - SumFunctionOnSet(e, S) /\ rebonds' = rebonds
  BY <1>5 DEF claim_rewards, Earned, Up
<1>7. PICK paid : paid = [t \in DOMAIN pools |-> IF t \in S THEN e[t] ELSE 0]
  OBVIOUS
<1>8. PICK re : re = [t \in DOMAIN pools |-> 0]
  OBVIOUS
<1>9. ASSUME NEW t \in S PROVE e[t] \in Nat
  <2>1. TypeOK /\ Brought(pools[t], Up(t))
    BY <1>4, PoolBrought DEF LpInv, Up
  <2>2. PICK n \in Nat : Earned(u, t) =
              [reward_index |-> Up(t).reward_index,
               bond_amount |-> Record(u, t).bond_amount,
               withdrawable_amount |-> Record(u, t).withdrawable_amount + withdrawable_amount(u, t),
               pending_reward |-> Record(u, t).pending_reward + n]
    BY <2>1, EarnedIs DEF Earned
  <2>3. Record(u, t).pending_reward \in Nat
    BY <2>1, RecordIs DEF RewardInfo
  <2>4. QED BY <1>5, <2>2, <2>3
<1>10. \A t \in DOMAIN pools : paid[t] \in Nat /\ re[t] \in Nat
  BY <1>7, <1>8, <1>9
<1>11. ASSUME NEW t \in S
       PROVE  ValueTable'[t] + ONE * paid[t] <= ValueTable[t] + ONE * (GainTable[t] + re[t])
  <2>1. PICK i \in RewardInfo : i = info[t]
    BY <1>2
  <2>2. PICK a \in Nat : a = paid[t] /\ a = Earned(u, t).pending_reward
    BY <1>5, <1>7, <1>9
  <2>3. i.pending_reward + a = Earned(u, t).pending_reward
    BY <1>1, <2>1, <2>2
  <2>4. /\ pools'[t].reward_index = Up(t).reward_index
        /\ pools'[t].pending_reward = Up(t).pending_reward
        /\ i.reward_index = Up(t).reward_index /\ t \in DOMAIN pools'
    BY <1>1, <1>2, <2>1 DEF Settled
  <2>5. i.bond_amount = Record(u, t).bond_amount
    <3>1. /\ pools'[t].total_bond_amount
               = pools[t].total_bond_amount - Record(u, t).bond_amount + i.bond_amount
      BY <1>2, <2>1 DEF Follows
    <3>2. pools'[t] = Up(t)
      BY DEF claim_rewards, Up
    <3>3. Brought(pools[t], Up(t))
      BY <1>4, PoolBrought DEF LpInv, Up
    <3>4. pools'[t].total_bond_amount = pools[t].total_bond_amount
      BY <3>2, <3>3 DEF Brought
    <3>5. pools[t].total_bond_amount \in Nat /\ Record(u, t).bond_amount \in Nat /\ i.bond_amount \in Nat
      BY <2>1, RecordIs DEF LpInv, TypeOK, PoolInfo, RewardInfo
    <3>6. QED BY <3>1, <3>4, <3>5
  <2>6. Record(u, t)' = i \/ (Record(u, t)' = DefaultRewardInfo /\ Emptied(i))
    BY <1>2, <2>1, RecordOrNone
  <2>7. \A x \in Users \ {u} : Record(x, t)' = Record(x, t)
    BY <1>3
  <2>8. 0 \in {0, 1} /\ (0 = 0 => i.bond_amount = Record(u, t).bond_amount)
    BY <2>5
  <2>9. t \in DOMAIN pools /\ Computable(pools[t], total_weight)
    BY <1>4
  <2>10. ValueTable'[t] + ONE * a <= ValueTable[t] + ONE * (GainTable[t] + 0)
    BY ONLY LpInv, LpInv', u \in Users, i \in RewardInfo, a \in Nat, <2>9,
            <2>3, <2>4, <2>6, <2>7, <2>8, SettledValue
  <2>11. re[t] = 0
    BY <1>8
  <2>12. QED BY <2>2, <2>10, <2>11
<1>12. \A y \in DOMAIN pools \ S : ValueTable'[y] = ValueTable[y] /\ paid[y] = 0
  <2>1. ASSUME NEW y \in DOMAIN pools \ S PROVE ValueTable'[y] = ValueTable[y]
    <3>1. \A x \in Users : Record(x, y)' = Record(x, y)
      BY <1>3
    <3>2. SameWorth(y)
      BY <3>1, RecordsSame
    <3>3. y \in DOMAIN pools' /\ pools'[y] = pools[y]
      BY <1>1, <1>2
    <3>4. QED BY <3>2, <3>3, SameValue
  <2>2. QED BY <1>7, <2>1
<1>13. SumFunctionOnSet(paid, DOMAIN pools) = prism - prism'
  <2>1. SumFunctionOnSet(paid, DOMAIN pools) = SumFunctionOnSet(e, S) /\ SumFunctionOnSet(e, S) \in Nat
    <3>1. \A t \in S : e[t] \in Nat /\ paid[t] = e[t]
      BY <1>7, <1>9
    <3>2. \A t \in DOMAIN pools \ S : paid[t] = 0
      BY <1>7
    <3>3. QED BY <3>1, <3>2, WeightsAre, SumWithin
  <2>2. prism \in Nat
    BY TypeParts DEF LpInv, ConfigType
  <2>3. QED BY <1>6, <2>1, <2>2
<1>14. SumFunctionOnSet(re, DOMAIN pools) = rebonds' - rebonds
  <2>1. SumFunctionOnSet(re, DOMAIN pools) = 0
    BY <1>8, WeightsAre, SumZero
  <2>2. rebonds \in Nat
    BY TypeParts DEF LpInv, ConfigType
  <2>3. QED BY <1>6, <2>1, <2>2
<1>15. SomeBrought(S)
  BY <1>1, <1>2, <1>4 DEF SomeBrought, Settled
<1>16. \A x \in DOMAIN pools' \ DOMAIN pools : ValueTable'[x] = 0
  BY <1>2
<1>17. distribution_schedule' = distribution_schedule
  BY <1>2
<1>18. QED BY ONLY LpInv, LpInv', Books, S \in SUBSET DOMAIN pools,
        <1>10, <1>11, <1>12, <1>13, <1>14, <1>15, <1>16, <1>17, BooksMove

\* register_staking_token and the change of a weight: every pool is brought up to now, at the
\* total it has earned by or, behind a weight that is raised, at a higher one.
LEMMA WeightsBooks ==
  ASSUME LpInv, LpInv', Books, ~ repriced',
         \/ \E o, t, d, w : register_staking_token(o, t, d, w)
         \/ \E o : \E t \in DOMAIN pools, w \in Nat : update_weight(o, t, w)
  PROVE  Books'
<1>1. /\ UNCHANGED <<stakeVars, now, distribution_schedule, prism, rebonds>>
      /\ DOMAIN pools \subseteq DOMAIN pools'
  BY DEF register_staking_token, update_weight, pools_reweighted
<1>a. total_weight \in Nat /\ total_weight <= total_weight
  BY DEF LpInv, TypeOK
<1>2. ASSUME NEW y \in DOMAIN pools
      PROVE  /\ \E n \in Nat :
                  /\ Computable(pools[y], n) /\ (total_weight <= n \/ pools[y].last_distributed = now)
                  /\ pools'[y].reward_index = compute_pool_reward(pools[y], n).reward_index
                  /\ pools'[y].pending_reward = compute_pool_reward(pools[y], n).pending_reward
             /\ pools'[y].last_distributed = now
  <2>1. CASE \E o, t, d, w : register_staking_token(o, t, d, w)
    <3>1. pools'[y] = compute_pool_reward(pools[y], total_weight) /\ Computable(pools[y], total_weight)
      BY <2>1 DEF register_staking_token
    <3>2. Brought(pools[y], pools'[y])
      BY <3>1, PoolBrought DEF LpInv
    <3>3. QED BY <1>a, <3>1, <3>2 DEF Brought
  <2>2. CASE \E o : \E t \in DOMAIN pools, w \in Nat : update_weight(o, t, w)
    <3>1. PICK o : \E t \in DOMAIN pools, w \in Nat : update_weight(o, t, w)
      BY <2>2
    <3>2. PICK t \in DOMAIN pools, w \in Nat : update_weight(o, t, w)
      BY <3>1
    <3>3. PICK c : /\ c = [x \in DOMAIN pools |-> compute_pool_reward(pools[x], total_at(x, t, w))]
                   /\ pools' = [c EXCEPT ![t].weight = w]
                   /\ \A x \in DOMAIN pools : Brought(pools[x], c[x])
      BY <3>2, ReweightedPools
    <3>4. PICK n \in Nat : n = total_at(y, t, w) /\ Computable(pools[y], n)
      BY <3>2, Reweighted DEF update_weight
    <3>5. PICK q \in PoolInfo :
            q = c[y] /\ q = compute_pool_reward(pools[y], n) /\ q.last_distributed = now
      BY <3>3, <3>4 DEF Brought
    <3>6. pools'[y] = IF y = t THEN [q EXCEPT !.weight = w] ELSE q
      BY <3>3, <3>5
    <3>7. /\ pools'[y].reward_index = q.reward_index /\ pools'[y].pending_reward = q.pending_reward
          /\ pools'[y].last_distributed = now
      BY <3>5, <3>6 DEF PoolInfo
    <3>8. total_weight <= n \/ pools[y].last_distributed = now
      <4>1. /\ pools[y].last_distributed \in Nat /\ pools[y].last_distributed <= now /\ now \in Nat
            /\ pools[t].weight \in Nat /\ y \in Nat /\ t \in Nat
        BY LpAssumption DEF LpInv, TypeOK, PoolInfo
      <4>2. CASE y <= t
        BY <1>a, <3>4, <4>2 DEF total_at
      <4>3. CASE y > t /\ ~ (w < pools[t].weight)
        <5>1. pools[t].weight <= w
          BY <4>1, <4>3
        <5>2. n = total_reweighted(t, w)
          BY <3>4, <4>1, <4>3 DEF total_at
        <5>3. QED BY <5>1, <5>2, Reweighted
      <4>4. CASE y > t /\ w < pools[t].weight
        <5>1. ~ Stale(y)
          BY <3>2, <4>4 DEF update_weight
        <5>2. QED BY <4>1, <5>1 DEF Stale
      <4>5. QED BY <4>1, <4>2, <4>3, <4>4
    <3>9. QED BY <3>4, <3>5, <3>7, <3>8
  <2>3. QED BY <2>1, <2>2
<1>3. ASSUME NEW y \in DOMAIN pools' \ DOMAIN pools
      PROVE  /\ pools'[y].last_distributed = now /\ pools'[y].reward_index = 0
             /\ pools'[y].pending_reward = 0
  <2>1. CASE \E o, t, d, w : register_staking_token(o, t, d, w)
    <3>1. PICK o, t, d, w : register_staking_token(o, t, d, w)
      BY <2>1
    <3>2. pools'[y] = NewPool(w, d, now)
      BY <1>3, <3>1 DEF register_staking_token
    <3>3. QED BY <3>2 DEF NewPool
  <2>2. CASE \E o : \E t \in DOMAIN pools, w \in Nat : update_weight(o, t, w)
    BY <1>3, <2>2 DEF update_weight, pools_reweighted
  <2>3. QED BY <2>1, <2>2
<1>4. \A x, y : Record(x, y)' = Record(x, y)
  BY <1>1 DEF Record, stakeVars
<1>5. PICK P \in SUBSET DOMAIN pools : P = DOMAIN pools
  OBVIOUS
<1>6. SomeBrought(P)
  BY <1>1, <1>2, <1>3, <1>5 DEF SomeBrought
<1>7. PICK z : z = [x \in DOMAIN pools |-> 0]
  OBVIOUS
<1>8. \A x \in DOMAIN pools : z[x] \in Nat /\ z[x] \in Nat
  BY <1>7
<1>9. ASSUME NEW x \in P
      PROVE  ValueTable'[x] + ONE * z[x] <= ValueTable[x] + ONE * (GainTable[x] + z[x])
  <2>1. SameWorth(x)
    BY <1>4, RecordsSame
  <2>2. ValueTable'[x] <= ValueTable[x] + ONE * GainTable[x] /\ GainTable[x] \in Nat
    <3>1. x \in DOMAIN pools /\ x \in DOMAIN pools'
      BY <1>1, <1>5
    <3>2. PICK n \in Nat :
            /\ Computable(pools[x], n) /\ (total_weight <= n \/ pools[x].last_distributed = now)
            /\ pools'[x].reward_index = compute_pool_reward(pools[x], n).reward_index
            /\ pools'[x].pending_reward = compute_pool_reward(pools[x], n).pending_reward
      BY <1>2, <3>1
    <3>3. PICK e : e = compute_pool_reward(pools[x], n)
      OBVIOUS
    <3>4. QED BY <2>1, <3>1, <3>2, <3>3, BroughtValue, GainCovers
  <2>3. z[x] = 0
    BY <1>5, <1>7
  <2>4. ValueTable'[x] \in Nat /\ ONE \in Nat
    <3>1. WorthNat' /\ x \in DOMAIN pools'
      BY <1>1, <1>5, WorthIsNatNext
    <3>2. QED BY <3>1, OnePos DEF WorthNat
  <2>5. ONE * z[x] = 0 /\ GainTable[x] + z[x] = GainTable[x]
    BY <2>2, <2>3, <2>4
  <2>6. QED BY <2>2, <2>4, <2>5
<1>10. \A y \in DOMAIN pools \ P : ValueTable'[y] = ValueTable[y] /\ z[y] = 0
  BY <1>5
<1>11. ASSUME NEW y \in DOMAIN pools' \ DOMAIN pools PROVE ValueTable'[y] = 0
  <2>1. \A u \in Users : Record(u, y) = DefaultRewardInfo
    BY DEF LpInv, TypeOK, Record
  <2>2. PICK w : w = WorthTable(y, 0)'
    OBVIOUS
  <2>3. ASSUME NEW u \in Users PROVE w[u] = 0
    <3>1. Record(u, y)' = DefaultRewardInfo
      BY <1>4, <2>1
    <3>2. Worth(u, y, 0)' = ONE * 0 + (0 * 0 - ONE * mul(0, 0))
      BY <3>1 DEF Worth, DefaultRewardInfo
    <3>3. mul(0, 0) = 0
      BY OnePos DEF mul
    <3>4. QED BY <2>2, <3>2, <3>3, OnePos DEF WorthTable
  <2>4. SumFunctionOnSet(w, Users) = 0
    BY <2>3, SumZero, LpAssumption
  <2>5. ValueTable'[y] = WorthSum(y, pools[y].reward_index)' + ONE * pools'[y].pending_reward
    BY DEF ValueTable
  <2>6. WorthSum(y, pools[y].reward_index)' = WorthSum(y, 0)'
    BY <1>3 DEF WorthSum, WorthTable, Worth
  <2>7. WorthSum(y, 0)' = 0
    BY <2>2, <2>4 DEF WorthSum
  <2>8. QED BY <1>3, <2>5, <2>6, <2>7, OnePos
<1>12. SumFunctionOnSet(z, DOMAIN pools) = prism - prism' /\ SumFunctionOnSet(z, DOMAIN pools) = rebonds' - rebonds
  <2>1. SumFunctionOnSet(z, DOMAIN pools) = 0
    BY <1>7, WeightsAre, SumZero
  <2>2. prism \in Nat /\ rebonds \in Nat /\ prism' = prism /\ rebonds' = rebonds
    BY <1>1, TypeParts DEF LpInv, ConfigType
  <2>3. QED BY <2>1, <2>2
<1>13. distribution_schedule' = distribution_schedule
  BY <1>1
<1>14. QED BY ONLY LpInv, LpInv', Books, P \in SUBSET DOMAIN pools,
        <1>6, <1>8, <1>9, <1>10, <1>11, <1>12, <1>13, BooksMove

\* The owner, the unbond period, tokens that arrive: nothing of the rewards.
LEMMA IdleBooks ==
  ASSUME LpInv, LpInv', Books,
         \/ UNCHANGED vars
         \/ \E s, o \in Owners : update_owner(s, o)
         \/ \E o, d : \E t \in DOMAIN pools : update_unbond_period(o, t, d)
         \/ \E t \in Tokens, a \in GiftAmounts : LpArrives(t, a)
  PROVE  Books'
<1>1. UNCHANGED <<stakeVars, now, distribution_schedule, total_weight, prism, rebonds>>
  BY DEF update_owner, update_unbond_period, LpArrives, configVars, vars, stakeVars
<1>2. \/ pools' = pools
      \/ \E t \in DOMAIN pools : \E d : pools' = [pools EXCEPT ![t].unbond_period = d]
  BY DEF update_owner, update_unbond_period, LpArrives, vars
<1>3. ASSUME NEW y \in DOMAIN pools
      PROVE  /\ pools'[y].reward_index = pools[y].reward_index
             /\ pools'[y].pending_reward = pools[y].pending_reward
             /\ pools'[y].weight = pools[y].weight
             /\ pools'[y].last_distributed = pools[y].last_distributed
  <2>1. CASE pools' = pools
    BY <2>1
  <2>2. ASSUME NEW t \in DOMAIN pools, NEW d, pools' = [pools EXCEPT ![t].unbond_period = d]
        PROVE  /\ pools'[y].reward_index = pools[y].reward_index
               /\ pools'[y].pending_reward = pools[y].pending_reward
               /\ pools'[y].weight = pools[y].weight
               /\ pools'[y].last_distributed = pools[y].last_distributed
    <3>1. PICK q \in PoolInfo : q = pools[y]
      BY DEF LpInv, TypeOK
    <3>2. pools'[y] = IF y = t THEN [q EXCEPT !.unbond_period = d] ELSE q
      BY <2>2, <3>1
    <3>3. QED BY <3>1, <3>2 DEF PoolInfo
  <2>3. QED BY <1>2, <2>1, <2>2
<1>4. DOMAIN pools' = DOMAIN pools
  BY <1>2
<1>5. SomeBrought({})
  BY <1>1, <1>3, <1>4 DEF SomeBrought
<1>6. \A x, y : Record(x, y)' = Record(x, y)
  BY <1>1 DEF Record, stakeVars
<1>7. \A y \in DOMAIN pools : SameWorth(y)
  BY <1>6, RecordsSame
<1>8. UNCHANGED <<distribution_schedule, prism, rebonds>>
  BY <1>1
<1>9. QED BY <1>3, <1>4, <1>5, <1>7, <1>8, BooksStay

LEMMA TimeBooks ==
  ASSUME LpInv, LpInv', Books,
         \/ EndBlock
         \/ \E o \in Owners, s \in Schedules : add_distribution_schedule(o, s)
  PROVE  Books'
<1>1. UNCHANGED <<stakeVars, pools, prism, rebonds>>
  BY DEF EndBlock, add_distribution_schedule
<1>2. ValueSum' = ValueSum
  BY <1>1 DEF ValueSum, ValueTable, WorthSum, WorthTable, Worth, Record, stakeVars
<1>3. BookedSum <= BookedSum'
  BY BookedSumStays
<1>4. PICK o \in Nat, B \in Nat, C \in Nat : o = ONE /\ B = BookedSum /\ C = BookedSum'
  BY BookedSumFacts, BookedSumFactsNext, OnePos DEF BookedSumFact
<1>5. o * B <= o * C
  <2>1. B <= C
    BY <1>3, <1>4
  <2>2. QED BY ONLY <2>1, o \in Nat, B \in Nat, C \in Nat
<1>6. PICK f \in Int, r \in Nat, V \in Nat : f = o * (Funding - prism) /\ r = o * rebonds /\ V = ValueSum
  <2>1. prism \in Nat /\ Funding \in Nat /\ rebonds \in Nat
    BY TypeParts, LpAssumption DEF LpInv, ConfigType
  <2>2. ValueSum \in Nat
    BY WorthIsNat DEF WorthNat
  <2>3. o * (Funding - prism) \in Int /\ o * rebonds \in Nat
    BY <2>1
  <2>4. QED BY ONLY <2>2, <2>3, Zenon
<1>7. f + V <= o * B + r
  BY <1>4, <1>6 DEF Books
<1>8. f + V <= o * C + r
  BY <1>5, <1>7
<1>9. QED BY <1>1, <1>2, <1>4, <1>6, <1>8 DEF Books

\* Until a weight is lowered ahead of a pool that has something to count.
BooksKept == repriced \/ Books

LEMMA RepricedStays ==
  ASSUME [Next]_vars, repriced
  PROVE  repriced'
<1>1. CASE \E o \in Owners, t \in DOMAIN pools, w \in Weights : update_weight(o, t, w)
  BY <1>1 DEF update_weight
<1>2. CASE \/ \E u \in Users, t \in DOMAIN pools, a \in BondAmounts : bond(u, t, a)
           \/ \E u \in Users, t \in DOMAIN pools : auto_stake_hook(u, t)
  BY <1>2 DEF bond, auto_stake_hook, Bonded, configVars
<1>3. ASSUME NEW u, NEW t, NEW a, unbond(u, t, a) PROVE repriced'
  BY <1>3 DEF unbond, configVars
<1>4. ASSUME NEW u, NEW S, claim_rewards(u, S) PROVE repriced'
  BY <1>4 DEF claim_rewards, configVars
<1>5. CASE \E u \in Users, t \in DOMAIN pools : claim_unbonded(u, t)
  BY <1>5 DEF claim_unbonded, configVars
<1>6. CASE \/ \E s, o \in Owners : update_owner(s, o)
           \/ \E o \in Owners, s \in Schedules : add_distribution_schedule(o, s)
           \/ \E o \in Owners, t \in Tokens, p \in Periods, w \in Weights :
                register_staking_token(o, t, p, w)
           \/ \E o \in Owners, t \in DOMAIN pools, p \in Periods : update_unbond_period(o, t, p)
           \/ \E t \in Tokens, a \in GiftAmounts : LpArrives(t, a)
           \/ EndBlock
           \/ UNCHANGED vars
  BY <1>6 DEF update_owner, add_distribution_schedule, register_staking_token,
              update_unbond_period, LpArrives, EndBlock, vars, configVars
<1>7. QED BY <1>1, <1>2, <1>3, <1>4, <1>5, <1>6, Zenon DEF Next

LEMMA BooksStep ==
  ASSUME LpInv, LpInv', BooksKept, [Next]_vars
  PROVE  BooksKept'
<1> SUFFICES ASSUME ~ repriced' PROVE Books'
  BY DEF BooksKept
<1>a. Books
  BY RepricedStays DEF BooksKept
<1> DEFINE Kept == Books'
<1>1. ConfigType /\ PoolsType /\ TypeOK /\ \A t \in DOMAIN pools : Accounted(t)
  BY TypeParts DEF LpInv
<1>2. \A t \in DOMAIN pools :
        /\ t \in Tokens /\ held[t] \in Nat
        /\ pools[t].total_bond_amount \in Nat /\ pools[t].total_pending_withdraw \in Nat
        /\ held[t] >= pools[t].total_bond_amount + pools[t].total_pending_withdraw
  BY <1>1 DEF ConfigType, PoolsType, PoolInfo, Accounted
<1>3. ASSUME NEW u \in Users, NEW t \in DOMAIN pools, NEW a \in Nat, Bonded(u, t, a),
             held' \in [Tokens -> Nat], \A x \in DOMAIN pools \ {t} : held'[x] = held[x],
             held'[t] >= pools[t].total_bond_amount + a + pools[t].total_pending_withdraw
      PROVE  Kept
  <2>1. PICK i \in RewardInfo, p \in PoolInfo :
           /\ OneCall(u, t, i, p) /\ Settled(u, t, i, p)
           /\ i.pending_reward = Earned(u, t).pending_reward
    BY <1>3, BondedMoves
  <2>2. Computable(pools[t], total_weight) /\ prism' = prism /\ rebonds' = rebonds + 1
    BY <1>3 DEF Bonded
  <2>3. QED BY <2>1, <2>2, <1>a, SettlingBooks
<1>4. ASSUME NEW u \in Users, NEW t \in DOMAIN pools, NEW a \in BondAmounts, bond(u, t, a)
      PROVE  Kept
  <2>1. a \in Nat
    BY LpAssumption
  <2>2. Bonded(u, t, a) /\ held' = [held EXCEPT ![t] = @ + a]
    BY <1>4 DEF bond
  <2>3. held \in [Tokens -> Nat] /\ held[t] + a \in Nat
    BY <1>1, <1>2, <2>1 DEF ConfigType
  <2>4. /\ held' \in [Tokens -> Nat] /\ held'[t] = held[t] + a
        /\ \A x \in DOMAIN pools \ {t} : held'[x] = held[x]
    BY <1>2, <2>2, <2>3
  <2>5. held'[t] >= pools[t].total_bond_amount + a + pools[t].total_pending_withdraw
    BY <1>2, <2>1, <2>4
  <2>6. QED BY <1>3, <2>1, <2>2, <2>4, <2>5
<1>5. ASSUME NEW u \in Users, NEW t \in DOMAIN pools, auto_stake_hook(u, t)
      PROVE  Kept
  <2>1. PICK a : a = held[t] - pools[t].total_bond_amount - pools[t].total_pending_withdraw
    OBVIOUS
  <2>2. Bonded(u, t, a) /\ held' = held
    BY <1>5, <2>1 DEF auto_stake_hook
  <2>3. a \in Nat /\ held[t] >= pools[t].total_bond_amount + a + pools[t].total_pending_withdraw
    BY <1>2, <2>1
  <2>4. held' \in [Tokens -> Nat] /\ \A x \in DOMAIN pools \ {t} : held'[x] = held[x]
    BY <1>1, <2>2 DEF ConfigType
  <2>5. QED BY <1>3, <2>2, <2>3, <2>4
<1>6. ASSUME NEW u \in Users, NEW t \in DOMAIN pools, NEW a \in Nat, unbond(u, t, a)
      PROVE  Kept
  <2>1. PICK i \in RewardInfo, p \in PoolInfo :
           /\ OneCall(u, t, i, p) /\ Settled(u, t, i, p)
           /\ i.pending_reward = Earned(u, t).pending_reward
    BY <1>6, UnbondMoves, ZenonT(40)
  <2>2. Computable(pools[t], total_weight) /\ prism' = prism /\ rebonds' = rebonds + 1
    BY <1>6 DEF unbond
  <2>3. QED BY <2>1, <2>2, <1>a, SettlingBooks
<1>7. ASSUME NEW u \in Users, NEW t \in DOMAIN pools, unbond(u, t, Record(u, t).bond_amount)
      PROVE  Kept
  <2>1. PICK a \in Nat : a = Record(u, t).bond_amount
    BY <1>1, RecordIs DEF RewardInfo
  <2>2. unbond(u, t, a)
    BY <1>7, <2>1 DEF unbond
  <2>3. QED BY <1>6, <2>2
<1>8. ASSUME NEW u \in Users, NEW t \in DOMAIN pools, claim_unbonded(u, t)
      PROVE  Kept
  BY <1>8, <1>a, ClaimUnbondedBooks
<1>9. ASSUME NEW u \in Users, NEW t \in DOMAIN pools, claim_rewards(u, {t})
      PROVE  Kept
  <2>1. PICK S \in SUBSET DOMAIN pools : S = {t}
    OBVIOUS
  <2>2. claim_rewards(u, S)
    BY <1>9, <2>1 DEF claim_rewards
  <2>3. QED BY <2>2, <1>a, ClaimRewardsBooks
<1>10. ASSUME NEW u \in Users, claim_rewards(u, StakedBy(u))
       PROVE  Kept
  <2>1. StakedBy(u) \subseteq DOMAIN pools
    BY <1>1 DEF StakedBy, TypeOK
  <2>2. PICK S \in SUBSET DOMAIN pools : S = StakedBy(u)
    BY <2>1
  <2>3. claim_rewards(u, S)
    BY <1>10, <2>2 DEF claim_rewards
  <2>4. QED BY <2>3, <1>a, ClaimRewardsBooks
<1>11. ASSUME \/ \E s, o \in Owners : update_owner(s, o)
              \/ \E t \in Tokens, a \in GiftAmounts : LpArrives(t, a)
              \/ UNCHANGED vars
       PROVE  Kept
  BY <1>11, <1>a, IdleBooks
<1>12. ASSUME NEW o \in Owners, NEW t \in DOMAIN pools, NEW p \in Periods,
              update_unbond_period(o, t, p)
       PROVE  Kept
  <2>1. \E x, d : \E y \in DOMAIN pools : update_unbond_period(x, y, d)
    BY <1>12
  <2>2. QED BY <2>1, <1>a, IdleBooks
<1>13. ASSUME NEW o \in Owners, NEW t \in Tokens, NEW p \in Periods, NEW w \in Weights,
              register_staking_token(o, t, p, w)
       PROVE  Kept
  BY <1>13, <1>a, WeightsBooks
<1>14. ASSUME NEW o \in Owners, NEW t \in DOMAIN pools, NEW w \in Weights, update_weight(o, t, w)
       PROVE  Kept
  <2>1. \E x : \E y \in DOMAIN pools, v \in Nat : update_weight(x, y, v)
    BY <1>14, LpAssumption
  <2>2. QED BY <2>1, <1>a, WeightsBooks
<1>15. ASSUME \/ EndBlock
              \/ \E o \in Owners, s \in Schedules : add_distribution_schedule(o, s)
       PROVE  Kept
  BY <1>15, <1>a, TimeBooks
<1>16. ASSUME NEW u \in Users, NEW t \in DOMAIN pools, NEW a \in UnbondAmounts, unbond(u, t, a)
       PROVE  Kept
  BY <1>6, <1>16, LpAssumption
<1> HIDE DEF Kept
<1>17. Kept
  BY <1>4, <1>5, <1>7, <1>8, <1>9, <1>10, <1>11, <1>12, <1>13, <1>14, <1>15, <1>16, Zenon
  DEF Next
<1>18. QED BY <1>17 DEF Kept

LEMMA BooksInit == Init => Books
<1> SUFFICES ASSUME Init PROVE Books
  OBVIOUS
<1>1. LpInv
  BY InitInv
<1>2. /\ pools = [t \in InitTokens |-> NewPool(InitWeight, InitPeriod, 0)]
      /\ reward_info = Empty /\ prism = Funding /\ rebonds = 0
  BY DEF Init
<1>3. \A u, t : Record(u, t) = DefaultRewardInfo
  BY <1>2 DEF Record, Empty
<1>4. ASSUME NEW t \in DOMAIN pools
      PROVE  ValueTable[t] = 0
  <2>1. pools[t].reward_index = 0 /\ pools[t].pending_reward = 0
    BY <1>2 DEF NewPool
  <2>2. PICK w : w = WorthTable(t, 0)
    OBVIOUS
  <2>3. ASSUME NEW u \in Users PROVE w[u] = 0
    <3>1. w[u] = Worth(u, t, 0)
      BY <2>2 DEF WorthTable
    <3>2. Record(u, t).pending_reward = 0 /\ Record(u, t).bond_amount = 0 /\ Record(u, t).reward_index = 0
      BY <1>3 DEF DefaultRewardInfo
    <3>3. mul(0, 0) = 0
      BY OnePos DEF mul
    <3>4. Worth(u, t, 0) = ONE * 0 + (0 * 0 - ONE * 0)
      BY <3>2, <3>3 DEF Worth
    <3>5. QED BY <3>1, <3>4, OnePos
  <2>4. WorthSum(t, 0) = 0
    BY <2>2, <2>3, SumZero, LpAssumption DEF WorthSum
  <2>5. ValueTable[t] = 0 + ONE * 0
    BY <2>1, <2>4 DEF ValueTable
  <2>6. QED BY <2>5, OnePos
<1>5. ValueSum = 0
  <2>1. IsFiniteSet(DOMAIN pools)
    BY <1>1, WeightsAre
  <2>2. QED BY <1>4, <2>1, SumZero DEF ValueSum
<1>6. BookedSum \in Nat
  BY <1>1, BookedSumFacts DEF BookedSumFact
<1>7. PICK o \in Nat, F \in Nat : o = ONE /\ F = Funding
  BY OnePos, LpAssumption
<1>8. o * (F - F) + 0 = 0
  OBVIOUS
<1>9. o * BookedSum + o * 0 \in Nat
  BY <1>6
<1>10. QED BY <1>2, <1>5, <1>7, <1>8, <1>9 DEF Books

-----------------------------------------------------------------------------
\* What was booked of a schedule and what every pool would be brought of it now is no more
\* than it has released.
LEMMA ReleasedShares ==
  ASSUME LpInv, NEW s \in Schedule, ValidSchedule(s),
         NEW X, X = [t \in DOMAIN pools |-> Share(s, pools[t])]
  PROVE  /\ \A t \in DOMAIN pools : X[t] \in Nat
         /\ SumFunctionOnSet(X, DOMAIN pools) \in Nat
         /\ ReleasedBy(s) \in Nat /\ Booked(s) \in Nat
         /\ Booked(s) + SumFunctionOnSet(X, DOMAIN pools) <= ReleasedBy(s)
<1>1. ConfigType /\ PoolsType
  BY TypeParts DEF LpInv
<1>2. PICK T : T = DOMAIN pools
  OBVIOUS
<1>3. IsFiniteSet(T)
  BY <1>2, WeightsAre
<1>4. PICK A \in Nat, d \in Nat \ {0}, o \in Nat \ {0} : A = s.amount /\ d = s.end - s.start /\ o = ONE
  <2>1. s.amount \in Nat /\ s.end - s.start \in Nat \ {0}
    BY DEF Schedule, ValidSchedule
  <2>2. QED BY <2>1, OnePos
<1>5. PICK e \in Nat : e = Elapsed(s)
  <2>1. s.start \in Nat /\ s.end \in Nat /\ s.start < s.end /\ now \in Nat
    BY <1>1 DEF Schedule, ValidSchedule, ConfigType
  <2>2. QED BY <2>1 DEF Elapsed, smaller
<1>6. PICK D : D = DueTable(s)
  OBVIOUS
<1>7. ASSUME NEW t \in T PROVE X[t] \in Nat /\ D[t] \in Nat /\ o * X[t] <= D[t]
  <2>1. PICK p \in PoolInfo : p = pools[t] /\ p.last_distributed <= now
    BY <1>1, <1>2 DEF PoolsType
  <2>2. Due(s, p) \in Nat /\ Share(s, p) \in Nat /\ ONE * Share(s, p) <= Due(s, p)
    BY <1>1, <2>1, ShareFacts
  <2>3. X[t] = Share(s, p) /\ D[t] = Due(s, p)
    BY <1>2, <1>6, <2>1 DEF DueTable
  <2>4. QED BY <1>4, <2>2, <2>3
<1>8. PICK x \in Nat, Y \in Nat : x = SumFunctionOnSet(X, T) /\ Y = SumFunctionOnSet(D, T)
  BY <1>3, <1>7, SumNat
<1>9. o * x <= Y
  <2>1. PICK z : z = [t \in T |-> 0]
    OBVIOUS
  <2>2. \A t \in T : D[t] \in Nat /\ z[t] \in Nat /\ X[t] \in Nat /\ o * X[t] <= D[t] + 0 * z[t]
    BY <1>7, <2>1
  <2>3. o * SumFunctionOnSet(X, T) <= SumFunctionOnSet(D, T) + 0 * SumFunctionOnSet(z, T)
    BY <1>3, <2>2, SumBound
  <2>4. SumFunctionOnSet(z, T) = 0
    BY <1>3, <2>1, SumZero
  <2>5. QED BY <1>8, <2>3, <2>4
<1>10. PICK b \in Nat : b = Booked(s) /\ d * (o * b + Y) <= A * o * e
  <2>1. Booked(s) \in Nat /\ (s.end - s.start) * (ONE * Booked(s) + Open(s)) <= Limit(s)
    BY BookedFacts DEF BookedFact
  <2>2. Y = Open(s)
    BY <1>2, <1>6, <1>8 DEF Open
  <2>3. QED BY <1>4, <1>5, <2>1, <2>2 DEF Limit
<1>11. PICK n \in Nat : n = b + x
  OBVIOUS
<1>12. o * (d * n) <= o * (A * e)
  <2>1. o * n <= o * b + Y
    BY <1>9, <1>11
  <2>2. PICK j \in Nat, k \in Nat : j = o * n /\ k = o * b + Y
    OBVIOUS
  <2>3. d * j <= d * k
    BY <2>1, <2>2
  <2>4. d * j = o * (d * n) /\ A * o * e = o * (A * e)
    BY <2>2
  <2>5. QED BY <1>10, <2>2, <2>3, <2>4
<1>13. PICK l \in Nat, m \in Nat : l = d * n /\ m = A * e
  OBVIOUS
<1>14. l <= m
  BY <1>12, <1>13, LeqByFactor
<1>15. PICK q \in Nat : q = m \div d /\ q * d <= m /\ m < q * d + d
  BY DivFacts
<1>16. n <= q
  <2>1. n * d < (q + 1) * d
    BY <1>13, <1>14, <1>15
  <2>2. n < q + 1
    BY <2>1, LessByFactor
  <2>3. QED BY <2>2
<1>17. ReleasedBy(s) = q
  <2>1. CASE s.start > now
    <3>1. e = 0
      BY <1>5, <2>1 DEF Elapsed
    <3>2. m = 0
      BY <1>13, <3>1
    <3>3. q = 0
      <4>1. q * d = 0
        BY <1>15, <3>2
      <4>2. QED BY <4>1
    <3>4. QED BY <2>1, <3>3 DEF ReleasedBy
  <2>2. CASE ~(s.start > now)
    BY <1>4, <1>5, <1>13, <1>15, <2>2 DEF Elapsed, ReleasedBy
  <2>3. QED BY <2>1, <2>2
<1>18. QED BY <1>2, <1>7, <1>8, <1>10, <1>11, <1>16, <1>17

LEMMA ReleasedCovers ==
  ASSUME LpInv, total_weight > 0,
         NEW R, R = [i \in DOMAIN distribution_schedule |-> ReleasedBy(distribution_schedule[i])]
  PROVE  /\ \A t \in DOMAIN pools : GainTable[t] \in Nat
         /\ SumFunctionOnSet(GainTable, DOMAIN pools) \in Nat
         /\ SumFunctionOnSet(R, DOMAIN distribution_schedule) \in Nat
         /\ BookedSum + SumFunctionOnSet(GainTable, DOMAIN pools)
              <= SumFunctionOnSet(R, DOMAIN distribution_schedule)
<1>1. ConfigType /\ PoolsType
  BY TypeParts DEF LpInv
<1>2. PICK S : S = DOMAIN distribution_schedule
  OBVIOUS
<1>3. PICK c : c = distribution_schedule
  OBVIOUS
<1>4. PICK P : P = DOMAIN pools
  OBVIOUS
<1>5. BookedSumFact
  BY BookedSumFacts
<1>6. IsFiniteSet(S) /\ \A i \in S : c[i] \in Schedule /\ ValidSchedule(c[i])
  BY <1>2, <1>3, <1>5 DEF BookedSumFact
<1>7. PICK f : f = [i \in S |-> [t \in P |-> Share(c[i], pools[t])]]
  OBVIOUS
<1>8. PICK g : g = [t \in P |-> [i \in S |-> Share(c[i], pools[t])]]
  OBVIOUS
<1>9. PICK r : r = [i \in S |-> SumFunctionOnSet(f[i], P)]
  OBVIOUS
<1>10. PICK b : b = BookedTable
  OBVIOUS
<1>11. ASSUME NEW i \in S
       PROVE  /\ \A t \in P : f[i][t] \in Nat
              /\ b[i] \in Nat /\ R[i] \in Nat /\ r[i] \in Nat /\ b[i] + r[i] <= R[i]
  <2>1. PICK s \in Schedule : s = c[i] /\ ValidSchedule(s)
    BY <1>6
  <2>2. PICK X : X = [t \in DOMAIN pools |-> Share(s, pools[t])]
    OBVIOUS
  <2>3. f[i] = X /\ r[i] = SumFunctionOnSet(X, P)
    BY <1>4, <1>7, <1>9, <2>1, <2>2
  <2>4. /\ \A t \in P : X[t] \in Nat
        /\ SumFunctionOnSet(X, P) \in Nat
        /\ ReleasedBy(s) \in Nat
        /\ Booked(s) + SumFunctionOnSet(X, P) <= ReleasedBy(s)
    BY <1>4, <2>1, <2>2, ReleasedShares
  <2>5. b[i] \in Nat /\ b[i] = Booked(s) /\ R[i] = ReleasedBy(s)
    BY <1>2, <1>3, <1>5, <1>10, <2>1 DEF BookedSumFact
  <2>6. QED BY <2>3, <2>4, <2>5
<1>12. IsFiniteSet(P)
  BY <1>4, WeightsAre
<1>13. \A t \in P : GainTable[t] = SumFunctionOnSet(g[t], S)
  <2>1. ASSUME NEW t \in P PROVE GainTable[t] = SumFunctionOnSet(g[t], S)
    <3>1. t \in DOMAIN pools /\ g[t] = [i \in S |-> Share(c[i], pools[t])]
      BY <1>4, <1>8
    <3>2. QED BY <1>2, <1>3, <3>1 DEF GainTable
  <2>2. QED BY <2>1
<1>14. \A i \in S, t \in P : f[i][t] \in Nat /\ g[t][i] = f[i][t]
  BY <1>7, <1>8, <1>11
<1>15. PICK G : G = GainTable
  OBVIOUS
<1>16. ASSUME NEW t \in P PROVE G[t] \in Nat
  <2>1. \A i \in S : g[t][i] \in Nat
    BY <1>14
  <2>2. SumFunctionOnSet(g[t], S) \in Nat
    BY <1>6, <2>1, SumNat
  <2>3. QED BY <1>13, <1>15, <2>2
<1>17. SumFunctionOnSet(r, S) = SumFunctionOnSet(G, P)
  <2>1. \A i \in S : r[i] = SumFunctionOnSet(f[i], P)
    BY <1>9
  <2>2. \A t \in P : G[t] = SumFunctionOnSet(g[t], S)
    BY <1>13, <1>15
  <2>3. Table(S, P, f, g, r, G)
    BY ONLY <1>14, <2>1, <2>2 DEF Table
  <2>4. QED BY <1>6, <1>12, <2>3, SumSwap
<1>18. PICK k : k = [i \in S |-> b[i] + r[i]]
  OBVIOUS
<1>19. SumFunctionOnSet(k, S) = SumFunctionOnSet(b, S) + SumFunctionOnSet(r, S)
  <2>1. \A i \in S : b[i] \in Nat /\ r[i] \in Nat /\ k[i] = b[i] + r[i]
    BY <1>11, <1>18
  <2>2. QED BY <1>6, <2>1, SumAdd
<1>20. SumFunctionOnSet(k, S) <= SumFunctionOnSet(R, S) /\ SumFunctionOnSet(R, S) \in Nat
  <2>1. PICK z : z = [i \in S |-> 0]
    OBVIOUS
  <2>2. \A i \in S : R[i] \in Nat /\ z[i] \in Nat /\ k[i] \in Nat /\ 1 * k[i] <= R[i] + 0 * z[i]
    <3>1. ASSUME NEW i \in S
          PROVE  R[i] \in Nat /\ z[i] \in Nat /\ k[i] \in Nat /\ 1 * k[i] <= R[i] + 0 * z[i]
      <4>1. PICK x \in Nat, y \in Nat, q \in Nat : x = b[i] /\ y = r[i] /\ q = R[i] /\ x + y <= q
        BY <1>11
      <4>2. k[i] = x + y /\ z[i] = 0
        BY <1>18, <2>1, <4>1
      <4>3. QED BY ONLY <4>1, <4>2
    <3>2. QED BY ONLY <3>1
  <2>3. 1 * SumFunctionOnSet(k, S) <= SumFunctionOnSet(R, S) + 0 * SumFunctionOnSet(z, S)
    BY <1>6, <2>2, SumBound
  <2>4. /\ SumFunctionOnSet(k, S) \in Nat /\ SumFunctionOnSet(R, S) \in Nat
        /\ SumFunctionOnSet(z, S) \in Nat
    BY <1>6, <2>2, SumNat
  <2>5. QED BY <2>3, <2>4
<1>21. SumFunctionOnSet(G, P) \in Nat
  BY <1>12, <1>16, SumNat
<1>22. BookedSum = SumFunctionOnSet(b, S)
  BY <1>2, <1>10 DEF BookedSum
<1>23. QED BY <1>2, <1>4, <1>15, <1>16, <1>17, <1>19, <1>20, <1>21, <1>22

\* What the stakers of a pool could claim now, rounded for each of them, is within what the
\* pool has for them.
LEMMA OwedWithin ==
  ASSUME LpInv, total_weight > 0, NEW t \in DOMAIN pools,
         NEW c, c = [u \in Users |-> Claimable(u, t)]
  PROVE  /\ \A u \in Users : c[u] \in Nat
         /\ SumFunctionOnSet(c, Users) \in Nat
         /\ Up(t).pending_reward \in Nat
         /\ ValueTable[t] \in Nat /\ GainTable[t] \in Nat
         /\ ONE * (SumFunctionOnSet(c, Users) + Up(t).pending_reward)
              <= ValueTable[t] + ONE * GainTable[t]
<1>1. Computable(pools[t], total_weight)
  BY DEF Computable
<1>2. PICK i \in Nat, y \in Nat, g \in Nat, W \in Nat, o \in Nat :
        /\ i = Up(t).reward_index /\ y = Up(t).pending_reward /\ g = GainTable[t]
        /\ W = WorthSum(t, i) /\ o = ONE
  BY <1>1, UpWorth, OnePos
<1>3. pools[t].reward_index <= i /\ W + o * y <= ValueTable[t] + o * g
  BY <1>1, <1>2, UpWorth
<1>4. PICK w : w = WorthTable(t, i)
  OBVIOUS
<1>5. WorthNat
  BY WorthIsNat
<1>6. pools[t].reward_index \in Nat /\ ValueTable[t] \in Nat
  BY <1>5 DEF WorthNat
<1>7. ASSUME NEW u \in Users PROVE c[u] \in Nat /\ w[u] \in Nat /\ o * c[u] <= w[u]
  <2>1. w[u] = Worth(u, t, i)
    BY <1>4 DEF WorthTable
  <2>2. w[u] \in Nat
    BY <1>3, <1>5, <1>6, <2>1 DEF WorthNat
  <2>3. ClaimFact
    BY ClaimFacts
  <2>4. PICK b \in Nat, p \in Nat, j \in Nat :
          /\ b = Record(u, t).bond_amount /\ p = Record(u, t).pending_reward
          /\ j = Record(u, t).reward_index
    BY <2>3 DEF ClaimFact, RewardInfo
  <2>5. j <= i /\ Claimable(u, t) = p + (mul(b, i) - mul(b, j))
    BY <1>2, <2>3, <2>4 DEF ClaimFact
  <2>6. PICK m \in Nat, n \in Nat : m = mul(b, i) /\ n = mul(b, j)
    BY MulNat
  <2>7. n <= m
    BY <2>5, <2>6, MulGrows
  <2>8. o * m <= b * i
    BY <1>2, <2>6, MulRest
  <2>9. w[u] = o * p + (b * i - o * n)
    BY <1>2, <2>1, <2>4, <2>6 DEF Worth
  <2>10. c[u] = p + (m - n)
    BY <2>5, <2>6
  <2>11. o * (p + (m - n)) = o * p + (o * m - o * n)
    OBVIOUS
  <2>12. PICK x \in Nat : x = b * i
    OBVIOUS
  <2>13. o * p \in Nat /\ o * m \in Nat /\ o * n \in Nat
    OBVIOUS
  <2>14. o * (p + (m - n)) <= o * p + (x - o * n)
    BY <2>8, <2>11, <2>12, <2>13
  <2>15. QED BY <2>2, <2>7, <2>9, <2>10, <2>12, <2>14
<1>8. PICK C \in Nat : C = SumFunctionOnSet(c, Users)
  BY <1>7, SumNat, LpAssumption
<1>9. o * C <= W
  <2>1. PICK z : z = [u \in Users |-> 0]
    OBVIOUS
  <2>2. \A u \in Users : w[u] \in Nat /\ z[u] \in Nat /\ c[u] \in Nat /\ o * c[u] <= w[u] + 0 * z[u]
    BY <1>7, <2>1
  <2>3. o * SumFunctionOnSet(c, Users) <= SumFunctionOnSet(w, Users) + 0 * SumFunctionOnSet(z, Users)
    BY <2>2, SumBound, LpAssumption
  <2>4. SumFunctionOnSet(z, Users) = 0
    BY <2>1, SumZero, LpAssumption
  <2>5. W = SumFunctionOnSet(w, Users)
    BY <1>2, <1>4 DEF WorthSum
  <2>6. QED BY <1>2, <1>8, <2>3, <2>4, <2>5
<1>10. o * (C + y) <= ValueTable[t] + o * g
  <2>1. o * (C + y) = o * C + o * y
    OBVIOUS
  <2>2. o * C \in Nat /\ o * y \in Nat /\ o * g \in Nat
    OBVIOUS
  <2>3. QED BY <1>3, <1>6, <1>9, <2>1, <2>2
<1>11. QED BY <1>2, <1>6, <1>7, <1>8, <1>10

LEMMA BooksWithin == LpInv /\ BooksKept => WithinSchedules
<1> SUFFICES ASSUME LpInv, Books, total_weight > 0
             PROVE  (Funding - prism)
                      + SumFunctionOnSet([k \in Users \X (DOMAIN pools) |-> Claimable(k[1], k[2])],
                                         Users \X (DOMAIN pools))
                      + SumFunctionOnSet([t \in DOMAIN pools |->
                                            compute_pool_reward(pools[t], total_weight).pending_reward],
                                         DOMAIN pools)
                    <= SumFunctionOnSet([i \in DOMAIN distribution_schedule |->
                                           ReleasedBy(distribution_schedule[i])],
                                        DOMAIN distribution_schedule) + rebonds
  BY DEF WithinSchedules, SumOver, BooksKept
<1>1. PICK T : T = DOMAIN pools
  OBVIOUS
<1>2. PICK f : f = [k \in Users \X (DOMAIN pools) |-> Claimable(k[1], k[2])]
  OBVIOUS
<1>3. PICK y : y = [t \in DOMAIN pools |-> compute_pool_reward(pools[t], total_weight).pending_reward]
  OBVIOUS
<1>4. PICK R : R = [i \in DOMAIN distribution_schedule |-> ReleasedBy(distribution_schedule[i])]
  OBVIOUS
<1>5. PICK g : g = [t \in T |-> [u \in Users |-> Claimable(u, t)]]
  OBVIOUS
<1>6. PICK c : c = [t \in T |-> SumFunctionOnSet(g[t], Users)]
  OBVIOUS
<1>7. PICK a : a = [t \in T |-> c[t] + y[t]]
  OBVIOUS
<1>8. PICK v : v = ValueTable
  OBVIOUS
<1>9. PICK G : G = GainTable
  OBVIOUS
<1>10. PICK o \in Nat \ {0} : o = ONE
  BY OnePos
<1>11. IsFiniteSet(T) /\ IsFiniteSet(Users)
  BY <1>1, WeightsAre, LpAssumption
<1>12. ASSUME NEW t \in T
       PROVE  /\ \A u \in Users : g[t][u] \in Nat /\ g[t][u] = Claimable(u, t)
              /\ c[t] \in Nat /\ y[t] \in Nat /\ v[t] \in Nat /\ G[t] \in Nat
              /\ o * (c[t] + y[t]) <= v[t] + o * G[t]
  <2>1. PICK h : h = [u \in Users |-> Claimable(u, t)]
    OBVIOUS
  <2>2. /\ \A u \in Users : h[u] \in Nat
        /\ SumFunctionOnSet(h, Users) \in Nat
        /\ Up(t).pending_reward \in Nat
        /\ ValueTable[t] \in Nat /\ GainTable[t] \in Nat
        /\ ONE * (SumFunctionOnSet(h, Users) + Up(t).pending_reward)
              <= ValueTable[t] + ONE * GainTable[t]
    BY <1>1, <2>1, OwedWithin
  <2>3. g[t] = h /\ c[t] = SumFunctionOnSet(h, Users)
    BY <1>5, <1>6, <2>1
  <2>4. y[t] = Up(t).pending_reward
    BY <1>1, <1>3 DEF Up
  <2>5. \A u \in Users : h[u] = Claimable(u, t)
    BY <2>1
  <2>6. QED BY <1>8, <1>9, <1>10, <2>2, <2>3, <2>4, <2>5
<1>13. PICK C \in Nat, Y \in Nat, V \in Nat, K \in Nat :
         /\ C = SumFunctionOnSet(c, T) /\ Y = SumFunctionOnSet(y, T)
         /\ V = SumFunctionOnSet(v, T) /\ K = SumFunctionOnSet(G, T)
  BY <1>11, <1>12, SumNat
<1>14. SumFunctionOnSet(f, Users \X T) = C
  <2>1. \A u \in Users, t \in T : f[<<u, t>>] \in Nat /\ g[t][u] = f[<<u, t>>]
    <3>1. ASSUME NEW u \in Users, NEW t \in T
          PROVE  f[<<u, t>>] \in Nat /\ g[t][u] = f[<<u, t>>]
      <4>1. f[<<u, t>>] = Claimable(u, t)
        BY <1>1, <1>2
      <4>2. QED BY <1>12, <4>1
    <3>2. QED BY <3>1
  <2>2. \A t \in T : c[t] = SumFunctionOnSet(g[t], Users)
    BY <1>6
  <2>3. Columns(Users, T, f, g, c)
    BY <2>1, <2>2, Zenon DEF Columns
  <2>4. SumFunctionOnSet(f, Users \X T) = SumFunctionOnSet(c, T)
    BY <1>11, <2>3, SumProduct
  <2>5. QED BY <1>13, <2>4
<1>15. o * (C + Y) <= V + o * K
  <2>1. PICK z : z = [t \in T |-> 0]
    OBVIOUS
  <2>2. \A t \in T : c[t] \in Nat /\ y[t] \in Nat /\ a[t] = c[t] + y[t]
    BY <1>7, <1>12
  <2>3. SumFunctionOnSet(a, T) = C + Y
    BY <1>11, <1>13, <2>2, SumAdd
  <2>4. ASSUME NEW t \in T
        PROVE  /\ z[t] \in Nat /\ a[t] \in Nat /\ v[t] \in Nat /\ G[t] \in Nat
               /\ z[t] + o * a[t] <= v[t] + o * G[t]
    <3>1. PICK x \in Nat, q \in Nat : x = a[t] /\ q = G[t] /\ o * x <= v[t] + o * q
      BY <1>12, <2>2
    <3>2. z[t] = 0 /\ v[t] \in Nat
      BY <1>12, <2>1
    <3>3. o * x \in Nat
      OBVIOUS
    <3>4. QED BY ONLY <3>1, <3>2, <3>3
  <2>5. SumFunctionOnSet(z, T) + o * SumFunctionOnSet(a, T)
          <= SumFunctionOnSet(v, T) + o * SumFunctionOnSet(G, T)
    BY ONLY <1>11, <2>4, o \in Nat \ {0}, SumBalance
  <2>6. SumFunctionOnSet(z, T) = 0
    BY <1>11, <2>1, SumZero
  <2>7. o * (C + Y) \in Nat
    OBVIOUS
  <2>8. QED BY <1>13, <2>3, <2>5, <2>6, <2>7
<1>16. PICK B \in Nat, L \in Nat : B = BookedSum /\ L = SumFunctionOnSet(R, DOMAIN distribution_schedule)
  BY <1>4, ReleasedCovers, BookedSumFacts DEF BookedSumFact
<1>17. B + K <= L
  BY <1>1, <1>4, <1>9, <1>13, <1>16, ReleasedCovers
<1>18. PICK p \in Nat, F \in Nat, n \in Nat : p = prism /\ F = Funding /\ n = rebonds
  BY TypeParts, LpAssumption DEF LpInv, ConfigType
<1>19. o * (F - p) + V <= o * B + o * n
  <2>1. V = ValueSum
    BY <1>1, <1>8, <1>13 DEF ValueSum
  <2>2. QED BY <1>10, <1>16, <1>18, <2>1 DEF Books
<1>20. PICK x \in Int, k \in Int : x = (F - p) + C + Y /\ k = L + n
  OBVIOUS
<1>21. o * x <= o * k
  <2>1. o * x = o * (F - p) + o * (C + Y)
    BY ONLY <1>20, o \in Nat, F \in Nat, p \in Nat, C \in Nat, Y \in Nat
  <2>2. o * (B + K) <= o * L
    BY ONLY <1>17, o \in Nat, B \in Nat, K \in Nat, L \in Nat
  <2>3. o * (B + K) = o * B + o * K /\ o * k = o * L + o * n
    BY <1>20
  <2>4. /\ o * (F - p) \in Int /\ o * (C + Y) \in Int /\ o * B \in Int /\ o * K \in Int
        /\ o * n \in Int /\ o * L \in Int
    OBVIOUS
  <2>5. QED BY <1>15, <1>19, <2>1, <2>2, <2>3, <2>4
<1>22. x <= k
  <2>1. SUFFICES ASSUME x > k PROVE FALSE
    OBVIOUS
  <2>2. o * x > o * k
    BY <2>1
  <2>3. QED BY <1>21, <2>2
<1>23. QED BY <1>1, <1>2, <1>3, <1>4, <1>13, <1>14, <1>16, <1>18, <1>20, <1>22

\* What was paid, what every staker could claim now and what waits for a bond never exceed
\* what the schedules have released by now, for any schedules, any weights and any number
\* of raises of them, up to one unit for each change of a bond: compute_pool_reward brings
\* no second of a schedule to the pools twice and rounds against them.  It holds until a
\* weight is lowered ahead of a pool whose past is not computed (update_staking_token).
THEOREM SchedulesCoverRewards == Spec => []WithinSchedules
<1>1. LpInv /\ LpInv' /\ BooksKept /\ [Next]_vars => BooksKept'
  BY BooksStep
<1>2. Init => BooksKept
  BY BooksInit DEF BooksKept
<1>3. QED BY InvAlways, <1>1, <1>2, BooksWithin, PTL DEF Spec
=============================================================================
