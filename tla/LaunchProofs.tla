---------------------------- MODULE LaunchProofs ----------------------------
(***************************************************************************)
(* Proofs about LaunchPool and the boost contract it works with.           *)
(***************************************************************************)
EXTENDS LaunchPool, Arithmetic

\* The users' vests are finitely many, so that what has vested is a sum.
VestsFinite == \A u \in Users : IsFiniteSet(DOMAIN scheduled_vest[u])

TypeInv == TypeOK /\ VestsFinite

\* The parts of the invariant, by what the actions write.
BoostType == BoostTypeOK /\ now \in Nat
ConfigType == pool_config \in PoolConfig /\ pool_config.start <= pool_config.end
StatusType == base_status \in DistributionStatus /\ boost_status \in DistributionStatus
RecordType ==
  /\ bond_amounts \in [Users -> Nat]
  /\ DOMAIN reward_info \subseteq Users
  /\ reward_info \in [DOMAIN reward_info -> RewardInfo]
  /\ \A u \in DOMAIN reward_info : /\ reward_info[u].base_index <= base_status.reward_index
                                   /\ reward_info[u].boost_index <= boost_status.reward_index
VestType ==
  /\ DOMAIN scheduled_vest = Users
  /\ \A u \in Users : /\ scheduled_vest[u] \in [DOMAIN scheduled_vest[u] -> Nat]
                      /\ IsFiniteSet(DOMAIN scheduled_vest[u])
  /\ pending_withdraw \in [Users -> Nat]
OtherType ==
  /\ prism_held \in Nat /\ staked_yluna \in Nat
  /\ last_address \in Users \cup {0} /\ untold \subseteq Users
  /\ refreshes \in Nat

LEMMA TypeParts ==
  TypeInv <=> /\ BoostType /\ ConfigType /\ StatusType /\ RecordType /\ VestType /\ OtherType
  BY DEF TypeInv, TypeOK, VestsFinite, BoostType, ConfigType, StatusType, RecordType, VestType,
       OtherType

LEMMA UsersFinite == IsFiniteSet(Users) /\ Users \subseteq Nat \ {0}
  BY BoostAssumption

-----------------------------------------------------------------------------
(***************************************************************************)
(* The operators.                                                          *)
(***************************************************************************)
\* What a schedule has distributed is a natural, and no more than its amount.
LEMMA DistributeNat ==
  ASSUME ConfigType, now \in Nat, now >= pool_config.start, denom > 0, NEW ratio \in Nat
  PROVE  total_distribute(ratio) \in Nat
<1>1. pool_config.start \in Nat /\ pool_config.end \in Nat /\ pool_config.amount \in Nat
  BY DEF ConfigType, PoolConfig
<1>2. denom \in Nat \ {0}
  BY <1>1 DEF denom
<1>3. smaller(now - pool_config.start, denom) \in Nat
  BY <1>1, <1>2 DEF smaller
<1>4. pool_config.amount * smaller(now - pool_config.start, denom) \in Nat
  BY <1>1, <1>3
<1>5. (pool_config.amount * smaller(now - pool_config.start, denom)) \div denom \in Nat
  BY <1>2, <1>4, DivFacts
<1>6. QED BY <1>5, MulNat DEF total_distribute

\* An update keeps the weight and never lowers the index.
LEMMA UpdatedStatus ==
  ASSUME ConfigType, now \in Nat, NEW status \in DistributionStatus, NEW ratio \in Nat,
         Updatable(status, ratio)
  PROVE  /\ update_reward_index(status, ratio) \in DistributionStatus
         /\ update_reward_index(status, ratio).total_weight = status.total_weight
         /\ update_reward_index(status, ratio).reward_index >= status.reward_index
<1> DEFINE s == update_reward_index(status, ratio)
           d == total_distribute(ratio)
           here == d - status.total_distributed + status.pending_reward
<1>0. pool_config.start \in Nat
  BY DEF ConfigType, PoolConfig
<1>1. /\ status.total_distributed \in Nat /\ status.total_weight \in Nat
      /\ status.pending_reward \in Nat /\ status.reward_index \in Nat
      /\ status = [total_distributed |-> status.total_distributed,
                   total_weight |-> status.total_weight,
                   pending_reward |-> status.pending_reward,
                   reward_index |-> status.reward_index]
  BY DEF DistributionStatus
<1>2. CASE now < pool_config.start
  <2>1. s = status
    BY <1>2 DEF update_reward_index
  <2>2. QED BY <1>1, <2>1
<1>3. CASE ~(now < pool_config.start)
  <2>1. d \in Nat /\ here \in Nat
    <3>1. denom > 0 /\ status.total_distributed <= d /\ now >= pool_config.start
      BY <1>0, <1>3 DEF Updatable
    <3>2. d \in Nat
      BY <3>1, DistributeNat
    <3>3. QED BY <1>1, <3>1, <3>2
  <2>2. CASE status.total_weight = 0
    <3>1. s = [status EXCEPT !.total_distributed = d, !.pending_reward = here]
      BY <1>3, <2>2 DEF update_reward_index
    <3>2. s = [total_distributed |-> d, total_weight |-> status.total_weight,
               pending_reward |-> here, reward_index |-> status.reward_index]
      BY <3>1 DEF DistributionStatus
    <3> HIDE DEF d, here, s
    <3>3. s \in DistributionStatus /\ s.total_weight = status.total_weight
          /\ s.reward_index = status.reward_index
      BY <1>1, <2>1, <3>2 DEF DistributionStatus
    <3>4. QED BY <1>1, <3>3 DEF s
  <2>3. CASE status.total_weight # 0
    <3>1. s = [status EXCEPT !.total_distributed = d, !.pending_reward = 0,
                             !.reward_index = @ + from_ratio(here, status.total_weight)]
      BY <1>3, <2>3 DEF update_reward_index
    <3>2. PICK q : q = from_ratio(here, status.total_weight)
      OBVIOUS
    <3>3. s = [total_distributed |-> d, total_weight |-> status.total_weight,
               pending_reward |-> 0, reward_index |-> status.reward_index + q]
      BY <3>1, <3>2 DEF DistributionStatus
    <3> HIDE DEF d, here, s
    <3>4. q \in Nat
      BY <1>1, <2>1, <2>3, <3>2, RatioNat
    <3>5. s \in DistributionStatus /\ s.total_weight = status.total_weight
          /\ s.reward_index = status.reward_index + q
      BY <1>1, <2>1, <3>3, <3>4 DEF DistributionStatus
    <3>6. QED BY <1>1, <3>4, <3>5 DEF s
  <2>4. QED BY <2>2, <2>3
<1>4. QED BY <1>2, <1>3

LEMMA RatiosNat ==
  ASSUME ConfigType
  PROVE  pool_config.base_pool_ratio \in Nat /\ boost_pool_ratio \in Nat
         /\ pool_config.base_pool_ratio <= ONE
  BY OnePos DEF ConfigType, PoolConfig, boost_pool_ratio

\* update_reward_indexes
LEMMA UpdatedIndexes ==
  ASSUME ConfigType, StatusType, now \in Nat, IndexesUpdatable
  PROVE  /\ Base \in DistributionStatus /\ Boost \in DistributionStatus
         /\ Base.total_weight = base_status.total_weight
         /\ Boost.total_weight = boost_status.total_weight
         /\ Base.reward_index >= base_status.reward_index
         /\ Boost.reward_index >= boost_status.reward_index
<1>1. pool_config.base_pool_ratio \in Nat /\ boost_pool_ratio \in Nat
  BY RatiosNat
<1>2. QED BY <1>1, UpdatedStatus DEF StatusType, IndexesUpdatable, Base, Boost

\* _pull_pending_rewards never subtracts too much.
LEMMA PulledInfo ==
  ASSUME ConfigType, StatusType, RecordType, now \in Nat, IndexesUpdatable, NEW u \in Users
  PROVE  LET info == pull_pending_rewards(u)
         IN  /\ info \in RewardInfo
             /\ info.base_index = Base.reward_index /\ info.boost_index = Boost.reward_index
             /\ info.boost_weight = Weight(u)
             /\ info.pending_reward >= (IF u \in DOMAIN reward_info
                                        THEN reward_info[u].pending_reward ELSE 0)
<1>1. PICK b \in Nat, c \in Nat : b = Base.reward_index /\ c = Boost.reward_index
  BY UpdatedIndexes DEF DistributionStatus
<1>2. PICK info : info = Info(u)
  OBVIOUS
<1>3. /\ info.base_index \in Nat /\ info.boost_index \in Nat
      /\ info.boost_weight \in Nat /\ info.pending_reward \in Nat
      /\ info.base_index <= b /\ info.boost_index <= c
      /\ info.boost_weight = Weight(u)
      /\ info.pending_reward = (IF u \in DOMAIN reward_info
                                THEN reward_info[u].pending_reward ELSE 0)
      /\ info \in RewardInfo
  <2>1. CASE u \in DOMAIN reward_info
    <3>1. info = reward_info[u] /\ info \in RewardInfo
      BY <1>2, <2>1 DEF Info, RecordType
    <3>2. info.base_index <= base_status.reward_index
          /\ info.boost_index <= boost_status.reward_index
          /\ base_status.reward_index \in Nat /\ boost_status.reward_index \in Nat
      BY <2>1, <3>1 DEF RecordType, StatusType, DistributionStatus
    <3>3. base_status.reward_index <= b /\ boost_status.reward_index <= c
      BY <1>1, <3>2, UpdatedIndexes
    <3>4. QED BY <2>1, <3>1, <3>2, <3>3 DEF RewardInfo, Weight
  <2>2. CASE u \notin DOMAIN reward_info
    BY <1>1, <1>2, <2>2 DEF Info, Weight, RewardInfo
  <2>3. QED BY <2>1, <2>2
<1>4. bond_amounts[u] \in Nat
  BY DEF RecordType
<1>a. ASSUME NEW n \in Nat, NEW i \in Nat, NEW j \in Nat, i <= j
      PROVE  mul(n, j) - mul(n, i) \in Nat
  <2>1. mul(n, i) \in Nat /\ mul(n, j) \in Nat
    BY MulNat
  <2>2. mul(n, i) <= mul(n, j)
    BY <1>a, MulGrows
  <2>3. QED BY <2>1, <2>2
<1>5. PICK x : x = mul(bond_amounts[u], b) - mul(bond_amounts[u], info.base_index) /\ x \in Nat
  BY <1>3, <1>4, <1>a
<1>6. PICK y : y = mul(info.boost_weight, c) - mul(info.boost_weight, info.boost_index) /\ y \in Nat
  BY <1>3, <1>a
<1>7. pull_pending_rewards(u) = [info EXCEPT !.pending_reward = @ + x + y,
                                             !.base_index = b, !.boost_index = c]
  BY <1>1, <1>2, <1>5, <1>6 DEF pull_pending_rewards
<1>8. pull_pending_rewards(u) = [base_index |-> b, boost_index |-> c,
        boost_weight |-> info.boost_weight, pending_reward |-> info.pending_reward + x + y]
  BY <1>3, <1>7 DEF RewardInfo
<1>9. QED BY <1>1, <1>3, <1>5, <1>6, <1>8 DEF RewardInfo

\* integer_sqrt is the integer square root.
LEMMA SqrtIs ==
  ASSUME NEW n \in Nat
  PROVE  LET r == integer_sqrt(n) IN r \in Nat /\ r * r <= n /\ n < (r + 1) * (r + 1)
<1> DEFINE S == {r \in Nat : n < (r + 1) * (r + 1)}
<1>1. n \in S
  OBVIOUS
<1>2. PICK r \in S : \A k \in S : r <= k
  BY <1>1, NatLeast
<1>3. r * r <= n
  <2>1. CASE r = 0
    BY <2>1
  <2>2. CASE r # 0
    <3>1. r - 1 \in Nat /\ r - 1 \notin S
      BY <1>2, <2>2
    <3>2. ~(n < ((r - 1) + 1) * ((r - 1) + 1)) /\ (r - 1) + 1 = r
      BY <3>1
    <3>3. QED BY <3>2
  <2>3. QED BY <2>1, <2>2
<1>4. r \in 0..n
  BY <1>3
<1>5. n < (r + 1) * (r + 1)
  OBVIOUS
<1>6. \E q \in 0..n : q * q <= n /\ n < (q + 1) * (q + 1)
  BY <1>3, <1>4, <1>5
<1>7. integer_sqrt(n) \in 0..n /\ integer_sqrt(n) * integer_sqrt(n) <= n
      /\ n < (integer_sqrt(n) + 1) * (integer_sqrt(n) + 1)
  BY <1>6 DEF integer_sqrt
<1>8. QED BY <1>7

LEMMA SqrtGrows ==
  ASSUME NEW m \in Nat, NEW n \in Nat, m <= n
  PROVE  integer_sqrt(m) <= integer_sqrt(n)
<1>1. PICK q \in Nat, r \in Nat : q = integer_sqrt(m) /\ r = integer_sqrt(n)
  BY SqrtIs
<1>2. q * q <= m /\ n < (r + 1) * (r + 1)
  BY <1>1, SqrtIs
<1>3. SUFFICES ASSUME q > r PROVE FALSE
  BY <1>1
<1>4. q * q >= (r + 1) * (r + 1)
  BY <1>3
<1>5. QED BY <1>2, <1>4

LEMMA SqrtZero == integer_sqrt(0) = 0
<1>1. PICK r \in Nat : r = integer_sqrt(0) /\ r * r <= 0
  BY SqrtIs
<1>2. r = 0
  BY <1>1
<1>3. QED BY <1>1, <1>2

-----------------------------------------------------------------------------
(***************************************************************************)
(* The weights.  The totals of the two pools are sums over the users, which *)
(* the types need: each total is lowered without a check.                  *)
(***************************************************************************)
Weights == [u \in Users |-> Weight(u)]
BondSum == SumFunctionOnSet(bond_amounts, Users)
WeightSum == SumFunctionOnSet(Weights, Users)
Stakes == [u \in Users |-> Bonded(u)]
XprismSum == SumFunctionOnSet(Stakes, Users)

PoolWeights ==
  /\ base_status.total_weight = BondSum /\ staked_yluna = BondSum
  /\ boost_status.total_weight = WeightSum
  /\ \A u \in Users : IF bond_amounts[u] = 0 THEN Weight(u) = 0 ELSE u \in DOMAIN reward_info

LEMMA WeightsParts ==
  DOMAIN bond_amounts = Users => (WeightsAddUp <=> PoolWeights /\ xprism_held = XprismSum)
  BY DEF WeightsAddUp, PoolWeights, BondSum, WeightSum, XprismSum, Weights, Stakes, Total

LEMMA WeightsNat ==
  ASSUME RecordType
  PROVE  /\ \A u \in Users : Weight(u) \in Nat /\ bond_amounts[u] \in Nat
         /\ WeightSum \in Nat /\ BondSum \in Nat
<1>1. \A u \in Users : Weight(u) \in Nat /\ bond_amounts[u] \in Nat
  BY DEF RecordType, Weight, RewardInfo
<1>2. \A u \in Users : Weights[u] \in Nat
  BY <1>1 DEF Weights
<1>3. QED BY <1>1, <1>2, UsersFinite, SumNat DEF WeightSum, BondSum

\* A sum over the users moves with what one of them moves by.
LEMMA UserSum ==
  ASSUME NEW f \in [Users -> Nat], NEW u \in Users, NEW n \in Nat
  PROVE  /\ SumFunctionOnSet([f EXCEPT ![u] = n], Users)
              = SumFunctionOnSet(f, Users) - f[u] + n
         /\ SumFunctionOnSet([f EXCEPT ![u] = n], Users) \in Nat
<1>1. PICK h : h = [f EXCEPT ![u] = n]
  OBVIOUS
<1>2. (\A v \in Users : f[v] \in Nat /\ h[v] \in Nat) /\ h[u] = n
  BY <1>1
<1>3. \A v \in Users \ {u} : h[v] = f[v]
  BY <1>1
<1>4. IsFiniteSet(Users)
  BY UsersFinite
<1>5. SumFunctionOnSet(h, Users) = SumFunctionOnSet(f, Users) - f[u] + h[u]
  BY ONLY <1>2, <1>3, <1>4, u \in Users, SumUpdate
<1>6. SumFunctionOnSet(h, Users) \in Nat
  BY <1>2, <1>4, SumNat
<1>7. QED BY <1>1, <1>2, <1>5, <1>6

\* The sums move with what one user's weights move by.
LEMMA SumsMove ==
  ASSUME RecordType, NEW u \in Users, NEW b \in Nat, NEW w \in Nat,
         bond_amounts' = [bond_amounts EXCEPT ![u] = b],
         Weight(u)' = w, \A v \in Users \ {u} : Weight(v)' = Weight(v)
  PROVE  /\ BondSum' = BondSum - bond_amounts[u] + b /\ BondSum' \in Nat
         /\ WeightSum' = WeightSum - Weight(u) + w /\ WeightSum' \in Nat
<1>1. bond_amounts \in [Users -> Nat]
  BY DEF RecordType
<1>2. PICK f : f = bond_amounts
  OBVIOUS
<1>3. PICK g : g = Weights
  OBVIOUS
<1>4. f \in [Users -> Nat]
  BY <1>1, <1>2
<1>5. g \in [Users -> Nat] /\ g[u] = Weight(u)
  BY <1>3, WeightsNat DEF Weights
<1>6. bond_amounts' = [f EXCEPT ![u] = b]
  BY <1>2
<1>7. Weights' = [g EXCEPT ![u] = w]
  BY <1>3 DEF Weights
<1>8. /\ SumFunctionOnSet([f EXCEPT ![u] = b], Users) = SumFunctionOnSet(f, Users) - f[u] + b
      /\ SumFunctionOnSet([f EXCEPT ![u] = b], Users) \in Nat
  BY ONLY <1>4, u \in Users, b \in Nat, UserSum
<1>9. /\ SumFunctionOnSet([g EXCEPT ![u] = w], Users) = SumFunctionOnSet(g, Users) - g[u] + w
      /\ SumFunctionOnSet([g EXCEPT ![u] = w], Users) \in Nat
  BY ONLY <1>5, u \in Users, w \in Nat, UserSum
<1>10. BondSum' = BondSum - bond_amounts[u] + b /\ BondSum' \in Nat
  BY <1>2, <1>6, <1>8 DEF BondSum
<1>11. WeightSum' = WeightSum - Weight(u) + w /\ WeightSum' \in Nat
  BY <1>3, <1>5, <1>7, <1>9 DEF WeightSum
<1>12. QED BY <1>10, <1>11

\* What Refresh does to the records of the pool.
LEMMA RefreshRecords ==
  ASSUME ConfigType, StatusType, RecordType, now \in Nat, NEW u \in Users, NEW b \in Nat,
         NEW boost \in Nat, Refresh(u, b, boost)
  PROVE  /\ bond_amounts' = [bond_amounts EXCEPT ![u] = b]
         /\ Weight(u)' = integer_sqrt(b * boost)
         /\ \A v \in Users \ {u} : /\ Weight(v)' = Weight(v)
                                   /\ v \in DOMAIN reward_info' <=> v \in DOMAIN reward_info
                                   /\ v \in DOMAIN reward_info => reward_info'[v] = reward_info[v]
         /\ DOMAIN reward_info' \subseteq Users
         /\ b # 0 => u \in DOMAIN reward_info'
         /\ u \in DOMAIN reward_info' =>
              reward_info'[u] = [pull_pending_rewards(u) EXCEPT
                                   !.boost_weight = integer_sqrt(b * boost)]
         /\ u \notin DOMAIN reward_info' => pull_pending_rewards(u).pending_reward = 0 /\ b = 0
<1> DEFINE info == pull_pending_rewards(u)
           w == integer_sqrt(b * boost)
           rec == [info EXCEPT !.boost_weight = w]
<1>0. IndexesUpdatable /\ bond_amounts' = [bond_amounts EXCEPT ![u] = b]
  BY DEF Refresh
<1>1. info \in RewardInfo
  BY <1>0, PulledInfo
<1>2. rec.boost_weight = w
  BY <1>1 DEF RewardInfo
<1>3. reward_info' = IF record_removable(b, info) THEN WithoutRecords({u}) ELSE WithRecord(u, rec)
  BY DEF Refresh, SaveBoostWeight
<1>4. DOMAIN reward_info \subseteq Users
  BY DEF RecordType
<1> HIDE DEF info, w, rec
<1>5. CASE record_removable(b, info)
  <2>1. b = 0 /\ info.pending_reward = 0
    BY <1>5 DEF record_removable
  <2>2. w = 0
    BY <2>1, SqrtZero DEF w
  <2>3. DOMAIN reward_info' = DOMAIN reward_info \ {u}
        /\ \A v \in DOMAIN reward_info \ {u} : reward_info'[v] = reward_info[v]
    BY <1>3, <1>5 DEF WithoutRecords, Restrict
  <2>4. QED BY <1>0, <1>4, <2>1, <2>2, <2>3 DEF Weight, info, w
<1>6. CASE ~record_removable(b, info)
  <2>1. DOMAIN reward_info' = DOMAIN reward_info \cup {u} /\ reward_info'[u] = rec
        /\ \A v \in DOMAIN reward_info \ {u} : reward_info'[v] = reward_info[v]
    BY <1>3, <1>6 DEF WithRecord
  <2>2. Weight(u)' = w
    BY <1>2, <2>1 DEF Weight
  <2>3. QED BY <1>0, <1>4, <2>1, <2>2 DEF Weight, rec, info, w
<1>7. QED BY <1>5, <1>6

LEMMA RefreshInv ==
  ASSUME ConfigType, StatusType, RecordType, VestType, OtherType, now \in Nat, PoolWeights,
         NEW u \in Users, NEW b \in Nat, NEW boost \in Nat, Refresh(u, b, boost)
  PROVE  /\ ConfigType' /\ StatusType' /\ RecordType' /\ VestType' /\ OtherType'
         /\ now' \in Nat /\ PoolWeights'
<1> DEFINE w == integer_sqrt(b * boost)
           info == pull_pending_rewards(u)
<1>0. IndexesUpdatable /\ bond_amounts \in [Users -> Nat]
  BY DEF Refresh, RecordType
<1>1. Base \in DistributionStatus /\ Boost \in DistributionStatus
      /\ Base.total_weight = BondSum /\ Boost.total_weight = WeightSum
      /\ Base.reward_index >= base_status.reward_index
      /\ Boost.reward_index >= boost_status.reward_index
      /\ staked_yluna = BondSum
  BY <1>0, UpdatedIndexes DEF PoolWeights
<1>2. info \in RewardInfo /\ info.base_index = Base.reward_index
      /\ info.boost_index = Boost.reward_index /\ info.boost_weight = Weight(u)
  BY <1>0, PulledInfo
<1>3. w \in Nat
  <2>1. b * boost \in Nat
    OBVIOUS
  <2>2. QED BY <2>1, SqrtIs
<1>4. /\ base_status' = [Base EXCEPT !.total_weight = @ - bond_amounts[u] + b]
      /\ boost_status' = [Boost EXCEPT !.total_weight = boost_total_weight(info, w)]
      /\ staked_yluna' = staked_yluna - bond_amounts[u] + b
      /\ refreshes' = refreshes + 1 /\ untold' = untold \ {u}
      /\ UNCHANGED <<pool_config, scheduled_vest, pending_withdraw, prism_held, last_address, now>>
  BY DEF Refresh, SaveBoostWeight
<1>5. boost_total_weight(info, w) = WeightSum - Weight(u) + w
  BY <1>1, <1>2 DEF boost_total_weight
<1> HIDE DEF w, info
<1>6. /\ bond_amounts' = [bond_amounts EXCEPT ![u] = b]
      /\ Weight(u)' = w
      /\ \A v \in Users \ {u} : /\ Weight(v)' = Weight(v)
                                /\ v \in DOMAIN reward_info' <=> v \in DOMAIN reward_info
                                /\ v \in DOMAIN reward_info => reward_info'[v] = reward_info[v]
      /\ DOMAIN reward_info' \subseteq Users
      /\ b # 0 => u \in DOMAIN reward_info'
      /\ u \in DOMAIN reward_info' => reward_info'[u] = [info EXCEPT !.boost_weight = w]
  BY RefreshRecords DEF w, info
<1>7. /\ BondSum' = BondSum - bond_amounts[u] + b /\ BondSum' \in Nat
      /\ WeightSum' = WeightSum - Weight(u) + w /\ WeightSum' \in Nat
  BY <1>3, <1>6, SumsMove
<1>8. /\ base_status' \in DistributionStatus /\ base_status'.total_weight = BondSum'
      /\ base_status'.reward_index = Base.reward_index
  BY <1>1, <1>4, <1>7 DEF DistributionStatus
<1>9. /\ boost_status' \in DistributionStatus /\ boost_status'.total_weight = WeightSum'
      /\ boost_status'.reward_index = Boost.reward_index
  BY <1>1, <1>4, <1>5, <1>7 DEF DistributionStatus
<1>10. RecordType'
  <2>1. bond_amounts' \in [Users -> Nat]
    BY <1>0, <1>6
  <2>2. ASSUME NEW v \in DOMAIN reward_info'
        PROVE  /\ reward_info'[v] \in RewardInfo
               /\ reward_info'[v].base_index <= Base.reward_index
               /\ reward_info'[v].boost_index <= Boost.reward_index
    <3>1. CASE v = u
      <4>1. reward_info'[v] \in RewardInfo /\ reward_info'[v].base_index = Base.reward_index
            /\ reward_info'[v].boost_index = Boost.reward_index
        BY <1>2, <1>3, <1>6, <3>1 DEF RewardInfo
      <4>2. QED BY <1>1, <4>1 DEF DistributionStatus
    <3>2. CASE v # u
      <4>1. v \in DOMAIN reward_info /\ reward_info'[v] = reward_info[v]
        BY <1>6, <3>2
      <4>2. /\ reward_info[v] \in RewardInfo
            /\ reward_info[v].base_index <= base_status.reward_index
            /\ reward_info[v].boost_index <= boost_status.reward_index
        BY <4>1 DEF RecordType
      <4>3. base_status.reward_index \in Nat /\ boost_status.reward_index \in Nat
            /\ Base.reward_index \in Nat /\ Boost.reward_index \in Nat
        BY <1>1 DEF StatusType, DistributionStatus
      <4>4. QED BY <1>1, <4>1, <4>2, <4>3 DEF RewardInfo
    <3>3. QED BY <3>1, <3>2
  <2>3. reward_info' \in [DOMAIN reward_info' -> RewardInfo]
    <3>1. reward_info' = [v \in DOMAIN reward_info' |-> reward_info'[v]]
      <4>1. CASE record_removable(b, info)
        <5>1. reward_info' = [v \in DOMAIN reward_info \ {u} |-> reward_info[v]]
          BY <4>1 DEF Refresh, SaveBoostWeight, WithoutRecords, Restrict, info
        <5>2. QED BY <5>1
      <4>2. CASE ~record_removable(b, info)
        <5>1. PICK r : reward_info' = [v \in DOMAIN reward_info \cup {u} |->
                                         IF v = u THEN r ELSE reward_info[v]]
          BY <4>2 DEF Refresh, SaveBoostWeight, WithRecord, info
        <5>2. QED BY <5>1
      <4>3. QED BY <4>1, <4>2
    <3>2. QED BY <2>2, <3>1
  <2>4. QED BY <1>6, <1>8, <1>9, <2>1, <2>2, <2>3 DEF RecordType
<1>11. PoolWeights'
  <2>1. staked_yluna' = BondSum'
    BY <1>1, <1>4, <1>7
  <2>2. ASSUME NEW v \in Users
        PROVE  IF bond_amounts'[v] = 0 THEN Weight(v)' = 0 ELSE v \in DOMAIN reward_info'
    <3>1. CASE v = u
      <4>1. bond_amounts'[u] = b
        BY <1>0, <1>6
      <4>2. b = 0 => w = 0
        BY SqrtZero DEF w
      <4>3. QED BY <1>6, <3>1, <4>1, <4>2
    <3>2. CASE v # u
      <4>1. bond_amounts'[v] = bond_amounts[v]
        BY <1>0, <1>6, <3>2
      <4>2. QED BY <1>6, <3>2, <4>1 DEF PoolWeights
    <3>3. QED BY <3>1, <3>2
  <2>3. QED BY <1>8, <1>9, <2>1, <2>2 DEF PoolWeights
<1>12. OtherType'
  BY <1>4, <1>7, <1>11 DEF OtherType, PoolWeights
<1>13. ConfigType' /\ VestType' /\ now' \in Nat
  BY <1>4 DEF ConfigType, VestType
<1>14. QED BY <1>8, <1>9, <1>10, <1>11, <1>12, <1>13 DEF StatusType

-----------------------------------------------------------------------------
(***************************************************************************)
(* Vesting.                                                                *)
(***************************************************************************)
\* update_vest moves what has ended from the vests to what can be withdrawn.
LEMMA VestsEnd ==
  ASSUME VestType, NEW u \in Users
  PROVE  /\ can_withdraw(u) \in Nat /\ can_withdraw(u) >= pending_withdraw[u]
         /\ RunningVests(u) \in [DOMAIN RunningVests(u) -> Nat]
         /\ IsFiniteSet(DOMAIN RunningVests(u))
         /\ Total(RunningVests(u)) \in Nat /\ Total(scheduled_vest[u]) \in Nat
         /\ Total(RunningVests(u)) + can_withdraw(u)
              = Total(scheduled_vest[u]) + pending_withdraw[u]
<1>1. PICK f, D : f = scheduled_vest[u] /\ D = DOMAIN f
  OBVIOUS
<1>2. PICK E : E = EndedVests(u)
  OBVIOUS
<1>3. f \in [D -> Nat] /\ IsFiniteSet(D) /\ E \subseteq D /\ pending_withdraw[u] \in Nat
  BY <1>1, <1>2 DEF VestType, EndedVests
<1>4. IsFiniteSet(E) /\ IsFiniteSet(D \ E) /\ \A x \in D : f[x] \in Nat
  BY <1>3, FS_Subset
<1>5. SumFunctionOnSet(f, E) \in Nat /\ SumFunctionOnSet(f, D) \in Nat
  BY <1>3, <1>4, SumNat
<1>6. PICK h : h = RunningVests(u)
  OBVIOUS
<1>7. h = [x \in D \ E |-> f[x]]
  BY <1>1, <1>2, <1>6 DEF RunningVests, Restrict
<1>8. DOMAIN h = D \ E /\ (\A x \in D \ E : h[x] = f[x]) /\ h \in [D \ E -> Nat]
  BY <1>3, <1>7
<1>9. SumFunctionOnSet(h, D \ E) = SumFunctionOnSet(f, D) - SumFunctionOnSet(f, E)
  BY ONLY <1>3, <1>4, <1>8, SumDrop
<1>10. SumFunctionOnSet(h, D \ E) \in Nat
  BY ONLY <1>3, <1>4, <1>8, SumNat
<1>11. can_withdraw(u) = pending_withdraw[u] + SumFunctionOnSet(f, E)
  BY <1>1, <1>2 DEF can_withdraw
<1>12. Total(h) = SumFunctionOnSet(h, D \ E) /\ Total(f) = SumFunctionOnSet(f, D)
  BY <1>1, <1>8 DEF Total
<1>13. /\ can_withdraw(u) \in Nat /\ can_withdraw(u) >= pending_withdraw[u]
       /\ Total(h) \in Nat /\ Total(f) \in Nat
       /\ Total(h) + can_withdraw(u) = Total(f) + pending_withdraw[u]
  BY <1>3, <1>5, <1>9, <1>10, <1>11, <1>12
<1>14. h \in [DOMAIN h -> Nat] /\ IsFiniteSet(DOMAIN h)
  BY <1>4, <1>8
<1>15. QED BY <1>1, <1>6, <1>13, <1>14

\* A new vest is added to the others, or to the one that ends with it.
LEMMA VestAdded ==
  ASSUME NEW D, IsFiniteSet(D), NEW vests \in [D -> Nat], NEW amount \in Nat
  PROVE  /\ with_vest(vests, amount) \in [DOMAIN with_vest(vests, amount) -> Nat]
         /\ IsFiniteSet(DOMAIN with_vest(vests, amount))
         /\ Total(with_vest(vests, amount)) = Total(vests) + amount
<1>1. PICK t : t = vest_end_time
  OBVIOUS
<1>2. PICK h : h = with_vest(vests, amount)
  OBVIOUS
<1>3. h = [x \in D \cup {t} |-> IF x = t THEN amount + (IF x \in D THEN vests[x] ELSE 0)
                                ELSE vests[x]]
  BY <1>1, <1>2 DEF with_vest
<1>4. /\ h \in [D \cup {t} -> Nat] /\ DOMAIN h = D \cup {t}
      /\ \A x \in D : vests[x] \in Nat /\ h[x] \in Nat
      /\ \A x \in D \ {t} : h[x] = vests[x]
      /\ h[t] = amount + (IF t \in D THEN vests[t] ELSE 0)
  BY <1>3
<1>5. IsFiniteSet(D \cup {t})
  BY FS_AddElement
<1>6. SumFunctionOnSet(vests, D) \in Nat
  BY <1>4, SumNat
<1>7. SumFunctionOnSet(h, D \cup {t}) = SumFunctionOnSet(vests, D) + amount
  <2>1. CASE t \in D
    <3>1. D \cup {t} = D
      BY <2>1
    <3>2. SumFunctionOnSet(h, D) = SumFunctionOnSet(vests, D) - vests[t] + h[t]
      BY ONLY IsFiniteSet(D), <1>4, <2>1, SumUpdate
    <3>3. vests[t] \in Nat /\ h[t] = amount + vests[t]
      BY <1>4, <2>1
    <3>4. SumFunctionOnSet(h, D) = SumFunctionOnSet(vests, D) + amount
      BY <1>6, <3>2, <3>3
    <3>5. QED BY <3>1, <3>4
  <2>2. CASE t \notin D
    <3>1. h[t] = amount /\ \A x \in D : vests[x] \in Nat /\ h[x] = vests[x]
      BY <1>4, <2>2
    <3>2. h[t] \in Nat
      BY <3>1
    <3>3. SumFunctionOnSet(h, D \cup {t}) = SumFunctionOnSet(vests, D) + h[t]
      BY ONLY IsFiniteSet(D), <2>2, <3>1, <3>2, SumExtend, ZenonT(40)
    <3>4. QED BY <3>1, <3>3
  <2>3. QED BY <2>1, <2>2
<1>8. Total(h) = Total(vests) + amount
  BY <1>4, <1>7 DEF Total
<1>9. h \in [DOMAIN h -> Nat] /\ IsFiniteSet(DOMAIN h)
  BY <1>4, <1>5
<1>10. QED BY <1>2, <1>8, <1>9

\* Finitely many addresses have a last one.
LEMMA LastAddress ==
  ASSUME NEW S, IsFiniteSet(S), S \subseteq Nat, S # {}
  PROVE  \E u \in S : \A v \in S : v <= u
<1> DEFINE T == {s \in SUBSET S : s # {} => \E u \in s : \A v \in s : v <= u}
<1>1. {} \in T
  OBVIOUS
<1>2. ASSUME NEW s \in SUBSET S, s # {}, \A x \in s : s \ {x} \in T PROVE s \in T
  <2>1. PICK x \in s : TRUE
    BY <1>2
  <2>2. CASE s \ {x} = {}
    BY <2>1, <2>2
  <2>3. CASE s \ {x} # {}
    <3>1. PICK u \in s \ {x} : \A v \in s \ {x} : v <= u
      BY <1>2, <2>1, <2>3
    <3>2. u \in Nat /\ x \in Nat
      BY <2>1, <3>1
    <3>3. CASE x <= u
      BY <3>1, <3>3
    <3>4. CASE ~(x <= u)
      <4>1. \A v \in s : v <= x
        BY <3>1, <3>2, <3>4
      <4>2. QED BY <2>1, <4>1
    <3>5. QED BY <3>3, <3>4
  <2>4. QED BY <2>2, <2>3
<1> HIDE DEF T
<1>3. T = SUBSET S
  <2>1. T \in SUBSET (SUBSET S)
    BY DEF T
  <2>2. \A s \in SUBSET S : s # {} /\ (\A x \in s : s \ {x} \in T) => s \in T
    BY <1>2
  <2>3. QED BY <1>1, <2>1, <2>2, FiniteSubsetInduction
<1>4. S \in T
  BY <1>3
<1>5. QED BY <1>4 DEF T

\* What Withdraw does to one user.
LEMMA WithdrawnUser ==
  ASSUME ConfigType, StatusType, RecordType, VestType, now \in Nat, PoolWeights,
         NEW S \in SUBSET Users, Withdraw(S), NEW u \in Users
  PROVE  /\ u \in S => /\ u \in DOMAIN reward_info' <=> bond_amounts[u] > 0
                       /\ u \in DOMAIN reward_info' =>
                            reward_info'[u] = [pull_pending_rewards(u) EXCEPT !.pending_reward = 0]
                       /\ pending_withdraw'[u] = can_withdraw(u)
                       /\ Total(scheduled_vest'[u]) = Total(RunningVests(u))
                                             + pull_pending_rewards(u).pending_reward
         /\ u \notin S => /\ u \in DOMAIN reward_info' <=> u \in DOMAIN reward_info
                          /\ u \in DOMAIN reward_info' => reward_info'[u] = reward_info[u]
                          /\ pending_withdraw'[u] = pending_withdraw[u]
                          /\ scheduled_vest'[u] = scheduled_vest[u]
         /\ scheduled_vest'[u] \in [DOMAIN scheduled_vest'[u] -> Nat]
         /\ IsFiniteSet(DOMAIN scheduled_vest'[u])
<1> DEFINE Kept == {v \in S : bond_amounts[v] > 0}
           n == pull_pending_rewards(u).pending_reward
           r == RunningVests(u)
<1>1. IndexesUpdatable /\ n \in Nat
  BY PulledInfo DEF Withdraw, RewardInfo
<1>2. /\ DOMAIN reward_info' = (DOMAIN reward_info \ S) \cup Kept
      /\ u \in DOMAIN reward_info' =>
           reward_info'[u] = IF u \in S THEN [pull_pending_rewards(u) EXCEPT !.pending_reward = 0]
                             ELSE reward_info[u]
  BY DEF Withdraw
<1>3. /\ pending_withdraw'[u] = IF u \in S THEN can_withdraw(u) ELSE pending_withdraw[u]
      /\ scheduled_vest'[u] = IF u \notin S THEN scheduled_vest[u]
                              ELSE IF n = 0 THEN r ELSE with_vest(r, n)
  BY DEF Withdraw
<1>4. r \in [DOMAIN r -> Nat] /\ IsFiniteSet(DOMAIN r) /\ Total(r) \in Nat
  BY VestsEnd
<1> HIDE DEF n, r
<1>5. CASE u \in S
  <2>1. /\ scheduled_vest'[u] \in [DOMAIN scheduled_vest'[u] -> Nat]
        /\ IsFiniteSet(DOMAIN scheduled_vest'[u])
        /\ Total(scheduled_vest'[u]) = Total(r) + n
    <3>1. CASE n = 0
      BY <1>3, <1>4, <1>5, <3>1
    <3>2. CASE n # 0
      <4>1. scheduled_vest'[u] = with_vest(r, n)
        BY <1>3, <1>5, <3>2
      <4>2. /\ with_vest(r, n) \in [DOMAIN with_vest(r, n) -> Nat]
            /\ IsFiniteSet(DOMAIN with_vest(r, n))
            /\ Total(with_vest(r, n)) = Total(r) + n
        BY ONLY <1>1, <1>4, VestAdded
      <4>3. QED BY <4>1, <4>2
    <3>3. QED BY <3>1, <3>2
  <2>2. u \in DOMAIN reward_info' <=> bond_amounts[u] > 0
    BY <1>2, <1>5
  <2>3. QED BY <1>2, <1>3, <1>5, <2>1, <2>2 DEF n, r
<1>6. CASE u \notin S
  BY <1>2, <1>3, <1>6 DEF VestType
<1>7. QED BY <1>5, <1>6

\* Withdrawing keeps the weights: a record goes only where there is no bond.
LEMMA WithdrawInv ==
  ASSUME ConfigType, StatusType, RecordType, VestType, OtherType, now \in Nat, PoolWeights,
         NEW S \in SUBSET Users, Withdraw(S), last_address' \in Users \cup {0}
  PROVE  /\ ConfigType' /\ StatusType' /\ RecordType' /\ VestType' /\ OtherType'
         /\ now' \in Nat /\ PoolWeights' /\ \A u \in Users : Weight(u)' = Weight(u)
<1>0. /\ IndexesUpdatable
      /\ base_status' = Base /\ boost_status' = Boost
      /\ UNCHANGED <<pool_config, bond_amounts, prism_held, staked_yluna, refreshes, untold, now>>
  BY DEF Withdraw, histVars
<1>1. Base \in DistributionStatus /\ Boost \in DistributionStatus
      /\ Base.total_weight = BondSum /\ Boost.total_weight = WeightSum
      /\ Base.reward_index >= base_status.reward_index
      /\ Boost.reward_index >= boost_status.reward_index
      /\ staked_yluna = BondSum
  BY <1>0, UpdatedIndexes DEF PoolWeights
<1>2. DOMAIN reward_info' \subseteq Users
  BY DEF Withdraw, RecordType
<1>3. ASSUME NEW u \in Users
      PROVE  /\ u \in DOMAIN reward_info' =>
                  /\ reward_info'[u] \in RewardInfo
                  /\ reward_info'[u].base_index <= Base.reward_index
                  /\ reward_info'[u].boost_index <= Boost.reward_index
             /\ Weight(u)' = Weight(u)
             /\ bond_amounts[u] # 0 => u \in DOMAIN reward_info'
  <2>0. base_status.reward_index \in Nat /\ boost_status.reward_index \in Nat
        /\ Base.reward_index \in Nat /\ Boost.reward_index \in Nat
        /\ bond_amounts[u] \in Nat
    BY <1>1 DEF StatusType, DistributionStatus, RecordType
  <2>1. CASE u \in S
    <3>1. PICK info : info = pull_pending_rewards(u)
      OBVIOUS
    <3>2. info \in RewardInfo /\ info.base_index = Base.reward_index
          /\ info.boost_index = Boost.reward_index /\ info.boost_weight = Weight(u)
      BY <1>0, <3>1, PulledInfo
    <3>3. /\ u \in DOMAIN reward_info' <=> bond_amounts[u] > 0
          /\ u \in DOMAIN reward_info' => reward_info'[u] = [info EXCEPT !.pending_reward = 0]
      BY <2>1, <3>1, WithdrawnUser
    <3>4. CASE bond_amounts[u] > 0
      <4>1. reward_info'[u] \in RewardInfo /\ reward_info'[u].base_index = Base.reward_index
            /\ reward_info'[u].boost_index = Boost.reward_index
            /\ reward_info'[u].boost_weight = Weight(u)
        BY <3>2, <3>3, <3>4 DEF RewardInfo
      <4>2. Weight(u)' = Weight(u)
        BY <3>3, <3>4, <4>1 DEF Weight
      <4>3. QED BY <2>0, <3>3, <3>4, <4>1, <4>2
    <3>5. CASE bond_amounts[u] = 0
      <4>1. Weight(u) = 0
        BY <3>5 DEF PoolWeights
      <4>2. u \notin DOMAIN reward_info'
        BY <3>3, <3>5
      <4>3. Weight(u)' = 0
        BY <4>2 DEF Weight
      <4>4. QED BY <3>5, <4>1, <4>2, <4>3
    <3>6. QED BY <2>0, <3>4, <3>5
  <2>2. CASE u \notin S
    <3>1. /\ u \in DOMAIN reward_info' <=> u \in DOMAIN reward_info
          /\ u \in DOMAIN reward_info' => reward_info'[u] = reward_info[u]
      BY <2>2, WithdrawnUser
    <3>2. u \in DOMAIN reward_info => /\ reward_info[u] \in RewardInfo
            /\ reward_info[u].base_index <= base_status.reward_index
            /\ reward_info[u].boost_index <= boost_status.reward_index
      BY DEF RecordType
    <3>3. bond_amounts[u] # 0 => u \in DOMAIN reward_info
      BY DEF PoolWeights
    <3>4. Weight(u)' = Weight(u)
      BY <3>1 DEF Weight
    <3>5. QED BY <1>1, <2>0, <3>1, <3>2, <3>3, <3>4 DEF RewardInfo
  <2>3. QED BY <2>1, <2>2
<1>4. BondSum' = BondSum /\ WeightSum' = WeightSum
  <2>1. Weights' = Weights
    BY <1>3 DEF Weights
  <2>2. QED BY <1>0, <2>1 DEF BondSum, WeightSum
<1>5. StatusType' /\ ConfigType' /\ now' \in Nat
  BY <1>0, <1>1 DEF StatusType, ConfigType
<1>6. RecordType'
  <2>1. \A u \in DOMAIN reward_info' : /\ reward_info'[u] \in RewardInfo
                  /\ reward_info'[u].base_index <= Base.reward_index
                  /\ reward_info'[u].boost_index <= Boost.reward_index
    BY <1>2, <1>3
  <2>2. reward_info' = [v \in DOMAIN reward_info' |-> reward_info'[v]]
    BY DEF Withdraw
  <2>3. reward_info' \in [DOMAIN reward_info' -> RewardInfo]
    BY <2>1, <2>2
  <2>4. bond_amounts' \in [Users -> Nat]
    BY <1>0 DEF RecordType
  <2>5. QED BY <1>0, <1>2, <2>1, <2>3, <2>4 DEF RecordType
<1>7. PoolWeights'
  <2>1. \A u \in Users : IF bond_amounts'[u] = 0 THEN Weight(u)' = 0 ELSE u \in DOMAIN reward_info'
    BY <1>0, <1>3 DEF PoolWeights
  <2>2. base_status'.total_weight = BondSum' /\ staked_yluna' = BondSum'
        /\ boost_status'.total_weight = WeightSum'
    BY <1>0, <1>1, <1>4
  <2>3. QED BY <2>1, <2>2 DEF PoolWeights
<1>8. VestType'
  <2>1. DOMAIN scheduled_vest' = Users
    BY DEF Withdraw
  <2>2. pending_withdraw' \in [Users -> Nat]
    <3>1. \A u \in Users : can_withdraw(u) \in Nat /\ pending_withdraw[u] \in Nat
      BY VestsEnd DEF VestType
    <3>2. QED BY <3>1 DEF Withdraw
  <2>3. \A u \in Users : /\ scheduled_vest'[u] \in [DOMAIN scheduled_vest'[u] -> Nat]
                         /\ IsFiniteSet(DOMAIN scheduled_vest'[u])
    BY WithdrawnUser
  <2>4. QED BY <2>1, <2>2, <2>3 DEF VestType
<1>9. OtherType'
  BY <1>0 DEF OtherType
<1>10. QED BY <1>3, <1>5, <1>6, <1>7, <1>8, <1>9

LEMMA BulkInv ==
  ASSUME RecordType, OtherType, NEW limit \in Nat, NEW sender,
         withdraw_rewards_bulk(sender, limit)
  PROVE  \E S \in SUBSET Users : Withdraw(S) /\ last_address' \in Users \cup {0}
<1>1. PICK S : S = bulk_addresses(limit, last_address)
  OBVIOUS
<1>2. S \subseteq Users
  BY <1>1 DEF bulk_addresses, RecordType
<1>3. Withdraw(S)
  BY <1>1 DEF withdraw_rewards_bulk
<1>4. last_address' = IF S = {} THEN 0 ELSE CHOOSE u \in S : \A v \in S : v <= u
  BY <1>1 DEF withdraw_rewards_bulk
<1>5. S # {} => (CHOOSE u \in S : \A v \in S : v <= u) \in S
  <2>1. IsFiniteSet(S) /\ S \subseteq Nat
    BY <1>2, UsersFinite, FS_Subset
  <2>2. S # {} => \E u \in S : \A v \in S : v <= u
    BY <2>1, LastAddress
  <2>3. QED BY <2>2
<1>6. last_address' \in Users \cup {0}
  BY <1>2, <1>4, <1>5
<1>7. QED BY <1>2, <1>3, <1>6

LEMMA ClaimInv ==
  ASSUME ConfigType, StatusType, RecordType, VestType, OtherType, now \in Nat, PoolWeights,
         NEW u \in Users, Claim(u)
  PROVE  /\ ConfigType' /\ StatusType' /\ RecordType' /\ VestType' /\ OtherType'
         /\ now' \in Nat /\ PoolWeights' /\ \A v \in Users : Weight(v)' = Weight(v)
<1>1. /\ can_withdraw(u) > 0 /\ can_withdraw(u) <= prism_held
      /\ prism_held' = prism_held - can_withdraw(u)
      /\ pending_withdraw' = [pending_withdraw EXCEPT ![u] = 0]
      /\ scheduled_vest' = [scheduled_vest EXCEPT ![u] = RunningVests(u)]
      /\ UNCHANGED <<pool_config, base_status, boost_status, bond_amounts, reward_info,
                     staked_yluna, last_address, refreshes, untold, now>>
  BY DEF Claim, distVars, histVars
<1>2. /\ can_withdraw(u) \in Nat
      /\ RunningVests(u) \in [DOMAIN RunningVests(u) -> Nat]
      /\ IsFiniteSet(DOMAIN RunningVests(u))
  BY VestsEnd
<1>3. VestType'
  <2>1. ASSUME NEW v \in Users
        PROVE  /\ scheduled_vest'[v] \in [DOMAIN scheduled_vest'[v] -> Nat]
               /\ IsFiniteSet(DOMAIN scheduled_vest'[v])
    <3>1. DOMAIN scheduled_vest = Users
      BY DEF VestType
    <3>2. CASE v = u
      <4>1. scheduled_vest'[v] = RunningVests(u)
        BY <1>1, <3>1, <3>2
      <4>2. QED BY <1>2, <4>1
    <3>3. CASE v # u
      <4>1. scheduled_vest'[v] = scheduled_vest[v]
        BY <1>1, <3>1, <3>3
      <4>2. QED BY <4>1 DEF VestType
    <3>4. QED BY <3>2, <3>3
  <2>2. DOMAIN scheduled_vest' = Users /\ pending_withdraw' \in [Users -> Nat]
    BY <1>1 DEF VestType
  <2>3. QED BY <2>1, <2>2 DEF VestType
<1>4. OtherType'
  BY <1>1, <1>2 DEF OtherType
<1>5. ConfigType' /\ StatusType' /\ RecordType' /\ now' \in Nat
  BY <1>1 DEF ConfigType, StatusType, RecordType
<1>6. PoolWeights' /\ \A v \in Users : Weight(v)' = Weight(v)
  <2>1. Weights' = Weights /\ \A v \in Users : Weight(v)' = Weight(v)
    BY <1>1 DEF Weights, Weight
  <2>2. QED BY <1>1, <2>1 DEF PoolWeights, BondSum, WeightSum
<1>7. QED BY <1>3, <1>4, <1>5, <1>6

-----------------------------------------------------------------------------
(***************************************************************************)
(* The boost contract.  No stake has more boost than the maximum for it,   *)
(* and none is dated later than now.                                       *)
(***************************************************************************)
BoostInLimit ==
  \A u \in DOMAIN user_info :
    /\ user_info[u].last_updated <= now
    /\ user_info[u].total_boost <= user_info[u].amt_bonded * boost_config.max_boost_per_xprism

BoostInv == BoostType /\ BoostInLimit /\ xprism_held = XprismSum

\* The boost of an info at time t, at a rate and a maximum per xPRISM.
BoostAt(info, rate, max, t) ==
  smaller(info.total_boost + mul(mul(info.amt_bonded, rate), from_ratio(t - info.last_updated, HOUR)),
          info.amt_bonded * max)

\* It grows with the time, the rate and the maximum, and never falls below what is stored.
LEMMA BoostGrows ==
  ASSUME NEW info \in UserInfo, NEW r \in Nat, NEW q \in Nat, NEW m \in Nat, NEW n \in Nat,
         NEW s \in Nat, NEW t \in Nat, r <= q, m <= n, info.last_updated <= s, s <= t,
         info.total_boost <= info.amt_bonded * m
  PROVE  /\ BoostAt(info, r, m, s) \in Nat /\ BoostAt(info, q, n, t) \in Nat
         /\ BoostAt(info, r, m, s) <= BoostAt(info, q, n, t)
         /\ info.total_boost <= BoostAt(info, r, m, s)
         /\ BoostAt(info, r, m, s) <= info.amt_bonded * m
<1>1. PICK a \in Nat, b \in Nat, l \in Nat :
        a = info.amt_bonded /\ b = info.total_boost /\ l = info.last_updated
  BY DEF UserInfo
<1>2. HOUR \in Nat \ {0} /\ s - l \in Nat /\ t - l \in Nat /\ s - l <= t - l
  BY <1>1, BoostAssumption
<1>3. PICK x \in Nat, y \in Nat : x = from_ratio(s - l, HOUR) /\ y = from_ratio(t - l, HOUR)
  BY <1>2, RatioNat
<1>4. x <= y
  BY <1>2, <1>3, RatioGrows
<1>5. PICK c \in Nat, d \in Nat : c = mul(a, r) /\ d = mul(a, q)
  BY MulNat
<1>6. c <= d
  BY <1>5, MulGrows
<1>7. PICK g \in Nat, h \in Nat : g = mul(c, x) /\ h = mul(d, y)
  BY MulNat
<1>8. g <= h
  BY <1>4, <1>6, <1>7, MulGrows
<1>9. BoostAt(info, r, m, s) = smaller(b + g, a * m) /\ BoostAt(info, q, n, t) = smaller(b + h, a * n)
  BY <1>1, <1>3, <1>5, <1>7 DEF BoostAt
<1>10. PICK i \in Nat, j \in Nat : i = a * m /\ j = a * n
  OBVIOUS
<1>11. i <= j
  BY <1>10
<1>12. b <= i
  BY <1>1, <1>10
<1>13. QED BY <1>1, <1>8, <1>9, <1>10, <1>11, <1>12 DEF smaller

\* _accumulate_boost, which does nothing where it would add nothing.
LEMMA Accumulated ==
  ASSUME BoostType, NEW info \in UserInfo, info.last_updated <= now,
         info.total_boost <= info.amt_bonded * boost_config.max_boost_per_xprism
  PROVE  LET acc == accumulate_boost(info)
         IN  /\ acc \in UserInfo /\ acc.amt_bonded = info.amt_bonded
             /\ acc.last_updated <= now
             /\ acc.total_boost = BoostAt(info, boost_config.boost_per_hour,
                                          boost_config.max_boost_per_xprism, now)
<1>1. PICK r \in Nat, m \in Nat : r = boost_config.boost_per_hour /\ m = boost_config.max_boost_per_xprism
  BY DEF BoostType, BoostTypeOK, BoostConfig
<1>2. PICK a \in Nat, b \in Nat, l \in Nat :
        /\ a = info.amt_bonded /\ b = info.total_boost /\ l = info.last_updated
        /\ info = [amt_bonded |-> a, total_boost |-> b, last_updated |-> l]
  BY DEF UserInfo
<1>3. now \in Nat /\ HOUR \in Nat \ {0} /\ l <= now /\ now - l \in Nat
  BY <1>2, BoostAssumption DEF BoostType
<1>4. PICK g : g = mul(mul(a, r), from_ratio(now - l, HOUR))
  OBVIOUS
<1>5. PICK x : x = BoostAt(info, r, m, now)
  OBVIOUS
<1>6. x = smaller(b + g, a * m) /\ x \in Nat
  <2>0. r <= r /\ m <= m /\ now <= now /\ info.last_updated <= now
        /\ info.total_boost <= info.amt_bonded * m
    BY <1>1, <1>3
  <2>1. x \in Nat
    BY ONLY <1>1, <1>3, <1>5, <2>0, info \in UserInfo, BoostGrows
  <2>2. QED BY <1>2, <1>4, <1>5, <2>1 DEF BoostAt
<1>7. b <= a * m
  BY <1>1, <1>2
<1>8. CASE a > 0 /\ now > l
  <2>1. accumulate_boost(info) = [info EXCEPT !.total_boost = smaller(b + g, a * m), !.last_updated = now]
    BY <1>1, <1>2, <1>4, <1>8 DEF accumulate_boost
  <2>2. accumulate_boost(info) = [amt_bonded |-> a, total_boost |-> x, last_updated |-> now]
    BY <1>2, <1>6, <2>1
  <2>3. QED BY <1>1, <1>2, <1>3, <1>5, <1>6, <2>2 DEF UserInfo
<1>9. CASE ~(a > 0 /\ now > l)
  <2>1. accumulate_boost(info) = info
    BY <1>2, <1>9 DEF accumulate_boost
  <2>2. g = 0
    <3>1. \A n \in Nat : mul(n, 0) = 0 /\ mul(0, n) = 0
      BY OnePos DEF mul
    <3>2. from_ratio(0, HOUR) = 0
      BY <1>3, OnePos DEF from_ratio
    <3>3. CASE a = 0
      <4>1. mul(a, r) = 0
        BY <3>1, <3>3
      <4>2. from_ratio(now - l, HOUR) \in Nat
        BY <1>3, RatioNat
      <4>3. QED BY <1>4, <3>1, <4>1, <4>2
    <3>4. CASE now = l
      <4>1. from_ratio(now - l, HOUR) = 0
        BY <1>3, <3>2, <3>4
      <4>2. mul(a, r) \in Nat
        BY MulNat
      <4>3. QED BY <1>4, <3>1, <4>1, <4>2
    <3>5. QED BY <1>3, <1>9, <3>3, <3>4
  <2>3. x = b
    BY <1>6, <1>7, <2>2 DEF smaller
  <2>4. QED BY <1>1, <1>2, <1>3, <1>5, <2>1, <2>3
<1>10. QED BY <1>8, <1>9

\* GetBoost is a natural, and of a stake what it has by now.
LEMMA BoostIs ==
  ASSUME BoostType, BoostInLimit, NEW u \in Users
  PROVE  /\ GetBoost(user_info, u) \in Nat
         /\ u \in DOMAIN user_info =>
              GetBoost(user_info, u) = BoostAt(user_info[u], boost_config.boost_per_hour,
                                               boost_config.max_boost_per_xprism, now)
<1>1. CASE u \in DOMAIN user_info
  <2>1. user_info[u] \in UserInfo /\ user_info[u].last_updated <= now
        /\ user_info[u].total_boost <= user_info[u].amt_bonded * boost_config.max_boost_per_xprism
    BY <1>1 DEF BoostType, BoostTypeOK, BoostInLimit
  <2>2. accumulate_boost(user_info[u]) \in UserInfo
        /\ accumulate_boost(user_info[u]).total_boost
             = BoostAt(user_info[u], boost_config.boost_per_hour,
                       boost_config.max_boost_per_xprism, now)
    BY <2>1, Accumulated
  <2>3. QED BY <1>1, <2>2 DEF GetBoost, UserInfo
<1>2. CASE u \notin DOMAIN user_info
  BY <1>2 DEF GetBoost
<1>3. QED BY <1>1, <1>2

BoostsAre ==
  \A u \in Users :
    /\ GetBoost(user_info, u) \in Nat
    /\ u \in DOMAIN user_info =>
         GetBoost(user_info, u) = BoostAt(user_info[u], boost_config.boost_per_hour,
                                          boost_config.max_boost_per_xprism, now)

LEMMA BoostIsNext == BoostType' /\ BoostInLimit' => BoostsAre'
<1>1. BoostType /\ BoostInLimit => BoostsAre
  BY BoostIs DEF BoostsAre
<1>2. QED BY <1>1, PTL

\* The xPRISM held moves with one user's stake.
LEMMA StakeMoves ==
  ASSUME BoostType, xprism_held = XprismSum, NEW u \in Users, NEW n \in Nat,
         NEW held, held = xprism_held - Bonded(u) + n,
         xprism_held' = held, Bonded(u)' = n, \A v \in Users \ {u} : Bonded(v)' = Bonded(v)
  PROVE  xprism_held' = XprismSum' /\ xprism_held' \in Nat
<1>1. PICK g : g = Stakes
  OBVIOUS
<1>2. \A v \in Users : Bonded(v) \in Nat
  BY DEF BoostType, BoostTypeOK, Bonded, UserInfo
<1>3. g \in [Users -> Nat] /\ g[u] = Bonded(u)
  BY <1>1, <1>2 DEF Stakes
<1>4. Stakes' = [g EXCEPT ![u] = n]
  BY <1>1 DEF Stakes
<1>5. /\ SumFunctionOnSet([g EXCEPT ![u] = n], Users) = SumFunctionOnSet(g, Users) - g[u] + n
      /\ SumFunctionOnSet([g EXCEPT ![u] = n], Users) \in Nat
  BY ONLY <1>3, u \in Users, n \in Nat, UserSum
<1>6. XprismSum' = XprismSum - Bonded(u) + n /\ XprismSum' \in Nat
  BY <1>1, <1>3, <1>4, <1>5 DEF XprismSum
<1>7. QED BY <1>6

\* Bonding xPRISM lowers nobody's boost.
LEMMA BoostBondInv ==
  ASSUME BoostInv, NEW u \in Users, NEW amount \in Nat, boost_bond(u, amount), now' = now
  PROVE  /\ BoostInv'
         /\ \A v \in Users : GetBoost(user_info, v)' >= GetBoost(user_info, v)
<1> DEFINE info == IF u \in DOMAIN user_info THEN accumulate_boost(user_info[u])
                   ELSE [amt_bonded |-> 0, total_boost |-> 0, last_updated |-> now]
           max == boost_config.max_boost_per_xprism
           rate == boost_config.boost_per_hour
<1>1. /\ user_info' = [v \in DOMAIN user_info \cup {u} |->
                         IF v = u THEN [info EXCEPT !.amt_bonded = @ + amount] ELSE user_info[v]]
      /\ xprism_held' = xprism_held + amount /\ boost_config' = boost_config
  BY DEF boost_bond
<1>2. now \in Nat /\ max \in Nat /\ rate \in Nat /\ boost_config \in BoostConfig
      /\ DOMAIN user_info \subseteq Users /\ user_info \in [DOMAIN user_info -> UserInfo]
      /\ xprism_held \in Nat
  BY DEF BoostInv, BoostType, BoostTypeOK, BoostConfig
<1>3. /\ info \in UserInfo /\ info.amt_bonded = Bonded(u) /\ info.last_updated <= now
      /\ info.total_boost = GetBoost(user_info, u)
      /\ info.total_boost <= info.amt_bonded * max
  <2>1. CASE u \in DOMAIN user_info
    <3>1. user_info[u] \in UserInfo /\ user_info[u].last_updated <= now
          /\ user_info[u].total_boost <= user_info[u].amt_bonded * max
      BY <2>1 DEF BoostInv, BoostType, BoostTypeOK, BoostInLimit
    <3>2. /\ info \in UserInfo /\ info.amt_bonded = user_info[u].amt_bonded
          /\ info.last_updated <= now
          /\ info.total_boost = BoostAt(user_info[u], rate, max, now)
      BY <2>1, <3>1, Accumulated DEF BoostInv
    <3>3. BoostAt(user_info[u], rate, max, now) <= user_info[u].amt_bonded * max
      <4>1. rate <= rate /\ max <= max /\ now <= now
        BY <1>2
      <4>2. QED BY ONLY <1>2, <3>1, <4>1, BoostGrows
    <3>4. QED BY <2>1, <3>2, <3>3 DEF GetBoost, Bonded
  <2>2. CASE u \notin DOMAIN user_info
    BY <1>2, <2>2 DEF GetBoost, Bonded, UserInfo
  <2>3. QED BY <2>1, <2>2
<1> HIDE DEF info
<1>4. PICK a \in Nat, b \in Nat, l \in Nat :
        info = [amt_bonded |-> a, total_boost |-> b, last_updated |-> l]
  BY <1>3 DEF UserInfo
<1>5. PICK new : new = [amt_bonded |-> a + amount, total_boost |-> b, last_updated |-> l]
  OBVIOUS
<1>6. new \in UserInfo /\ new.amt_bonded = a + amount /\ new.total_boost = b /\ new.last_updated = l
  BY <1>5 DEF UserInfo
<1>7. user_info' = [v \in DOMAIN user_info \cup {u} |-> IF v = u THEN new ELSE user_info[v]]
  BY <1>1, <1>4, <1>5
<1>8. b <= (a + amount) * max /\ l <= now
  <2>1. a * max <= (a + amount) * max
    BY <1>2
  <2>2. PICK i \in Nat, j \in Nat : i = a * max /\ j = (a + amount) * max
    BY <1>2
  <2>3. QED BY <1>2, <1>3, <1>4, <2>1, <2>2
<1>9. BoostType'
  BY <1>1, <1>2, <1>6, <1>7 DEF BoostType, BoostTypeOK
<1>10. BoostInLimit'
  <2> SUFFICES ASSUME NEW v \in DOMAIN user_info'
               PROVE  user_info'[v].last_updated <= now
                      /\ user_info'[v].total_boost <= user_info'[v].amt_bonded * max
    BY <1>1 DEF BoostInLimit
  <2>1. CASE v = u
    BY <1>6, <1>7, <1>8, <2>1
  <2>2. CASE v # u
    <3>1. v \in DOMAIN user_info /\ user_info'[v] = user_info[v]
      BY <1>7, <2>2
    <3>2. QED BY <3>1 DEF BoostInv, BoostInLimit
  <2>3. QED BY <2>1, <2>2
<1>11. xprism_held' = XprismSum'
  <2>1. Bonded(u)' = a + amount /\ Bonded(u) = a
    BY <1>3, <1>4, <1>6, <1>7 DEF Bonded
  <2>2. \A v \in Users \ {u} : Bonded(v)' = Bonded(v)
    BY <1>7 DEF Bonded
  <2>3. xprism_held' = xprism_held - Bonded(u) + (a + amount)
    BY <1>1, <1>2, <2>1
  <2>4. BoostType /\ xprism_held = XprismSum
    BY DEF BoostInv
  <2>5. QED BY ONLY <2>1, <2>2, <2>3, <2>4, u \in Users, a + amount \in Nat, StakeMoves
<1>12. ASSUME NEW v \in Users PROVE GetBoost(user_info, v)' >= GetBoost(user_info, v)
  <2>1. CASE v = u
    <3>1. GetBoost(user_info, u)' = BoostAt(new, rate, max, now)
      <4>1. u \in DOMAIN user_info' =>
              GetBoost(user_info, u)' = BoostAt(user_info'[u], boost_config'.boost_per_hour,
                                                boost_config'.max_boost_per_xprism, now')
        BY <1>9, <1>10, BoostIsNext DEF BoostsAre
      <4>2. u \in DOMAIN user_info' /\ user_info'[u] = new
        BY <1>7
      <4>3. QED BY <1>1, <1>9, <1>10, <4>1, <4>2
    <3>2. b <= BoostAt(new, rate, max, now) /\ BoostAt(new, rate, max, now) \in Nat
      <4>1. rate <= rate /\ max <= max /\ now <= now /\ new.total_boost <= new.amt_bonded * max
            /\ new.last_updated <= now
        BY <1>2, <1>6, <1>8
      <4>2. new.total_boost <= BoostAt(new, rate, max, now) /\ BoostAt(new, rate, max, now) \in Nat
        BY ONLY <1>2, <1>6, <4>1, BoostGrows
      <4>3. QED BY <1>6, <4>2
    <3>3. GetBoost(user_info, u) = b
      BY <1>3, <1>4
    <3>4. QED BY <2>1, <3>1, <3>2, <3>3
  <2>2. CASE v # u
    <3>1. GetBoost(user_info, v)' = GetBoost(user_info, v)
      BY <1>1, <1>7, <2>2 DEF GetBoost, accumulate_boost
    <3>2. GetBoost(user_info, v) \in Nat
      BY BoostIs DEF BoostInv
    <3>3. QED BY <3>1, <3>2
  <2>3. QED BY <2>1, <2>2
<1>13. QED BY <1>9, <1>10, <1>11, <1>12 DEF BoostInv

\* Unbonding xPRISM lowers nobody else's boost.
LEMMA BoostUnbondInv ==
  ASSUME BoostInv, NEW u \in Users, NEW amount \in Nat, boost_unbond(u, amount), now' = now
  PROVE  /\ BoostInv'
         /\ \A v \in Users \ {u} : GetBoost(user_info, v)' = GetBoost(user_info, v)
         /\ GetBoost(user_info', u) = GetBoost(user_info, u)' /\ GetBoost(user_info', u) \in Nat
<1> DEFINE max == boost_config.max_boost_per_xprism
<1>1. /\ u \in DOMAIN user_info
      /\ 0 < amount /\ amount <= user_info[u].amt_bonded
      /\ user_info' = IF amount = user_info[u].amt_bonded
                      THEN Restrict(user_info, DOMAIN user_info \ {u})
                      ELSE [user_info EXCEPT ![u] = info_after_partial_unbond(u, amount)]
      /\ xprism_held' = xprism_held - amount /\ boost_config' = boost_config
  BY DEF boost_unbond
<1>2. now \in Nat /\ max \in Nat /\ boost_config \in BoostConfig
      /\ DOMAIN user_info \subseteq Users /\ user_info \in [DOMAIN user_info -> UserInfo]
      /\ xprism_held \in Nat
  BY DEF BoostInv, BoostType, BoostTypeOK, BoostConfig
<1>3. PICK n \in Nat : n = user_info[u].amt_bonded - amount
  BY <1>1, <1>2 DEF UserInfo
<1>4. PICK new : new = [amt_bonded |-> n, last_updated |-> now, total_boost |-> 0]
  OBVIOUS
<1>5. new \in UserInfo /\ new.amt_bonded = n /\ new.total_boost = 0 /\ new.last_updated = now
  BY <1>2, <1>4 DEF UserInfo
<1>6. /\ user_info' \in [DOMAIN user_info' -> UserInfo] /\ DOMAIN user_info' \subseteq Users
      /\ u \in DOMAIN user_info' => user_info'[u] = new
      /\ u \notin DOMAIN user_info' => n = 0
      /\ \A v \in Users \ {u} : /\ v \in DOMAIN user_info' <=> v \in DOMAIN user_info
                                /\ v \in DOMAIN user_info => user_info'[v] = user_info[v]
  <2>1. CASE amount = user_info[u].amt_bonded
    <3>1. user_info' = [v \in DOMAIN user_info \ {u} |-> user_info[v]]
      BY <1>1, <2>1 DEF Restrict
    <3>2. QED BY <1>2, <1>3, <2>1, <3>1
  <2>2. CASE amount # user_info[u].amt_bonded
    <3>1. user_info' = [user_info EXCEPT ![u] = new]
      BY <1>1, <1>3, <1>4, <2>2 DEF info_after_partial_unbond
    <3>2. QED BY <1>1, <1>2, <1>5, <3>1
  <2>3. QED BY <2>1, <2>2
<1>7. xprism_held' = XprismSum' /\ xprism_held' \in Nat
  <2>1. Bonded(u)' = n /\ Bonded(u) = user_info[u].amt_bonded
    BY <1>1, <1>5, <1>6 DEF Bonded
  <2>2. \A v \in Users \ {u} : Bonded(v)' = Bonded(v)
    BY <1>6 DEF Bonded
  <2>3. xprism_held' = xprism_held - Bonded(u) + n
    BY <1>1, <1>2, <1>3, <2>1 DEF UserInfo
  <2>4. BoostType /\ xprism_held = XprismSum
    BY DEF BoostInv
  <2>5. QED BY ONLY <2>1, <2>2, <2>3, <2>4, u \in Users, n \in Nat, StakeMoves
<1>8. BoostType'
  BY <1>1, <1>2, <1>6, <1>7 DEF BoostType, BoostTypeOK
<1>9. BoostInLimit'
  <2> SUFFICES ASSUME NEW v \in DOMAIN user_info'
               PROVE  user_info'[v].last_updated <= now
                      /\ user_info'[v].total_boost <= user_info'[v].amt_bonded * max
    BY <1>1 DEF BoostInLimit
  <2>1. CASE v = u
    <3>1. 0 <= n * max
      BY <1>2
    <3>2. QED BY <1>2, <1>5, <1>6, <2>1, <3>1
  <2>2. CASE v # u
    BY <1>6, <2>2 DEF BoostInv, BoostInLimit
  <2>3. QED BY <2>1, <2>2
<1>a. \A info : accumulate_boost(info)' = accumulate_boost(info)
  BY <1>1 DEF accumulate_boost
<1>10. ASSUME NEW v \in Users \ {u} PROVE GetBoost(user_info, v)' = GetBoost(user_info, v)
  <2>1. CASE v \in DOMAIN user_info
    <3>1. v \in DOMAIN user_info' /\ user_info'[v] = user_info[v]
      BY <1>6, <2>1
    <3>2. accumulate_boost(user_info[v])' = accumulate_boost(user_info'[v])
      BY <1>a, Zenon
    <3>3. accumulate_boost(user_info'[v]) = accumulate_boost(user_info[v])
      BY <3>1
    <3>4. QED BY <2>1, <3>1, <3>2, <3>3 DEF GetBoost
  <2>2. CASE v \notin DOMAIN user_info
    BY <1>6, <2>2 DEF GetBoost
  <2>3. QED BY <2>1, <2>2
<1>11. GetBoost(user_info', u) = GetBoost(user_info, u)'
  BY <1>a, Zenon DEF GetBoost
<1>12. GetBoost(user_info, u)' \in Nat
  BY <1>8, <1>9, BoostIsNext DEF BoostsAre
<1>13. QED BY <1>7, <1>8, <1>9, <1>10, <1>11, <1>12 DEF BoostInv

\* A time or a configuration that lowers no rate lowers nobody's boost: the
\* maximum is only ever raised.
LEMMA BoostLater ==
  ASSUME BoostInv, UNCHANGED <<user_info, xprism_held>>, boost_config' \in BoostConfig,
         boost_config'.max_boost_per_xprism >= boost_config.max_boost_per_xprism,
         now' \in Nat, now' >= now
  PROVE  /\ BoostInv'
         /\ boost_config'.boost_per_hour >= boost_config.boost_per_hour =>
              \A v \in Users : GetBoost(user_info, v)' >= GetBoost(user_info, v)
<1>1. PICK r \in Nat, q \in Nat, m \in Nat, n \in Nat :
        /\ r = boost_config.boost_per_hour /\ q = boost_config'.boost_per_hour
        /\ m = boost_config.max_boost_per_xprism /\ n = boost_config'.max_boost_per_xprism
  BY DEF BoostInv, BoostType, BoostTypeOK, BoostConfig
<1>2. m <= n /\ now \in Nat /\ now <= now'
  BY <1>1 DEF BoostInv, BoostType
<1>3. BoostType'
  BY DEF BoostInv, BoostType, BoostTypeOK
<1>4. BoostInLimit'
  <2> SUFFICES ASSUME NEW v \in DOMAIN user_info
               PROVE  user_info[v].last_updated <= now'
                      /\ user_info[v].total_boost <= user_info[v].amt_bonded * n
    BY <1>1 DEF BoostInLimit
  <2>1. user_info[v] \in UserInfo
    BY DEF BoostInv, BoostType, BoostTypeOK
  <2>2. PICK a \in Nat, b \in Nat, l \in Nat :
          a = user_info[v].amt_bonded /\ b = user_info[v].total_boost /\ l = user_info[v].last_updated
    BY <2>1 DEF UserInfo
  <2>3. l <= now /\ b <= a * m
    BY <1>1, <2>2 DEF BoostInv, BoostInLimit
  <2>4. a * m \in Nat /\ a * n \in Nat /\ a * m <= a * n
    BY <1>2
  <2>5. l <= now' /\ b <= a * n
    BY <1>2, <2>3, <2>4
  <2>6. QED BY <2>2, <2>5
<1>5. xprism_held' = XprismSum'
  <2>1. Stakes' = Stakes
    BY DEF Stakes, Bonded
  <2>2. QED BY <2>1 DEF XprismSum, BoostInv
<1>6. ASSUME NEW v \in Users, r <= q
      PROVE  GetBoost(user_info, v)' >= GetBoost(user_info, v)
  <2>1. CASE v \in DOMAIN user_info
    <3>1. PICK i : i = user_info[v]
      OBVIOUS
    <3>2. i \in UserInfo /\ i.last_updated <= now /\ i.total_boost <= i.amt_bonded * m
      BY <1>1, <2>1, <3>1 DEF BoostInv, BoostType, BoostTypeOK, BoostInLimit
    <3>3. GetBoost(user_info, v) = BoostAt(i, r, m, now)
      BY <1>1, <2>1, <3>1, BoostIs DEF BoostInv
    <3>4. GetBoost(user_info, v)' = BoostAt(i, q, n, now')
      <4>1. v \in DOMAIN user_info' =>
              GetBoost(user_info, v)' = BoostAt(user_info'[v], boost_config'.boost_per_hour,
                                                boost_config'.max_boost_per_xprism, now')
        BY <1>3, <1>4, BoostIsNext DEF BoostsAre
      <4>2. v \in DOMAIN user_info' /\ user_info'[v] = i
        BY <2>1, <3>1
      <4>3. QED BY <1>1, <1>3, <1>4, <4>1, <4>2
    <3>5. now' \in Nat
      OBVIOUS
    <3>6. PICK t \in Nat : t = now'
      BY <3>5
    <3>7. now <= t
      BY <1>2, <3>6
    <3>8. /\ BoostAt(i, r, m, now) \in Nat /\ BoostAt(i, q, n, t) \in Nat
          /\ BoostAt(i, r, m, now) <= BoostAt(i, q, n, t)
      BY ONLY <1>2, <1>6, <3>2, <3>7, r \in Nat, q \in Nat, m \in Nat, n \in Nat, t \in Nat, BoostGrows
    <3>9. QED BY <3>3, <3>4, <3>6, <3>8
  <2>2. CASE v \notin DOMAIN user_info
    BY <2>2 DEF GetBoost
  <2>3. QED BY <2>1, <2>2
<1>7. QED BY <1>1, <1>3, <1>4, <1>5, <1>6 DEF BoostInv

\* UpdateConfig of the boost contract keeps the configuration's type.
LEMMA BoostConfigured ==
  ASSUME BoostInv, NEW sender, NEW update \in BoostUpdates, update_boost_config(sender, update)
  PROVE  /\ boost_config' \in BoostConfig
         /\ boost_config'.max_boost_per_xprism >= boost_config.max_boost_per_xprism
<1>1. PICK m : m = Merge(InitBoostConfig, update)
  OBVIOUS
<1>2. m \in BoostConfig /\ InitBoostConfig \in BoostConfig /\ boost_config \in BoostConfig
  BY <1>1, BoostAssumption DEF BoostInv, BoostType, BoostTypeOK
<1>3. PICK c : c = Merge(boost_config, update)
  OBVIOUS
<1>4. DOMAIN boost_config = {"owner", "boost_per_hour", "max_boost_per_xprism", "launch_pool_contract"}
      /\ DOMAIN InitBoostConfig = DOMAIN boost_config
  BY <1>2 DEF BoostConfig
<1>5. \A f \in DOMAIN boost_config :
        c[f] = IF f \in DOMAIN update THEN m[f] ELSE boost_config[f]
  BY <1>1, <1>3, <1>4 DEF Merge
<1>6. c = [f \in DOMAIN boost_config |-> c[f]]
  BY <1>3 DEF Merge
<1>7. /\ c.owner \in BoostOwners /\ c.boost_per_hour \in Nat /\ c.max_boost_per_xprism \in Nat
      /\ c.launch_pool_contract \in BOOLEAN
  BY <1>2, <1>4, <1>5 DEF BoostConfig
<1>8. c \in BoostConfig
  BY <1>4, <1>6, <1>7 DEF BoostConfig
<1>9. c.max_boost_per_xprism >= boost_config.max_boost_per_xprism
  <2>1. boost_config.max_boost_per_xprism \in Nat
    BY <1>2 DEF BoostConfig
  <2>2. CASE "max_boost_per_xprism" \in DOMAIN update
    <3>1. c.max_boost_per_xprism = update.max_boost_per_xprism
      BY <1>3, <1>4, <2>2 DEF Merge
    <3>2. update.max_boost_per_xprism > boost_config.max_boost_per_xprism
      BY <2>2 DEF update_boost_config, max_boost_update_ok
    <3>3. QED BY <1>7, <2>1, <3>1, <3>2
  <2>3. CASE "max_boost_per_xprism" \notin DOMAIN update
    <3>1. c.max_boost_per_xprism = boost_config.max_boost_per_xprism
      BY <1>4, <1>5, <2>3
    <3>2. QED BY <2>1, <3>1
  <2>4. QED BY <2>2, <2>3
<1>10. QED BY <1>3, <1>8, <1>9 DEF update_boost_config

-----------------------------------------------------------------------------
(***************************************************************************)
(* The schedule.                                                           *)
(***************************************************************************)
\* What the schedule has released: nothing at its start, never more than its amount,
\* and no less at a later time.
ReleasedAt(t) == (pool_config.amount * smaller(t - pool_config.start, denom)) \div denom

LEMMA ReleasedGrows ==
  ASSUME ConfigType, denom > 0, NEW s \in Nat, NEW t \in Nat, pool_config.start <= s, s <= t
  PROVE  /\ ReleasedAt(s) \in Nat /\ ReleasedAt(t) \in Nat
         /\ ReleasedAt(s) <= ReleasedAt(t) /\ ReleasedAt(s) <= pool_config.amount
         /\ s = pool_config.start => ReleasedAt(s) = 0
<1>1. PICK a \in Nat, b \in Nat, d \in Nat \ {0} :
        a = pool_config.amount /\ b = pool_config.start /\ d = denom
  BY DEF ConfigType, PoolConfig, denom
<1>2. PICK x \in Nat, y \in Nat : x = smaller(s - b, d) /\ y = smaller(t - b, d)
  BY <1>1 DEF smaller
<1>3. x <= y /\ x <= d /\ (s = b => x = 0)
  BY <1>1, <1>2 DEF smaller
<1>4. PICK m \in Nat, n \in Nat, k \in Nat : m = a * x /\ n = a * y /\ k = a * d
  OBVIOUS
<1>5. m <= n /\ m <= k /\ (x = 0 => m = 0)
  BY <1>3, <1>4
<1>6. ReleasedAt(s) = m \div d /\ ReleasedAt(t) = n \div d
  BY <1>1, <1>2, <1>4 DEF ReleasedAt
<1>7. m \div d \in Nat /\ n \div d \in Nat /\ m \div d <= n \div d
  BY <1>5, DivFacts, DivGrows
<1>8. m \div d <= a
  BY <1>4, <1>5, DivMono
<1>9. s = b => m \div d = 0
  <2>1. 0 \div d = 0
    OBVIOUS
  <2>2. QED BY <1>3, <1>5, <2>1
<1>10. QED BY <1>1, <1>6, <1>7, <1>8, <1>9

LEMMA UpdatedTotal ==
  ASSUME now \in Nat, pool_config.start \in Nat, now >= pool_config.start,
         NEW status \in DistributionStatus, NEW ratio
  PROVE  update_reward_index(status, ratio).total_distributed = total_distribute(ratio)
  BY DEF update_reward_index, DistributionStatus

\* What an update of the ratio leaves to distribute is not negative.
LEMMA RestLeft ==
  ASSUME ConfigType, StatusType, now \in Nat, IndexesUpdatable, pool_config.start < now
  PROVE  remaining_distribution \in Nat
<1>1. PICK a \in Nat, r \in Nat : a = pool_config.amount /\ r = pool_config.base_pool_ratio /\ r <= ONE
  BY RatiosNat DEF ConfigType, PoolConfig
<1>2. pool_config.start \in Nat /\ denom > 0
  BY DEF ConfigType, PoolConfig, IndexesUpdatable, Updatable
<1>3. PICK x \in Nat : x = ReleasedAt(now) /\ x <= a
  BY <1>1, <1>2, ReleasedGrows
<1>4. Base.total_distributed = mul(x, r) /\ Boost.total_distributed = mul(x, ONE - r)
  BY <1>1, <1>2, <1>3, UpdatedTotal DEF Base, Boost, total_distribute, ReleasedAt, StatusType,
     boost_pool_ratio
<1>5. mul(x, r) + mul(x, ONE - r) <= x
  BY <1>1, SharesOfOne
<1>6. mul(x, r) \in Nat /\ mul(x, ONE - r) \in Nat
  <2>1. ONE - r \in Nat
    BY <1>1, OnePos
  <2>2. QED BY <2>1, MulNat
<1>7. QED BY <1>1, <1>3, <1>4, <1>5, <1>6 DEF remaining_distribution

-----------------------------------------------------------------------------
(***************************************************************************)
(* The joint invariant.                                                    *)
(***************************************************************************)
PoolInv == ConfigType /\ StatusType /\ RecordType /\ VestType /\ OtherType /\ PoolWeights

Inv == PoolInv /\ BoostInv

\* The weights do not depend on the balance, the statuses' other fields or the schedule.
LEMMA SameWeights ==
  ASSUME PoolWeights, UNCHANGED <<bond_amounts, reward_info, staked_yluna>>,
         base_status'.total_weight = base_status.total_weight,
         boost_status'.total_weight = boost_status.total_weight
  PROVE  PoolWeights' /\ \A v \in Users : Weight(v)' = Weight(v)
<1>1. Weights' = Weights /\ \A v \in Users : Weight(v)' = Weight(v)
  BY DEF Weights, Weight
<1>2. QED BY <1>1 DEF PoolWeights, BondSum, WeightSum

LEMMA PoolKept ==
  ASSUME PoolInv, UNCHANGED poolVars, untold' \subseteq Users, refreshes' \in Nat
  PROVE  PoolInv' /\ \A v \in Users : Weight(v)' = Weight(v)
<1>1. PoolWeights' /\ \A v \in Users : Weight(v)' = Weight(v)
  BY SameWeights DEF PoolInv, poolVars, distVars, rewardVars
<1>2. ConfigType' /\ StatusType' /\ RecordType' /\ VestType' /\ OtherType'
  BY DEF PoolInv, poolVars, distVars, rewardVars, ConfigType, StatusType, RecordType, VestType,
     OtherType
<1>3. QED BY <1>1, <1>2 DEF PoolInv

LEMMA BoostKept ==
  ASSUME BoostInv, UNCHANGED boostVars, now' = now
  PROVE  BoostInv' /\ \A v \in Users : GetBoost(user_info, v)' = GetBoost(user_info, v)
<1>1. Stakes' = Stakes
  BY DEF Stakes, Bonded, boostVars
<1>2. BoostInv'
  BY <1>1 DEF BoostInv, BoostType, BoostTypeOK, BoostInLimit, XprismSum, boostVars
<1>3. \A v \in Users : GetBoost(user_info, v)' = GetBoost(user_info, v)
  BY DEF GetBoost, accumulate_boost, boostVars
<1>4. QED BY <1>2, <1>3

LEMMA RatioInv ==
  ASSUME Inv, NEW sender, NEW ratio \in Nat, update_base_pool_ratio(sender, ratio)
  PROVE  PoolInv' /\ \A v \in Users : Weight(v)' = Weight(v)
<1> DEFINE running == pool_config.start < now /\ now < pool_config.end
<1>1. now \in Nat /\ ConfigType /\ StatusType /\ RecordType /\ PoolWeights
  BY DEF Inv, PoolInv, BoostInv, BoostType
<1>2. /\ ratio <= ONE /\ IndexesUpdatable
      /\ pool_config' =
           [pool_config EXCEPT !.base_pool_ratio = ratio,
                               !.start = IF running THEN now ELSE @,
                               !.amount = IF running THEN remaining_distribution ELSE @]
      /\ base_status' = IF running THEN restarted(Base) ELSE Base
      /\ boost_status' = IF running THEN restarted(Boost) ELSE Boost
      /\ UNCHANGED <<bond_amounts, reward_info, scheduled_vest, pending_withdraw, prism_held,
                     staked_yluna, last_address, refreshes, untold, now>>
  BY DEF update_base_pool_ratio, ratio_ok, rewardVars, histVars
<1>3. /\ Base \in DistributionStatus /\ Boost \in DistributionStatus
      /\ Base.total_weight = base_status.total_weight
      /\ Boost.total_weight = boost_status.total_weight
      /\ Base.reward_index >= base_status.reward_index
      /\ Boost.reward_index >= boost_status.reward_index
  BY <1>1, <1>2, UpdatedIndexes
<1>4. /\ base_status' \in DistributionStatus /\ boost_status' \in DistributionStatus
      /\ base_status'.total_weight = base_status.total_weight
      /\ boost_status'.total_weight = boost_status.total_weight
      /\ base_status'.reward_index = Base.reward_index
      /\ boost_status'.reward_index = Boost.reward_index
  <2>1. ASSUME NEW st \in DistributionStatus
        PROVE  /\ restarted(st) \in DistributionStatus
               /\ restarted(st).total_weight = st.total_weight
               /\ restarted(st).reward_index = st.reward_index
    BY DEF restarted, DistributionStatus
  <2>2. QED BY <1>2, <1>3, <2>1
<1>5. ConfigType'
  <2>1. pool_config \in PoolConfig /\ pool_config.start <= pool_config.end
    BY <1>1 DEF ConfigType
  <2>2. PICK b, a, e, m :
          /\ b \in Nat /\ a \in Nat /\ e \in Nat /\ m \in Nat /\ b <= e
          /\ pool_config' = [start |-> b, end |-> e, amount |-> a, base_pool_ratio |-> ratio,
                             min_bond_amount |-> m]
    <3>1. CASE running
      <4>1. pool_config' = [start |-> now, end |-> pool_config.end, amount |-> remaining_distribution,
                            base_pool_ratio |-> ratio,
                            min_bond_amount |-> pool_config.min_bond_amount]
        BY <1>2, <2>1, <3>1 DEF PoolConfig
      <4>2. remaining_distribution \in Nat
        BY <1>1, <1>2, <3>1, RestLeft
      <4>3. pool_config.end \in Nat /\ pool_config.min_bond_amount \in Nat /\ now <= pool_config.end
        BY <1>1, <2>1, <3>1 DEF PoolConfig
      <4> HIDE DEF running
      <4>4. QED BY <1>1, <4>1, <4>2, <4>3
    <3>2. CASE ~running
      <4>1. pool_config' = [start |-> pool_config.start, end |-> pool_config.end,
                            amount |-> pool_config.amount, base_pool_ratio |-> ratio,
                            min_bond_amount |-> pool_config.min_bond_amount]
        BY <1>2, <2>1, <3>2 DEF PoolConfig
      <4>2. pool_config.end \in Nat /\ pool_config.min_bond_amount \in Nat
            /\ pool_config.start \in Nat /\ pool_config.amount \in Nat
        BY <2>1 DEF PoolConfig
      <4>3. QED BY <2>1, <4>1, <4>2
    <3>3. QED BY <3>1, <3>2
  <2>3. ratio \in 0..ONE
    BY <1>2, OnePos
  <2>4. QED BY <2>2, <2>3 DEF ConfigType, PoolConfig
<1>6. RecordType'
  <2>1. ASSUME NEW u \in DOMAIN reward_info
        PROVE  /\ reward_info[u].base_index <= Base.reward_index
               /\ reward_info[u].boost_index <= Boost.reward_index
    <3>1. /\ reward_info[u].base_index <= base_status.reward_index
          /\ reward_info[u].boost_index <= boost_status.reward_index
          /\ reward_info[u].base_index \in Nat /\ reward_info[u].boost_index \in Nat
      BY <1>1 DEF RecordType, RewardInfo
    <3>2. base_status.reward_index \in Nat /\ boost_status.reward_index \in Nat
          /\ Base.reward_index \in Nat /\ Boost.reward_index \in Nat
      BY <1>1, <1>3 DEF StatusType, DistributionStatus
    <3>3. QED BY <1>3, <3>1, <3>2
  <2>2. QED BY <1>1, <1>2, <1>4, <2>1 DEF RecordType
<1>7. PoolWeights' /\ \A v \in Users : Weight(v)' = Weight(v)
  BY <1>1, <1>2, <1>4, SameWeights
<1>8. VestType' /\ OtherType' /\ StatusType'
  BY <1>2, <1>4 DEF Inv, PoolInv, VestType, OtherType, StatusType
<1>9. QED BY <1>5, <1>6, <1>7, <1>8 DEF PoolInv

\* What a step may do to a weight: take it from the AMPS there are after the step, or
\* leave it, the bond and at least the AMPS it was taken from.
AmpsStep ==
  \A v \in Users \ untold' :
    \/ Weight(v)' = integer_sqrt(bond_amounts'[v] * GetBoost(user_info, v)')
    \/ /\ v \notin untold /\ Weight(v)' = Weight(v) /\ bond_amounts'[v] = bond_amounts[v]
       /\ GetBoost(user_info, v)' >= GetBoost(user_info, v)

LEMMA BoostsNat == ASSUME BoostInv PROVE \A v \in Users : GetBoost(user_info, v) \in Nat
  BY BoostIs DEF BoostInv

LEMMA AmpsKept ==
  ASSUME UNCHANGED <<bond_amounts, untold>>, \A v \in Users : Weight(v)' = Weight(v),
         \A v \in Users : GetBoost(user_info, v)' >= GetBoost(user_info, v)
  PROVE  AmpsStep
  BY DEF AmpsStep

\* Where the boost contract is not involved.
LEMMA AmpsKeptHere ==
  ASSUME BoostInv, UNCHANGED <<bond_amounts, untold>>, \A v \in Users : Weight(v)' = Weight(v),
         UNCHANGED boostVars, now' = now
  PROVE  BoostInv' /\ AmpsStep
<1>1. BoostInv' /\ \A v \in Users : GetBoost(user_info, v)' = GetBoost(user_info, v)
  BY BoostKept
<1>2. \A v \in Users : GetBoost(user_info, v)' >= GetBoost(user_info, v)
  BY <1>1, BoostsNat
<1>3. QED BY <1>1, <1>2, AmpsKept

LEMMA RefreshStep ==
  ASSUME PoolInv, BoostInv, BoostInv', NEW u \in Users, NEW b \in Nat, NEW boost \in Nat,
         Refresh(u, b, boost), boost = GetBoost(user_info, u)',
         \A v \in Users \ {u} : GetBoost(user_info, v)' = GetBoost(user_info, v)
  PROVE  PoolInv' /\ AmpsStep
<1>1. PoolInv'
  BY RefreshInv DEF PoolInv, BoostInv, BoostType
<1>2. bond_amounts' = [bond_amounts EXCEPT ![u] = b] /\ bond_amounts \in [Users -> Nat]
      /\ Weight(u)' = integer_sqrt(b * boost) /\ \A v \in Users \ {u} : Weight(v)' = Weight(v)
  BY RefreshRecords DEF PoolInv, BoostInv, BoostType, RecordType
<1>3. untold' = untold \ {u}
  BY DEF Refresh
<1>4. ASSUME NEW v \in Users \ untold'
      PROVE  \/ Weight(v)' = integer_sqrt(bond_amounts'[v] * GetBoost(user_info, v)')
             \/ /\ v \notin untold /\ Weight(v)' = Weight(v) /\ bond_amounts'[v] = bond_amounts[v]
                /\ GetBoost(user_info, v)' >= GetBoost(user_info, v)
  <2>1. CASE v = u
    <3>1. bond_amounts'[u] = b
      BY <1>2
    <3>2. QED BY <1>2, <2>1, <3>1
  <2>2. CASE v # u
    <3>1. bond_amounts'[v] = bond_amounts[v] /\ v \notin untold
      BY <1>2, <1>3, <2>2
    <3>2. GetBoost(user_info, v)' >= GetBoost(user_info, v)
      BY <2>2, BoostsNat
    <3>3. QED BY <1>2, <2>2, <3>1, <3>2
  <2>3. QED BY <2>1, <2>2
<1>5. QED BY <1>1, <1>4 DEF AmpsStep

LEMMA RefreshHere ==
  ASSUME Inv, NEW u \in Users, NEW b \in Nat, Refresh(u, b, GetBoost(user_info, u)),
         UNCHANGED boostVars
  PROVE  Inv' /\ AmpsStep
<1>1. PICK boost \in Nat : boost = GetBoost(user_info, u)
  BY BoostsNat DEF Inv
<1>2. now' = now /\ Refresh(u, b, boost)
  BY <1>1 DEF Refresh
<1>3. BoostInv' /\ \A v \in Users : GetBoost(user_info, v)' = GetBoost(user_info, v)
  BY <1>2, BoostKept DEF Inv
<1>4. PoolInv' /\ AmpsStep
  BY <1>1, <1>2, <1>3, RefreshStep DEF Inv
<1>5. QED BY <1>3, <1>4 DEF Inv

LEMMA BondStep ==
  ASSUME Inv, NEW u \in Users, NEW amount \in Nat,
         bond(u, amount) \/ unbond(u, amount) \/ activate_boost(u)
  PROVE  Inv' /\ AmpsStep
<1>1. bond_amounts[u] \in Nat
  BY DEF Inv, PoolInv, RecordType
<1>2. CASE bond(u, amount)
  <2>1. bond_amounts[u] + amount \in Nat
    BY <1>1
  <2>2. QED BY <1>2, <2>1, RefreshHere DEF bond
<1>3. CASE unbond(u, amount)
  <2>1. amount <= bond_amounts[u]
    BY <1>3 DEF unbond
  <2>2. bond_amounts[u] - amount \in Nat
    BY <1>1, <2>1
  <2>3. QED BY <1>3, <2>2, RefreshHere DEF unbond
<1>4. CASE activate_boost(u)
  BY <1>1, <1>4, RefreshHere DEF activate_boost
<1>5. QED BY <1>2, <1>3, <1>4

LEMMA WithdrawStep ==
  ASSUME Inv, NEW S \in SUBSET Users, Withdraw(S), last_address' \in Users \cup {0}
  PROVE  Inv' /\ AmpsStep
<1>1. PoolInv' /\ \A v \in Users : Weight(v)' = Weight(v)
  BY WithdrawInv DEF Inv, PoolInv, BoostInv, BoostType
<1>2. UNCHANGED <<bond_amounts, untold>> /\ UNCHANGED boostVars /\ now' = now
  BY DEF Withdraw, histVars
<1>3. BoostInv' /\ AmpsStep
  BY <1>1, <1>2, AmpsKeptHere DEF Inv
<1>4. QED BY <1>1, <1>3 DEF Inv

LEMMA ClaimStep ==
  ASSUME Inv, NEW u \in Users, claim_as_prism(u) \/ claim_as_xprism(u) \/ claim_as_amps(u)
  PROVE  Inv' /\ AmpsStep
<1>1. Claim(u)
  BY DEF claim_as_prism, claim_as_xprism, claim_as_amps
<1>2. PoolInv' /\ \A v \in Users : Weight(v)' = Weight(v)
  BY <1>1, ClaimInv DEF Inv, PoolInv, BoostInv, BoostType
<1>3. UNCHANGED <<bond_amounts, untold>> /\ now' = now
  BY <1>1 DEF Claim, histVars
<1>4. CASE UNCHANGED boostVars
  <2>1. BoostInv' /\ AmpsStep
    BY <1>2, <1>3, <1>4, AmpsKeptHere DEF Inv
  <2>2. QED BY <1>2, <2>1 DEF Inv
<1>5. CASE claim_as_amps(u)
  <2>1. PICK amount \in Nat : amount = xprism_minted(can_withdraw(u))
    <3>1. can_withdraw(u) \in Nat /\ XPRISM_PRICE \in Nat \ {0}
      BY VestsEnd, LaunchAssumption DEF Inv, PoolInv
    <3>2. QED BY <3>1, DivFacts DEF xprism_minted
  <2>2. boost_bond(u, amount)
    BY <1>5, <2>1 DEF claim_as_amps
  <2>3. BoostInv' /\ \A v \in Users : GetBoost(user_info, v)' >= GetBoost(user_info, v)
    BY <1>3, <2>2, BoostBondInv DEF Inv
  <2>4. QED BY <1>2, <1>3, <2>3, AmpsKept DEF Inv
<1>6. QED BY <1>4, <1>5 DEF claim_as_prism, claim_as_xprism

LEMMA AdminStep ==
  ASSUME Inv, NEW s,
         \/ \E y \in YieldAmounts : admin_withdraw_rewards(s, y)
         \/ \E m \in MinBondChoices : update_min_bond_amount(s, m)
         \/ \E r \in RatioChoices : update_base_pool_ratio(s, r)
  PROVE  Inv' /\ AmpsStep
<1>1. UNCHANGED <<bond_amounts, untold>> /\ UNCHANGED boostVars /\ now' = now
  BY DEF admin_withdraw_rewards, update_min_bond_amount, update_base_pool_ratio, histVars
<1>2. PoolInv' /\ \A v \in Users : Weight(v)' = Weight(v)
  <2>1. ASSUME NEW r \in RatioChoices, update_base_pool_ratio(s, r)
        PROVE  PoolInv' /\ \A v \in Users : Weight(v)' = Weight(v)
    <3>1. r \in Nat
      BY LaunchAssumption
    <3>2. QED BY <2>1, <3>1, RatioInv
  <2>2. ASSUME NEW y \in YieldAmounts, admin_withdraw_rewards(s, y)
        PROVE  PoolInv' /\ \A v \in Users : Weight(v)' = Weight(v)
    <3>1. y \in Nat /\ prism_held \in Nat
      BY LaunchAssumption DEF Inv, PoolInv, OtherType
    <3>2. prism_held' = prism_held
      BY <2>2, <3>1 DEF admin_withdraw_rewards, withdrawn_rewards
    <3>3. UNCHANGED poolVars /\ untold' = untold /\ refreshes' = refreshes
      BY <2>2, <3>2 DEF admin_withdraw_rewards, poolVars, histVars
    <3>4. untold' \subseteq Users /\ refreshes' \in Nat
      BY <3>3 DEF Inv, PoolInv, OtherType
    <3>5. QED BY <3>3, <3>4, PoolKept DEF Inv
  <2>3. ASSUME NEW m \in MinBondChoices, update_min_bond_amount(s, m)
        PROVE  PoolInv' /\ \A v \in Users : Weight(v)' = Weight(v)
    <3>1. /\ pool_config' = [pool_config EXCEPT !.min_bond_amount = m]
          /\ UNCHANGED <<base_status, boost_status, bond_amounts, reward_info, scheduled_vest,
                         pending_withdraw, prism_held, staked_yluna, last_address, refreshes,
                         untold, now>>
      BY <2>3 DEF update_min_bond_amount, distVars, rewardVars, histVars
    <3>2. m \in Nat /\ ConfigType
      BY LaunchAssumption DEF Inv, PoolInv
    <3>3. ConfigType'
      BY <3>1, <3>2 DEF ConfigType, PoolConfig
    <3>4. PoolWeights' /\ \A v \in Users : Weight(v)' = Weight(v)
      BY <3>1, SameWeights DEF Inv, PoolInv
    <3>5. StatusType' /\ RecordType' /\ VestType' /\ OtherType'
      BY <3>1 DEF Inv, PoolInv, StatusType, RecordType, VestType, OtherType
    <3>6. QED BY <3>3, <3>4, <3>5 DEF PoolInv
  <2>4. QED BY <2>1, <2>2, <2>3
<1>3. BoostInv' /\ AmpsStep
  BY <1>1, <1>2, AmpsKeptHere DEF Inv
<1>4. QED BY <1>2, <1>3 DEF Inv

LEMMA XprismStep ==
  ASSUME Inv, NEW u \in Users, NEW amount \in Nat,
         bond_xprism(u, amount) \/ unbond_xprism(u, amount)
  PROVE  Inv' /\ AmpsStep
<1>0. untold \subseteq Users /\ refreshes \in Nat /\ bond_amounts[u] \in Nat
  BY DEF Inv, PoolInv, OtherType, RecordType
<1>1. CASE bond_xprism(u, amount)
  <2>1. UNCHANGED poolVars /\ untold' = untold /\ refreshes' = refreshes /\ now' = now
    BY <1>1 DEF bond_xprism, histVars
  <2>2. PoolInv' /\ \A v \in Users : Weight(v)' = Weight(v)
    BY <1>0, <2>1, PoolKept DEF Inv
  <2>3. BoostInv' /\ \A v \in Users : GetBoost(user_info, v)' >= GetBoost(user_info, v)
    BY <1>1, <2>1, BoostBondInv DEF Inv, bond_xprism
  <2>4. AmpsStep
    BY <2>1, <2>2, <2>3, AmpsKept DEF poolVars
  <2>5. QED BY <2>2, <2>3, <2>4 DEF Inv
<1>2. CASE unbond_xprism(u, amount)
  <2>1. boost_unbond(u, amount) /\ now' = now
    BY <1>2 DEF unbond_xprism, Refresh
  <2>2. /\ BoostInv'
        /\ \A v \in Users \ {u} : GetBoost(user_info, v)' = GetBoost(user_info, v)
        /\ GetBoost(user_info', u) = GetBoost(user_info, u)' /\ GetBoost(user_info', u) \in Nat
    BY <2>1, BoostUnbondInv DEF Inv
  <2>3. CASE tells_pool(u) /\ Refresh(u, bond_amounts[u], GetBoost(user_info', u))
    <3>1. PICK boost \in Nat : boost = GetBoost(user_info, u)'
      BY <2>2
    <3>2. Refresh(u, bond_amounts[u], boost)
      BY <2>2, <2>3, <3>1 DEF Refresh, SaveBoostWeight
    <3>3. PoolInv' /\ AmpsStep
      BY <1>0, <2>2, <3>1, <3>2, RefreshStep DEF Inv
    <3>4. QED BY <2>2, <3>3 DEF Inv
  <2>4. CASE /\ ~ tells_pool(u)
             /\ untold' = IF boost_config.launch_pool_contract THEN untold ELSE untold \cup {u}
             /\ UNCHANGED <<poolVars, refreshes, now>>
    <3>1. untold' = untold \cup {u} /\ UNCHANGED poolVars /\ refreshes' = refreshes
      BY <2>4 DEF tells_pool
    <3>2. PoolInv' /\ \A v \in Users : Weight(v)' = Weight(v)
      BY <1>0, <3>1, PoolKept DEF Inv
    <3>3. ASSUME NEW v \in Users \ untold'
          PROVE  /\ v \notin untold /\ Weight(v)' = Weight(v) /\ bond_amounts'[v] = bond_amounts[v]
                 /\ GetBoost(user_info, v)' >= GetBoost(user_info, v)
      <4>1. v # u /\ v \notin untold
        BY <3>1
      <4>2. GetBoost(user_info, v)' >= GetBoost(user_info, v)
        BY <2>2, <4>1, BoostsNat DEF Inv
      <4>3. QED BY <3>1, <3>2, <4>1, <4>2 DEF poolVars
    <3>4. AmpsStep
      BY <3>3 DEF AmpsStep
    <3>5. QED BY <2>2, <3>2, <3>4 DEF Inv
  <2>5. QED BY <1>2, <2>3, <2>4 DEF unbond_xprism
<1>3. QED BY <1>1, <1>2

LEMMA ConfigureStep ==
  ASSUME Inv, NEW s, NEW update \in BoostUpdates, configure_boost(s, update)
  PROVE  Inv' /\ AmpsStep
<1>1. UNCHANGED <<user_info, xprism_held>> /\ UNCHANGED poolVars /\ refreshes' = refreshes
      /\ now' = now
      /\ untold' = IF boost_config'.boost_per_hour < boost_config.boost_per_hour
                   THEN Users ELSE untold
  BY DEF configure_boost, update_boost_config
<1>2. boost_config' \in BoostConfig
      /\ boost_config'.max_boost_per_xprism >= boost_config.max_boost_per_xprism
  BY BoostConfigured DEF configure_boost, Inv
<1>3. now' \in Nat /\ now' >= now /\ untold \subseteq Users /\ refreshes \in Nat
  BY <1>1 DEF Inv, BoostInv, BoostType, PoolInv, OtherType
<1>4. /\ BoostInv'
      /\ boost_config'.boost_per_hour >= boost_config.boost_per_hour =>
           \A v \in Users : GetBoost(user_info, v)' >= GetBoost(user_info, v)
  BY <1>1, <1>2, <1>3, BoostLater DEF Inv
<1>5. PoolInv' /\ \A v \in Users : Weight(v)' = Weight(v)
  BY <1>1, <1>3, PoolKept DEF Inv
<1>6. AmpsStep
  <2>1. CASE boost_config'.boost_per_hour < boost_config.boost_per_hour
    BY <1>1, <2>1 DEF AmpsStep
  <2>2. CASE ~(boost_config'.boost_per_hour < boost_config.boost_per_hour)
    <3>1. boost_config'.boost_per_hour >= boost_config.boost_per_hour
      BY <1>2, <2>2 DEF Inv, BoostInv, BoostType, BoostTypeOK, BoostConfig
    <3>2. untold' = untold /\ bond_amounts' = bond_amounts
      BY <1>1, <2>2 DEF poolVars
    <3>3. QED BY <1>4, <1>5, <3>1, <3>2, AmpsKept
  <2>3. QED BY <2>1, <2>2
<1>7. QED BY <1>4, <1>5, <1>6 DEF Inv

LEMMA BlockStep ==
  ASSUME Inv, EndBlock
  PROVE  Inv' /\ AmpsStep
<1>1. UNCHANGED <<user_info, xprism_held>> /\ UNCHANGED poolVars /\ refreshes' = refreshes
      /\ untold' = untold /\ boost_config' = boost_config /\ now' = now + 1
  BY DEF EndBlock, boostVars, histVars
<1>2. now' \in Nat /\ now' >= now /\ untold \subseteq Users /\ refreshes \in Nat
      /\ boost_config' \in BoostConfig
      /\ boost_config'.max_boost_per_xprism >= boost_config.max_boost_per_xprism
      /\ boost_config'.boost_per_hour >= boost_config.boost_per_hour
  BY <1>1 DEF Inv, BoostInv, BoostType, BoostTypeOK, BoostConfig, PoolInv, OtherType
<1>3. BoostInv' /\ \A v \in Users : GetBoost(user_info, v)' >= GetBoost(user_info, v)
  BY <1>1, <1>2, BoostLater DEF Inv
<1>4. PoolInv' /\ \A v \in Users : Weight(v)' = Weight(v)
  BY <1>1, <1>2, PoolKept DEF Inv
<1>5. AmpsStep
  BY <1>1, <1>3, <1>4, AmpsKept DEF poolVars
<1>6. QED BY <1>3, <1>4, <1>5 DEF Inv

LEMMA InvInit == Init => Inv
<1> SUFFICES ASSUME Init PROVE Inv
  OBVIOUS
<1>1. ConfigType /\ StatusType /\ now \in Nat
  BY LaunchAssumption DEF Init, ConfigType, StatusType, NoStatus, DistributionStatus
<1>2. RecordType /\ OtherType
  BY LaunchAssumption DEF Init, RecordType, OtherType
<1>3. VestType
  BY FS_EmptySet DEF Init, VestType
<1>4. BoostType
  BY <1>1, BoostAssumption DEF Init, BoostInit, BoostType, BoostTypeOK
<1>5. BoostInLimit
  BY DEF Init, BoostInit, BoostInLimit
<1>6. ASSUME NEW f, \A u \in Users : f[u] = 0 PROVE SumFunctionOnSet(f, Users) = 0
  BY <1>6, UsersFinite, SumZero
<1>7. XprismSum = 0
  <2>1. \A u \in Users : Stakes[u] = 0
    BY DEF Stakes, Bonded, Init, BoostInit
  <2>2. QED BY <1>6, <2>1 DEF XprismSum
<1>8. PoolWeights
  <2>1. \A u \in Users : bond_amounts[u] = 0 /\ Weight(u) = 0
    BY DEF Init, Weight
  <2>2. \A u \in Users : Weights[u] = 0
    BY <2>1 DEF Weights
  <2>3. BondSum = 0 /\ WeightSum = 0
    BY <1>6, <2>1, <2>2 DEF BondSum, WeightSum
  <2>4. base_status.total_weight = 0 /\ boost_status.total_weight = 0 /\ staked_yluna = 0
    BY DEF Init, NoStatus
  <2>5. QED BY <2>1, <2>3, <2>4 DEF PoolWeights
<1>9. xprism_held = 0
  BY DEF Init, BoostInit
<1>10. QED BY <1>1, <1>2, <1>3, <1>4, <1>5, <1>7, <1>8, <1>9 DEF Inv, PoolInv, BoostInv

LEMMA InvStep == Inv /\ [Next]_vars => Inv' /\ AmpsStep
<1> SUFFICES ASSUME Inv, [Next]_vars PROVE Inv' /\ AmpsStep
  OBVIOUS
<1>0. /\ BondAmounts \subseteq Nat /\ UnbondAmounts \subseteq Nat /\ XprismAmounts \subseteq Nat
      /\ XprismUnbondAmounts \subseteq Nat /\ BulkLimit \in Nat
  BY LaunchAssumption
<1>a. \A u \in Users : bond_amounts[u] \in Nat
  BY DEF Inv, PoolInv, RecordType
<1>1. CASE \/ \E u \in Users, amount \in BondAmounts : bond(u, amount)
           \/ \E u \in Users, amount \in UnbondAmounts : unbond(u, amount)
           \/ \E u \in Users : unbond(u, bond_amounts[u])
           \/ \E u \in Users : activate_boost(u)
  <2>1. PICK u \in Users : \/ \E amount \in Nat : bond(u, amount) \/ unbond(u, amount)
                           \/ activate_boost(u)
    BY <1>0, <1>a, <1>1
  <2>2. PICK amount \in Nat : bond(u, amount) \/ unbond(u, amount) \/ activate_boost(u)
    BY <2>1
  <2>3. QED BY <2>2, BondStep
<1>2. CASE \E u \in Users : withdraw_rewards(u)
  <2>1. PICK u \in Users : Withdraw({u}) /\ last_address' = last_address
    BY <1>2 DEF withdraw_rewards
  <2>2. {u} \in SUBSET Users /\ last_address' \in Users \cup {0}
    BY <2>1 DEF Inv, PoolInv, OtherType
  <2>3. QED BY <2>1, <2>2, WithdrawStep
<1>3. CASE \E s \in {OWNER, OPERATOR} : withdraw_rewards_bulk(s, BulkLimit)
  <2>1. PICK S \in SUBSET Users : Withdraw(S) /\ last_address' \in Users \cup {0}
    BY <1>0, <1>3, BulkInv DEF Inv, PoolInv
  <2>2. QED BY <2>1, WithdrawStep
<1>4. CASE \E u \in Users : claim_as_prism(u) \/ claim_as_xprism(u) \/ claim_as_amps(u)
  BY <1>4, ClaimStep
<1>5. CASE \E s \in {OWNER, OPERATOR} :
             \/ \E y \in YieldAmounts : admin_withdraw_rewards(s, y)
             \/ \E m \in MinBondChoices : update_min_bond_amount(s, m)
             \/ \E r \in RatioChoices : update_base_pool_ratio(s, r)
  BY <1>5, AdminStep
<1>6. CASE \/ \E u \in Users, amount \in XprismAmounts : bond_xprism(u, amount)
           \/ \E u \in Users, amount \in XprismUnbondAmounts : unbond_xprism(u, amount)
  <2>1. PICK u \in Users : \E amount \in Nat : bond_xprism(u, amount) \/ unbond_xprism(u, amount)
    BY <1>0, <1>6
  <2>2. QED BY <2>1, XprismStep
<1>7. CASE \E s \in BoostOwners, update \in BoostUpdates : configure_boost(s, update)
  BY <1>7, ConfigureStep
<1>8. CASE EndBlock
  BY <1>8, BlockStep
<1>9. CASE UNCHANGED vars
  <2>1. UNCHANGED poolVars /\ UNCHANGED boostVars /\ untold' = untold /\ refreshes' = refreshes
        /\ now' = now
    BY <1>9 DEF vars, histVars
  <2>2. untold \subseteq Users /\ refreshes \in Nat
    BY DEF Inv, PoolInv, OtherType
  <2>3. PoolInv' /\ \A v \in Users : Weight(v)' = Weight(v)
    BY <2>1, <2>2, PoolKept DEF Inv
  <2>4. BoostInv' /\ AmpsStep
    BY <2>1, <2>3, AmpsKeptHere DEF Inv, poolVars
  <2>5. QED BY <2>3, <2>4 DEF Inv
<1>10. QED
  BY <1>1, <1>2, <1>3, <1>4, <1>5, <1>6, <1>7, <1>8, <1>9 DEF Next

LEMMA InvHolds == Spec => []Inv
<1>1. Inv /\ [Next]_vars => Inv'
  BY InvStep
<1>2. QED BY <1>1, InvInit, PTL DEF Spec

\* Every variable of the two contracts keeps its type, no record is ahead of the indexes
\* _pull_pending_rewards subtracts it from, and no total weight that Bond, Unbond or a
\* refresh lowers goes below zero.
THEOREM TypeCorrect == Spec => []TypeOK
<1>1. Inv => TypeOK
  BY TypeParts DEF Inv, PoolInv, BoostInv, TypeInv
<1>2. QED BY <1>1, InvHolds, PTL

\* The weights the rewards of both pools are divided by are the sums of the users' weights,
\* a user without a bond keeps no weight, one with a bond keeps the record, and the yLuna
\* and xPRISM bonded are there, for any users, amounts and order of calls.
THEOREM WeightsAlwaysAddUp == Spec => []WeightsAddUp
<1>1. Inv => WeightsAddUp
  BY WeightsParts DEF Inv, PoolInv, BoostInv, RecordType
<1>2. QED BY <1>1, InvHolds, PTL

\* Nobody's weight in the pool exceeds what the AMPS held now are worth, but for users
\* whose AMPS were lowered while the boost contract did not know the pool, or by a lower
\* rate: unbonding xPRISM never leaves boosted rewards accruing.
THEOREM WeightNeedsAmps == Spec => []NoWeightWithoutAmps
<1>1. Init => NoWeightWithoutAmps
  <2> SUFFICES ASSUME Init, NEW u \in Users
               PROVE  Weight(u) <= integer_sqrt(bond_amounts[u] * GetBoost(user_info, u))
    BY DEF NoWeightWithoutAmps
  <2>1. Weight(u) = 0 /\ bond_amounts[u] = 0 /\ GetBoost(user_info, u) = 0
    BY DEF Init, BoostInit, Weight, GetBoost
  <2>2. bond_amounts[u] * GetBoost(user_info, u) = 0
    BY <2>1
  <2>3. QED BY <2>1, <2>2, SqrtZero
<1>2. Inv /\ Inv' /\ AmpsStep /\ NoWeightWithoutAmps => NoWeightWithoutAmps'
  <2> SUFFICES ASSUME Inv, Inv', AmpsStep, NoWeightWithoutAmps, NEW u \in Users \ untold'
               PROVE  Weight(u)' <= integer_sqrt(bond_amounts'[u] * GetBoost(user_info, u)')
    BY DEF NoWeightWithoutAmps
  <2>1. PICK b \in Nat, g \in Nat, c \in Nat, h \in Nat, w \in Nat :
          /\ b = bond_amounts[u] /\ g = GetBoost(user_info, u) /\ w = Weight(u)
          /\ c = bond_amounts'[u] /\ h = GetBoost(user_info, u)'
    <3>1. bond_amounts[u] \in Nat /\ GetBoost(user_info, u) \in Nat /\ Weight(u) \in Nat
      BY BoostsNat, WeightsNat DEF Inv, PoolInv
    <3>2. bond_amounts'[u] \in Nat
      BY DEF Inv, PoolInv, RecordType
    <3>3. GetBoost(user_info, u)' \in Nat
      BY BoostIsNext DEF Inv, BoostInv, BoostsAre
    <3>4. QED BY <3>1, <3>2, <3>3
  <2>2. PICK m \in Nat, n \in Nat : m = b * g /\ n = c * h
    OBVIOUS
  <2>3. integer_sqrt(m) \in Nat /\ integer_sqrt(n) \in Nat
    BY SqrtIs
  <2>4. CASE Weight(u)' = integer_sqrt(bond_amounts'[u] * GetBoost(user_info, u)')
    BY <2>1, <2>2, <2>3, <2>4
  <2>5. CASE /\ u \notin untold /\ Weight(u)' = Weight(u) /\ bond_amounts'[u] = bond_amounts[u]
             /\ GetBoost(user_info, u)' >= GetBoost(user_info, u)
    <3>1. w <= integer_sqrt(m)
      BY <2>1, <2>2, <2>5 DEF NoWeightWithoutAmps
    <3>2. b = c /\ g <= h
      BY <2>1, <2>5
    <3>3. m <= n
      BY <2>2, <3>2
    <3>4. integer_sqrt(m) <= integer_sqrt(n)
      BY <3>3, SqrtGrows
    <3>5. w <= integer_sqrt(n) /\ Weight(u)' = w
      BY <2>1, <2>3, <2>5, <3>1, <3>4
    <3>6. QED BY <2>1, <2>2, <3>5
  <2>6. QED BY <2>4, <2>5 DEF AmpsStep
<1>3. QED BY <1>1, <1>2, InvStep, InvHolds, PTL DEF Spec

-----------------------------------------------------------------------------
(***************************************************************************)
(* What a step may do to the indexes: leave them and the schedule, let time *)
(* pass, bring them up to date, or start the schedule anew.                *)
(***************************************************************************)
Updates ==
  /\ IndexesUpdatable /\ UNCHANGED <<pool_config, now>>
  /\ base_status'.total_distributed = Base.total_distributed
  /\ boost_status'.total_distributed = Boost.total_distributed

Restarts ==
  /\ IndexesUpdatable /\ now' = now
  /\ pool_config' \in PoolConfig /\ pool_config'.end = pool_config.end
  /\ IF pool_config.start < now /\ now < pool_config.end
     THEN /\ pool_config'.start = now
          /\ base_status'.total_distributed = 0 /\ boost_status'.total_distributed = 0
     ELSE /\ pool_config'.start = pool_config.start
          /\ base_status'.total_distributed = Base.total_distributed
          /\ boost_status'.total_distributed = Boost.total_distributed

\* min_bond_amount is not of the schedule.
ScheduleKept ==
  /\ UNCHANGED <<base_status, boost_status, now>>
  /\ pool_config'.start = pool_config.start /\ pool_config'.end = pool_config.end
  /\ pool_config'.amount = pool_config.amount
  /\ pool_config'.base_pool_ratio = pool_config.base_pool_ratio

TimePasses == UNCHANGED <<base_status, boost_status, pool_config>> /\ now' = now + 1

\* In every case the stored indexes are the old ones or those of update_reward_indexes.
IndexStep ==
  \/ /\ Updates \/ Restarts
     /\ base_status'.reward_index = Base.reward_index
     /\ boost_status'.reward_index = Boost.reward_index
  \/ ScheduleKept
  \/ TimePasses

LEMMA RefreshIndexes ==
  ASSUME Inv, NEW u \in Users, NEW b, NEW boost, Refresh(u, b, boost)
  PROVE  IndexStep
<1>1. IndexesUpdatable /\ UNCHANGED <<pool_config, now>>
  BY DEF Refresh
<1>2. Base \in DistributionStatus /\ Boost \in DistributionStatus
  BY <1>1, UpdatedIndexes DEF Inv, PoolInv, BoostInv, BoostType
<1>3. PICK x, y : base_status' = [Base EXCEPT !.total_weight = x]
                  /\ boost_status' = [Boost EXCEPT !.total_weight = y]
  BY DEF Refresh, SaveBoostWeight
<1>4. /\ base_status'.total_distributed = Base.total_distributed
      /\ boost_status'.total_distributed = Boost.total_distributed
      /\ base_status'.reward_index = Base.reward_index
      /\ boost_status'.reward_index = Boost.reward_index
  BY <1>2, <1>3 DEF DistributionStatus
<1>5. QED BY <1>1, <1>4 DEF IndexStep, Updates

LEMMA KeptIndexes == UNCHANGED <<base_status, boost_status, pool_config, now>> => IndexStep
  BY DEF IndexStep, ScheduleKept

LEMMA RatioIndexes ==
  ASSUME Inv, Inv', NEW sender, NEW ratio, update_base_pool_ratio(sender, ratio)
  PROVE  IndexStep
<1> DEFINE running == pool_config.start < now /\ now < pool_config.end
<1>1. /\ IndexesUpdatable /\ now' = now
      /\ pool_config' =
           [pool_config EXCEPT !.base_pool_ratio = ratio,
                               !.start = IF running THEN now ELSE @,
                               !.amount = IF running THEN remaining_distribution ELSE @]
      /\ base_status' = IF running THEN restarted(Base) ELSE Base
      /\ boost_status' = IF running THEN restarted(Boost) ELSE Boost
  BY DEF update_base_pool_ratio
<1>2. Base \in DistributionStatus /\ Boost \in DistributionStatus
  BY <1>1, UpdatedIndexes DEF Inv, PoolInv, BoostInv, BoostType
<1>3. pool_config \in PoolConfig /\ pool_config' \in PoolConfig
  BY DEF Inv, PoolInv, ConfigType
<1>4. pool_config'.start = IF running THEN now ELSE pool_config.start
  BY <1>1, <1>3 DEF PoolConfig
<1>5. pool_config'.end = pool_config.end
  BY <1>1, <1>3 DEF PoolConfig
<1>6. ASSUME NEW st \in DistributionStatus
      PROVE  restarted(st).total_distributed = 0 /\ restarted(st).reward_index = st.reward_index
  BY DEF restarted, DistributionStatus
<1>7. /\ base_status'.reward_index = Base.reward_index
      /\ boost_status'.reward_index = Boost.reward_index
      /\ IF running
         THEN base_status'.total_distributed = 0 /\ boost_status'.total_distributed = 0
         ELSE /\ base_status'.total_distributed = Base.total_distributed
              /\ boost_status'.total_distributed = Boost.total_distributed
  BY <1>1, <1>2, <1>6
<1>8. Restarts
  BY <1>1, <1>3, <1>4, <1>5, <1>7 DEF Restarts
<1>9. QED BY <1>7, <1>8 DEF IndexStep

LEMMA IndexesMove == Inv /\ Inv' /\ [Next]_vars => IndexStep
<1> SUFFICES ASSUME Inv, Inv', [Next]_vars PROVE IndexStep
  OBVIOUS
<1>1. CASE \/ \E u \in Users, amount \in BondAmounts : bond(u, amount)
           \/ \E u \in Users, amount \in UnbondAmounts : unbond(u, amount)
           \/ \E u \in Users : unbond(u, bond_amounts[u])
           \/ \E u \in Users : activate_boost(u)
  <2>1. PICK u \in Users : \E b : Refresh(u, b, GetBoost(user_info, u))
    BY <1>1 DEF bond, unbond, activate_boost
  <2>2. PICK b : Refresh(u, b, GetBoost(user_info, u))
    BY <2>1
  <2>3. QED BY <2>2, RefreshIndexes
<1>2. CASE \/ \E u \in Users : withdraw_rewards(u)
           \/ \E s \in {OWNER, OPERATOR} : withdraw_rewards_bulk(s, BulkLimit)
  <2>1. PICK S : Withdraw(S)
    BY <1>2 DEF withdraw_rewards, withdraw_rewards_bulk
  <2>2. IndexesUpdatable /\ UNCHANGED <<pool_config, now>>
        /\ base_status' = Base /\ boost_status' = Boost
    BY <2>1 DEF Withdraw
  <2>3. QED BY <2>2 DEF IndexStep, Updates
<1>3. CASE \E u \in Users : claim_as_prism(u) \/ claim_as_xprism(u) \/ claim_as_amps(u)
  <2>1. PICK u : Claim(u)
    BY <1>3 DEF claim_as_prism, claim_as_xprism, claim_as_amps
  <2>2. QED BY <2>1, KeptIndexes DEF Claim, distVars
<1>4. CASE \E s \in {OWNER, OPERATOR}, y \in YieldAmounts : admin_withdraw_rewards(s, y)
  BY <1>4, KeptIndexes DEF admin_withdraw_rewards, distVars
<1>5. CASE \E s \in {OWNER, OPERATOR}, m \in MinBondChoices : update_min_bond_amount(s, m)
  <2>1. PICK m : pool_config' = [pool_config EXCEPT !.min_bond_amount = m]
                 /\ UNCHANGED <<base_status, boost_status, now>>
    BY <1>5 DEF update_min_bond_amount, distVars
  <2>2. pool_config \in PoolConfig
    BY DEF Inv, PoolInv, ConfigType
  <2>3. QED BY <2>1, <2>2 DEF IndexStep, ScheduleKept, PoolConfig
<1>6. CASE \E s \in {OWNER, OPERATOR}, r \in RatioChoices : update_base_pool_ratio(s, r)
  BY <1>6, RatioIndexes
<1>7. CASE \/ \E u \in Users, amount \in XprismAmounts : bond_xprism(u, amount)
           \/ \E s \in BoostOwners, update \in BoostUpdates : configure_boost(s, update)
  BY <1>7, KeptIndexes DEF bond_xprism, configure_boost, poolVars, distVars
<1>8. CASE \E u \in Users, amount \in XprismUnbondAmounts : unbond_xprism(u, amount)
  <2>1. PICK u \in Users : \/ Refresh(u, bond_amounts[u], GetBoost(user_info', u))
                           \/ UNCHANGED <<poolVars, refreshes, now>>
    BY <1>8 DEF unbond_xprism
  <2>2. CASE Refresh(u, bond_amounts[u], GetBoost(user_info', u))
    BY <2>2, RefreshIndexes
  <2>3. CASE UNCHANGED <<poolVars, refreshes, now>>
    BY <2>3, KeptIndexes DEF poolVars, distVars
  <2>4. QED BY <2>1, <2>2, <2>3
<1>9. CASE EndBlock
  BY <1>9 DEF EndBlock, poolVars, distVars, IndexStep, TimePasses
<1>10. CASE UNCHANGED vars
  BY <1>10, KeptIndexes DEF vars, poolVars, distVars
<1>11. QED
  BY <1>1, <1>2, <1>3, <1>4, <1>5, <1>6, <1>7, <1>8, <1>9, <1>10 DEF Next

-----------------------------------------------------------------------------
(***************************************************************************)
(* A running pool computes.  What a pool has distributed is at most what   *)
(* is due by now, which is nothing until the schedule has started.         *)
(***************************************************************************)
Due(ratio) == IF now <= pool_config.start THEN 0 ELSE mul(ReleasedAt(now), ratio)

WithinDue ==
  now < pool_config.end =>
    /\ base_status.total_distributed <= Due(pool_config.base_pool_ratio)
    /\ boost_status.total_distributed <= Due(boost_pool_ratio)

LEMMA DueIs ==
  ASSUME ConfigType, now \in Nat, now < pool_config.end, NEW ratio \in Nat
  PROVE  /\ Due(ratio) \in Nat
         /\ now >= pool_config.start => denom > 0 /\ total_distribute(ratio) = Due(ratio)
<1>1. pool_config.start \in Nat /\ pool_config.end \in Nat
  BY DEF ConfigType, PoolConfig
<1>2. CASE now < pool_config.start
  BY <1>1, <1>2 DEF Due
<1>3. CASE now >= pool_config.start
  <2>1. denom > 0
    BY <1>1, <1>3 DEF denom
  <2>2. now <= now
    OBVIOUS
  <2>3. ReleasedAt(now) \in Nat /\ (now = pool_config.start => ReleasedAt(now) = 0)
    BY <1>3, <2>1, <2>2, ReleasedGrows
  <2>4. mul(ReleasedAt(now), ratio) \in Nat /\ mul(0, ratio) = 0
    <3>1. mul(ReleasedAt(now), ratio) \in Nat
      BY <2>3, MulNat
    <3>2. 0 * ratio = 0 /\ 0 \div ONE = 0
      BY OnePos
    <3>3. QED BY <3>1, <3>2 DEF mul
  <2>5. total_distribute(ratio) = mul(ReleasedAt(now), ratio)
    BY DEF total_distribute, ReleasedAt
  <2>6. Due(ratio) = mul(ReleasedAt(now), ratio)
    <3>1. CASE now = pool_config.start
      BY <2>3, <2>4, <3>1 DEF Due
    <3>2. CASE now > pool_config.start
      BY <1>1, <3>2 DEF Due
    <3>3. QED BY <1>1, <1>3, <3>1, <3>2
  <2>7. QED BY <2>1, <2>4, <2>5, <2>6
<1>4. QED BY <1>1, <1>2, <1>3

LEMMA WithinDueComputes ==
  ASSUME ConfigType, StatusType, now \in Nat, WithinDue
  PROVE  RunningPoolComputes
<1> SUFFICES ASSUME now < pool_config.end PROVE IndexesUpdatable
  BY DEF RunningPoolComputes
<1>1. pool_config.base_pool_ratio \in Nat /\ boost_pool_ratio \in Nat
  BY RatiosNat
<1>2. base_status.total_distributed <= Due(pool_config.base_pool_ratio)
      /\ boost_status.total_distributed <= Due(boost_pool_ratio)
  BY DEF WithinDue
<1>3. QED BY <1>1, <1>2, DueIs DEF IndexesUpdatable, Updatable

\* After an update a pool has distributed what is due.
LEMMA UpdateWithinDue ==
  ASSUME ConfigType, now \in Nat, now < pool_config.end, NEW status \in DistributionStatus,
         NEW ratio \in Nat, status.total_distributed <= Due(ratio)
  PROVE  update_reward_index(status, ratio).total_distributed <= Due(ratio)
<1>1. pool_config.start \in Nat
  BY DEF ConfigType, PoolConfig
<1>2. CASE now < pool_config.start
  BY <1>2 DEF update_reward_index
<1>3. CASE now >= pool_config.start
  <2>1. update_reward_index(status, ratio).total_distributed = Due(ratio) /\ Due(ratio) \in Nat
    BY <1>1, <1>3, UpdatedTotal, DueIs
  <2>2. QED BY <2>1
<1>4. QED BY <1>1, <1>2, <1>3

LEMMA DueGrows ==
  ASSUME ConfigType, now \in Nat, TimePasses, now' < pool_config.end, NEW ratio \in Nat
  PROVE  Due(ratio) <= Due(ratio)'
<1>1. pool_config.start \in Nat /\ pool_config.end \in Nat /\ now' = now + 1
      /\ pool_config' = pool_config
  BY DEF ConfigType, PoolConfig, TimePasses
<1>2. ReleasedAt(now)' = ReleasedAt(now + 1)
  BY <1>1 DEF ReleasedAt, denom
<1>3. CASE now < pool_config.start
  BY <1>1, <1>3 DEF Due
<1>4. CASE now >= pool_config.start
  <2>1. denom > 0
    BY <1>1, <1>4 DEF denom
  <2>2. PICK t \in Nat : t = now + 1
    OBVIOUS
  <2>3. pool_config.start <= now /\ now <= t
    BY <1>1, <1>4, <2>2
  <2>4. ReleasedAt(now) \in Nat /\ ReleasedAt(t) \in Nat /\ ReleasedAt(now) <= ReleasedAt(t)
    BY ONLY <2>1, <2>3, ConfigType, now \in Nat, t \in Nat, ReleasedGrows
  <2>5. mul(ReleasedAt(now), ratio) <= mul(ReleasedAt(t), ratio)
        /\ mul(ReleasedAt(now), ratio) \in Nat /\ mul(ReleasedAt(t), ratio) \in Nat
    <3>1. ratio <= ratio
      OBVIOUS
    <3>2. QED BY <2>4, <3>1, MulGrows, MulNat
  <2>6. Due(ratio)' = mul(ReleasedAt(t), ratio)
    BY <1>1, <1>2, <1>4, <2>2 DEF Due
  <2>7. Due(ratio) \in {0, mul(ReleasedAt(now), ratio)}
    BY DEF Due
  <2>8. QED BY <2>5, <2>6, <2>7
<1>5. QED BY <1>1, <1>3, <1>4

DuesNat == now < pool_config.end => \A s \in Nat : Due(s) \in Nat

LEMMA DueNatNext == Inv' => DuesNat'
<1>1. Inv => DuesNat
  BY DueIs DEF DuesNat, Inv, PoolInv, BoostInv, BoostType
<1>2. QED BY <1>1, PTL

LEMMA DueStep == Inv /\ Inv' /\ WithinDue /\ IndexStep => WithinDue'
<1> SUFFICES ASSUME Inv, Inv', WithinDue, IndexStep, now' < pool_config'.end
             PROVE  /\ base_status'.total_distributed <= Due(pool_config.base_pool_ratio)'
                    /\ boost_status'.total_distributed <= Due(boost_pool_ratio)'
  BY DEF WithinDue
<1>1. /\ ConfigType /\ StatusType /\ now \in Nat
      /\ ConfigType' /\ StatusType' /\ now' \in Nat
  BY DEF Inv, PoolInv, BoostInv, BoostType
<1>2. PICK r \in Nat, q \in Nat : r = pool_config.base_pool_ratio /\ q = boost_pool_ratio
  BY <1>1, RatiosNat
<1>3. base_status \in DistributionStatus /\ boost_status \in DistributionStatus
  BY <1>1 DEF StatusType
<1>4. ASSUME now < pool_config.end
      PROVE  /\ base_status.total_distributed <= Due(r) /\ boost_status.total_distributed <= Due(q)
             /\ Base.total_distributed <= Due(r) /\ Boost.total_distributed <= Due(q)
  <2>1. base_status.total_distributed <= Due(r) /\ boost_status.total_distributed <= Due(q)
    BY <1>2, <1>4 DEF WithinDue
  <2>2. QED BY <1>1, <1>2, <1>3, <1>4, <2>1, UpdateWithinDue DEF Base, Boost
<1>5. ASSUME pool_config'.start = pool_config.start, pool_config'.end = pool_config.end,
             pool_config'.amount = pool_config.amount, now' = now,
             pool_config'.base_pool_ratio = pool_config.base_pool_ratio
      PROVE  Due(pool_config.base_pool_ratio)' = Due(r) /\ Due(boost_pool_ratio)' = Due(q)
  <2>1. denom' = denom
    BY <1>5 DEF denom
  <2>2. ReleasedAt(now)' = ReleasedAt(now)
    BY <1>5, <2>1 DEF ReleasedAt
  <2>3. boost_pool_ratio' = q
    BY <1>2, <1>5 DEF boost_pool_ratio
  <2>4. QED BY <1>2, <1>5, <2>2, <2>3 DEF Due
<1>6. CASE Updates
  <2>1. now < pool_config.end /\ Due(pool_config.base_pool_ratio)' = Due(r)
        /\ Due(boost_pool_ratio)' = Due(q)
    BY <1>5, <1>6 DEF Updates
  <2>2. QED BY <1>4, <1>6, <2>1 DEF Updates
<1>7. CASE ScheduleKept
  <2>1. now < pool_config.end /\ Due(pool_config.base_pool_ratio)' = Due(r)
        /\ Due(boost_pool_ratio)' = Due(q)
    BY <1>5, <1>7 DEF ScheduleKept
  <2>2. QED BY <1>4, <1>7, <2>1 DEF ScheduleKept
<1>8. CASE TimePasses
  <2>1. now' < pool_config.end /\ now' = now + 1 /\ pool_config.end \in Nat
    BY <1>1, <1>8 DEF TimePasses, ConfigType, PoolConfig
  <2>2. now < pool_config.end
    BY <1>1, <2>1
  <2>3. Due(r) <= Due(r)' /\ Due(q) <= Due(q)'
    BY <1>1, <1>8, <2>1, DueGrows
  <2>4. boost_pool_ratio' = q /\ pool_config'.base_pool_ratio = r
    BY <1>2, <1>8 DEF TimePasses, boost_pool_ratio
  <2>5. Due(pool_config.base_pool_ratio)' = Due(r)' /\ Due(boost_pool_ratio)' = Due(q)'
    BY <2>4 DEF Due
  <2>6. Due(r) \in Nat /\ Due(q) \in Nat
    BY <1>1, <2>2, DueIs
  <2>7. Due(r)' \in Nat /\ Due(q)' \in Nat
    BY DueNatNext DEF DuesNat
  <2>8. base_status'.total_distributed = base_status.total_distributed
        /\ boost_status'.total_distributed = boost_status.total_distributed
        /\ base_status.total_distributed \in Nat /\ boost_status.total_distributed \in Nat
    BY <1>3, <1>8 DEF TimePasses, DistributionStatus
  <2>9. QED BY <1>4, <2>2, <2>3, <2>5, <2>6, <2>7, <2>8
<1>9. CASE Restarts
  <2>1. now < pool_config.end /\ now' = now /\ pool_config.start \in Nat
    BY <1>1, <1>9 DEF Restarts, ConfigType, PoolConfig
  <2>2. pool_config'.start >= now
    BY <1>1, <1>9, <2>1 DEF Restarts, ConfigType, PoolConfig
  <2>3. now' <= pool_config'.start
    BY <1>1, <2>1, <2>2 DEF ConfigType, PoolConfig
  <2>4. Due(pool_config.base_pool_ratio)' = 0 /\ Due(boost_pool_ratio)' = 0
    BY <2>3 DEF Due
  <2>5. base_status'.total_distributed <= 0 /\ boost_status'.total_distributed <= 0
    <3>1. CASE pool_config.start < now
      BY <1>9, <2>1, <3>1 DEF Restarts
    <3>2. CASE ~(pool_config.start < now)
      <4>1. Due(r) = 0 /\ Due(q) = 0
        BY <1>1, <2>1, <3>2 DEF Due
      <4>2. QED BY <1>4, <1>9, <2>1, <3>2, <4>1 DEF Restarts
    <3>3. QED BY <3>1, <3>2
  <2>6. QED BY <2>4, <2>5
<1>10. QED BY <1>6, <1>7, <1>8, <1>9 DEF IndexStep

LEMMA DueInit == Init => WithinDue
<1> SUFFICES ASSUME Init PROVE WithinDue
  OBVIOUS
<1>1. base_status.total_distributed = 0 /\ boost_status.total_distributed = 0 /\ now = 0
  BY DEF Init, NoStatus
<1>2. pool_config.start \in Nat
  BY LaunchAssumption DEF Init, PoolConfig
<1>3. \A ratio : Due(ratio) = 0
  BY <1>1, <1>2 DEF Due
<1>4. QED BY <1>1, <1>3 DEF WithinDue

\* As long as the distribution runs, the subtraction of _update_reward_index never fails,
\* whoever bonds, withdraws or changes the ratio how often and when: no sequence of calls
\* stops the pool before the schedule ends.
THEOREM RunningPoolNeverStops == Spec => []RunningPoolComputes
<1>1. Init => WithinDue
  BY DueInit
<1>2. Inv /\ WithinDue => RunningPoolComputes
  BY WithinDueComputes DEF Inv, PoolInv, BoostInv, BoostType
<1>3. Inv /\ Inv' /\ WithinDue /\ [Next]_vars => WithinDue'
  BY IndexesMove, DueStep
<1>4. QED BY <1>1, <1>2, <1>3, InvHolds, PTL DEF Spec

-----------------------------------------------------------------------------
(***************************************************************************)
(* No step loses rewards.  The indexes an update would store never fall,   *)
(* so a record nobody touches only accrues; a record that is touched keeps *)
(* what it had accrued, or hands it to the vests.                          *)
(***************************************************************************)
IndexesOK ==
  IndexesUpdatable =>
    /\ Base.reward_index \in Nat /\ Boost.reward_index \in Nat
    /\ Base.reward_index >= base_status.reward_index
    /\ Boost.reward_index >= boost_status.reward_index

LEMMA IndexesOKAlways == (Inv => IndexesOK) /\ (Inv' => IndexesOK')
<1>1. Inv => IndexesOK
  <2> SUFFICES ASSUME Inv, IndexesUpdatable
               PROVE  /\ Base.reward_index \in Nat /\ Boost.reward_index \in Nat
                      /\ Base.reward_index >= base_status.reward_index
                      /\ Boost.reward_index >= boost_status.reward_index
    BY DEF IndexesOK
  <2>1. ConfigType /\ StatusType /\ now \in Nat
    BY DEF Inv, PoolInv, BoostInv, BoostType
  <2>2. QED BY <2>1, UpdatedIndexes DEF DistributionStatus
<1>2. QED BY <1>1, PTL

\* The index a pool would be brought to is no lower a block later.
LEMMA IndexLater ==
  ASSUME ConfigType, now \in Nat, TimePasses, NEW status \in DistributionStatus,
         NEW ratio \in Nat, Updatable(status, ratio), Updatable(status, ratio)'
  PROVE  update_reward_index(status, ratio)'.reward_index
           >= update_reward_index(status, ratio).reward_index
<1>1. pool_config.start \in Nat /\ pool_config.end \in Nat /\ now' = now + 1
      /\ pool_config' = pool_config
  BY DEF ConfigType, PoolConfig, TimePasses
<1>2. /\ status.total_distributed \in Nat /\ status.total_weight \in Nat
      /\ status.pending_reward \in Nat /\ status.reward_index \in Nat
  BY DEF DistributionStatus
<1>3. PICK w \in Nat, i \in Nat, x \in Nat, p \in Nat :
        /\ w = status.total_weight /\ i = status.reward_index
        /\ x = status.total_distributed /\ p = status.pending_reward
  BY <1>2
<1>4. /\ update_reward_index(status, ratio).reward_index
           = IF now < pool_config.start \/ w = 0 THEN i
             ELSE i + from_ratio(total_distribute(ratio) - x + p, w)
      /\ update_reward_index(status, ratio)'.reward_index
           = IF now + 1 < pool_config.start \/ w = 0 THEN i
             ELSE i + from_ratio(total_distribute(ratio)' - x + p, w)
  BY <1>1, <1>3 DEF update_reward_index, DistributionStatus
<1>5. CASE now + 1 < pool_config.start \/ w = 0
  BY <1>1, <1>4, <1>5
<1>6. CASE ~(now + 1 < pool_config.start \/ w = 0)
  <2>1. now + 1 >= pool_config.start /\ w \in Nat \ {0}
    BY <1>1, <1>6
  <2>2. denom > 0 /\ x <= total_distribute(ratio)'
    BY <1>1, <1>3, <2>1 DEF Updatable, denom
  <2>3. PICK t \in Nat : t = now + 1
    OBVIOUS
  <2>4. t <= t /\ pool_config.start <= t
    BY <2>1, <2>3
  <2>5. ReleasedAt(t) \in Nat
    BY ONLY <2>2, <2>4, ConfigType, t \in Nat, ReleasedGrows
  <2>6. total_distribute(ratio)' = mul(ReleasedAt(t), ratio)
    BY <1>1, <2>3 DEF total_distribute, ReleasedAt, denom
  <2>7. PICK e \in Nat : e = total_distribute(ratio)'
    BY <2>5, <2>6, MulNat
  <2>8. e - x + p \in Nat
    BY <2>2, <2>7
  <2>9. from_ratio(e - x + p, w) \in Nat
    BY <2>1, <2>8, RatioNat
  <2>10. CASE now < pool_config.start
    BY <1>1, <1>4, <1>6, <2>7, <2>9, <2>10
  <2>11. CASE now >= pool_config.start
    <3>1. x <= total_distribute(ratio)
      BY <1>1, <1>3, <2>11 DEF Updatable
    <3>2. pool_config.start <= now /\ now <= t
      BY <1>1, <2>3, <2>11
    <3>3. ReleasedAt(now) \in Nat /\ ReleasedAt(now) <= ReleasedAt(t)
      BY ONLY <2>2, <3>2, ConfigType, now \in Nat, t \in Nat, ReleasedGrows
    <3>4. total_distribute(ratio) = mul(ReleasedAt(now), ratio)
      BY DEF total_distribute, ReleasedAt
    <3>5. PICK d \in Nat : d = total_distribute(ratio)
      BY <3>3, <3>4, MulNat
    <3>6. d <= e
      <4>1. ratio <= ratio
        OBVIOUS
      <4>2. QED BY <2>5, <2>6, <2>7, <3>3, <3>4, <3>5, <4>1, MulGrows
    <3>7. d - x + p \in Nat /\ d - x + p <= e - x + p
      BY <3>1, <3>5, <3>6
    <3>8. from_ratio(d - x + p, w) \in Nat /\ from_ratio(d - x + p, w) <= from_ratio(e - x + p, w)
      BY <2>1, <2>8, <3>7, RatioNat, RatioGrows
    <3>9. ~(now < pool_config.start \/ w = 0)
      BY <1>1, <2>1, <2>11
    <3>10. QED BY <1>4, <1>6, <2>7, <2>9, <3>5, <3>8, <3>9
  <2>12. QED BY <1>1, <2>10, <2>11
<1>7. QED BY <1>5, <1>6

LEMMA IndexesNeverFall ==
  ASSUME Inv, Inv', IndexStep, IndexesUpdatable, IndexesUpdatable'
  PROVE  /\ Base'.reward_index >= Base.reward_index
         /\ Boost'.reward_index >= Boost.reward_index
<1>1. /\ ConfigType /\ StatusType /\ now \in Nat
  BY DEF Inv, PoolInv, BoostInv, BoostType
<1>2. base_status \in DistributionStatus /\ boost_status \in DistributionStatus
  BY <1>1 DEF StatusType
<1>3. CASE /\ base_status'.reward_index = Base.reward_index
           /\ boost_status'.reward_index = Boost.reward_index
  BY <1>3, IndexesOKAlways DEF IndexesOK
<1>4. CASE ScheduleKept
  <2>1. denom' = denom /\ boost_pool_ratio' = boost_pool_ratio
    BY <1>4 DEF ScheduleKept, denom, boost_pool_ratio
  <2>2. \A r : total_distribute(r)' = total_distribute(r)
    BY <1>4, <2>1 DEF ScheduleKept, total_distribute
  <2>3. Base' = Base /\ Boost' = Boost
    BY <1>4, <2>1, <2>2 DEF ScheduleKept, Base, Boost, update_reward_index
  <2>4. Base.reward_index \in Nat /\ Boost.reward_index \in Nat
    BY IndexesOKAlways DEF IndexesOK
  <2>5. QED BY <2>3, <2>4
<1>5. CASE TimePasses
  <2>1. PICK r \in Nat, q \in Nat : r = pool_config.base_pool_ratio /\ q = boost_pool_ratio
    BY <1>1, RatiosNat
  <2>2. pool_config'.base_pool_ratio = r /\ boost_pool_ratio' = q
        /\ base_status' = base_status /\ boost_status' = boost_status
    BY <1>5, <2>1 DEF TimePasses, boost_pool_ratio
  <2>3. PICK b \in DistributionStatus, c \in DistributionStatus : b = base_status /\ c = boost_status
    BY <1>2
  <2>4. /\ Updatable(b, r) /\ Updatable(c, q)
        /\ Base = update_reward_index(b, r) /\ Boost = update_reward_index(c, q)
    BY <2>1, <2>3 DEF IndexesUpdatable, Base, Boost
  <2>5. /\ Updatable(b, r)' /\ Updatable(c, q)'
        /\ Base' = update_reward_index(b, r)' /\ Boost' = update_reward_index(c, q)'
    BY <2>2, <2>3 DEF IndexesUpdatable, Base, Boost, Updatable, update_reward_index,
       total_distribute
  <2>6. QED BY <1>1, <1>5, <2>4, <2>5, IndexLater
<1>6. QED BY <1>3, <1>4, <1>5 DEF IndexStep

\* What a user has accrued, and what of it vests or has vested.
Pulled(u) == pull_pending_rewards(u).pending_reward
Vested(u) == Total(scheduled_vest[u]) + pending_withdraw[u]

\* _pull_pending_rewards in numbers.
PullsAre ==
  IndexesUpdatable =>
    \A u \in Users :
      /\ Pulled(u) \in Nat
      /\ u \in DOMAIN reward_info =>
           /\ Pulled(u) >= reward_info[u].pending_reward
           /\ Pulled(u) = reward_info[u].pending_reward
                + (mul(bond_amounts[u], Base.reward_index)
                     - mul(bond_amounts[u], reward_info[u].base_index))
                + (mul(reward_info[u].boost_weight, Boost.reward_index)
                     - mul(reward_info[u].boost_weight, reward_info[u].boost_index))
      /\ u \notin DOMAIN reward_info => Pulled(u) = 0

VestedNat == \A u \in Users : Vested(u) \in Nat

LEMMA PullsAreAlways == (Inv => PullsAre /\ VestedNat) /\ (Inv' => PullsAre' /\ VestedNat')
<1>1. Inv => PullsAre
  <2> SUFFICES ASSUME Inv, IndexesUpdatable, NEW u \in Users
               PROVE  /\ Pulled(u) \in Nat
                      /\ u \in DOMAIN reward_info =>
                           /\ Pulled(u) >= reward_info[u].pending_reward
                           /\ Pulled(u) = reward_info[u].pending_reward
                                + (mul(bond_amounts[u], Base.reward_index)
                                     - mul(bond_amounts[u], reward_info[u].base_index))
                                + (mul(reward_info[u].boost_weight, Boost.reward_index)
                                     - mul(reward_info[u].boost_weight, reward_info[u].boost_index))
                      /\ u \notin DOMAIN reward_info => Pulled(u) = 0
    BY DEF PullsAre
  <2>1. ConfigType /\ StatusType /\ RecordType /\ now \in Nat
    BY DEF Inv, PoolInv, BoostInv, BoostType
  <2>2. Pulled(u) \in Nat /\ (u \in DOMAIN reward_info => Pulled(u) >= reward_info[u].pending_reward)
    BY <2>1, PulledInfo DEF Pulled, RewardInfo
  <2>3. Base.reward_index \in Nat /\ Boost.reward_index \in Nat /\ bond_amounts[u] \in Nat
    BY <2>1, IndexesOKAlways DEF IndexesOK, RecordType
  <2>4. CASE u \in DOMAIN reward_info
    <3>1. Info(u) = reward_info[u] /\ reward_info[u] \in RewardInfo
      BY <2>1, <2>4 DEF Info, RecordType
    <3>2. PICK x : x = mul(bond_amounts[u], Base.reward_index)
                        - mul(bond_amounts[u], reward_info[u].base_index)
      OBVIOUS
    <3>3. PICK y : y = mul(reward_info[u].boost_weight, Boost.reward_index)
                        - mul(reward_info[u].boost_weight, reward_info[u].boost_index)
      OBVIOUS
    <3>4. PICK i, j : pull_pending_rewards(u)
            = [reward_info[u] EXCEPT !.pending_reward = @ + x + y, !.base_index = i, !.boost_index = j]
      BY <3>1, <3>2, <3>3 DEF pull_pending_rewards
    <3>5. Pulled(u) = reward_info[u].pending_reward + x + y
      BY <3>1, <3>4 DEF Pulled, RewardInfo
    <3>6. QED BY <2>2, <2>4, <3>2, <3>3, <3>5
  <2>5. CASE u \notin DOMAIN reward_info
    <3>1. PICK b \in Nat, c \in Nat, n \in Nat :
            b = Base.reward_index /\ c = Boost.reward_index /\ n = bond_amounts[u]
      BY <2>3
    <3>2. Info(u) = [base_index |-> b, boost_index |-> c, boost_weight |-> 0, pending_reward |-> 0]
      BY <2>5, <3>1 DEF Info
    <3>3. PICK k : k = pull_pending_rewards(u).pending_reward
      OBVIOUS
    <3>4. k = 0 + (mul(n, b) - mul(n, b)) + (mul(0, c) - mul(0, c))
      BY <3>1, <3>2, <3>3 DEF pull_pending_rewards
    <3>5. mul(n, b) \in Nat /\ mul(0, c) \in Nat
      BY MulNat
    <3>6. k = 0
      BY <3>4, <3>5
    <3>7. QED BY <2>2, <2>5, <3>3, <3>6 DEF Pulled
  <2>6. QED BY <2>4, <2>5
<1>2. Inv => VestedNat
  <2> SUFFICES ASSUME Inv, NEW u \in Users PROVE Vested(u) \in Nat
    BY DEF VestedNat
  <2>1. VestType
    BY DEF Inv, PoolInv
  <2>2. Total(scheduled_vest[u]) \in Nat /\ pending_withdraw[u] \in Nat
    BY <2>1, VestsEnd DEF VestType
  <2>3. QED BY <2>2 DEF Vested
<1>3. QED BY <1>1, <1>2, PTL

\* What a step may do to a user's rewards.
Untouched(u) ==
  /\ bond_amounts'[u] = bond_amounts[u]
  /\ u \in DOMAIN reward_info' <=> u \in DOMAIN reward_info
  /\ u \in DOMAIN reward_info => reward_info'[u] = reward_info[u]

PulledIn(u) ==
  /\ IndexesUpdatable
  /\ IF u \in DOMAIN reward_info' THEN reward_info'[u].pending_reward = Pulled(u)
     ELSE Pulled(u) = 0

RewardStep(u) ==
  /\ prism_held - prism_held' \in Nat
  /\ \/ /\ Untouched(u) \/ PulledIn(u)
        /\ Vested(u)' + (prism_held - prism_held') >= Vested(u)
     \/ IndexesUpdatable /\ Vested(u)' = Vested(u) + Pulled(u)

LEMMA NothingLostByStep ==
  ASSUME Inv, Inv', IndexStep, IndexesUpdatable, IndexesUpdatable', NEW u \in Users, RewardStep(u)
  PROVE  Entitled(u)' + (prism_held - prism_held') >= Entitled(u)
<1>1. PICK p \in Nat, q \in Nat, v \in Nat, w \in Nat, d \in Nat :
        /\ p = Pulled(u) /\ q = Pulled(u)' /\ v = Vested(u) /\ w = Vested(u)'
        /\ d = prism_held - prism_held'
  BY PullsAreAlways DEF PullsAre, VestedNat, RewardStep
<1>2. Entitled(u) = p + v /\ Entitled(u)' = q + w
  <2>1. PICK x \in Nat, y \in Nat : x = Total(scheduled_vest[u]) /\ y = pending_withdraw[u]
    BY VestsEnd DEF Inv, PoolInv, VestType
  <2>2. Entitled(u) = p + v
    BY <1>1, <2>1 DEF Entitled, Pulled, Vested
  <2>3. Total(scheduled_vest[u])' \in Nat /\ pending_withdraw'[u] \in Nat
    <3>1. scheduled_vest'[u] \in [DOMAIN scheduled_vest'[u] -> Nat]
          /\ IsFiniteSet(DOMAIN scheduled_vest'[u]) /\ pending_withdraw'[u] \in Nat
      BY DEF Inv, PoolInv, VestType
    <3>2. PICK f, D : f = scheduled_vest'[u] /\ D = DOMAIN f
      OBVIOUS
    <3>3. IsFiniteSet(D) /\ \A t \in D : f[t] \in Nat
      BY <3>1, <3>2
    <3>4. SumFunctionOnSet(f, D) \in Nat
      BY ONLY <3>3, SumNat
    <3>5. QED BY <3>1, <3>2, <3>4 DEF Total
  <2>4. Entitled(u)' = q + w
    BY <1>1, <2>3 DEF Entitled, Pulled, Vested
  <2>5. QED BY <2>2, <2>4
<1>3. CASE Untouched(u) /\ Vested(u)' + (prism_held - prism_held') >= Vested(u)
  <2>1. q >= p
    <3>1. CASE u \in DOMAIN reward_info
      <4>1. u \in DOMAIN reward_info' /\ reward_info'[u] = reward_info[u]
            /\ bond_amounts'[u] = bond_amounts[u]
        BY <1>3, <3>1 DEF Untouched
      <4>2. PICK n \in Nat, m \in Nat, k \in Nat, i \in Nat, j \in Nat :
              /\ n = bond_amounts[u] /\ m = reward_info[u].boost_weight
              /\ k = reward_info[u].pending_reward
              /\ i = reward_info[u].base_index /\ j = reward_info[u].boost_index
        BY <3>1 DEF Inv, PoolInv, RecordType, RewardInfo
      <4>3. PICK b \in Nat, c \in Nat, e \in Nat, f \in Nat :
              /\ b = Base.reward_index /\ c = Boost.reward_index
              /\ e = Base'.reward_index /\ f = Boost'.reward_index
        BY IndexesOKAlways DEF IndexesOK
      <4>4. b <= e /\ c <= f
        BY <4>3, IndexesNeverFall
      <4>5. p = k + (mul(n, b) - mul(n, i)) + (mul(m, c) - mul(m, j))
        BY <1>1, <3>1, <4>2, <4>3, PullsAreAlways DEF PullsAre
      <4>6. q = k + (mul(n, e) - mul(n, i)) + (mul(m, f) - mul(m, j))
        BY <1>1, <4>1, <4>2, <4>3, PullsAreAlways DEF PullsAre
      <4>7. /\ mul(n, b) \in Nat /\ mul(n, i) \in Nat /\ mul(m, c) \in Nat /\ mul(m, j) \in Nat
            /\ mul(n, e) \in Nat /\ mul(m, f) \in Nat
        BY MulNat
      <4>8. mul(n, b) <= mul(n, e) /\ mul(m, c) <= mul(m, f)
        <5>1. n <= n /\ m <= m
          OBVIOUS
        <5>2. QED BY <4>4, <5>1, MulGrows
      <4>9. QED BY <4>5, <4>6, <4>7, <4>8
    <3>2. CASE u \notin DOMAIN reward_info
      BY <1>1, <3>2, PullsAreAlways DEF PullsAre
    <3>3. QED BY <3>1, <3>2
  <2>2. QED BY <1>1, <1>2, <1>3, <2>1
<1>4. CASE PulledIn(u) /\ Vested(u)' + (prism_held - prism_held') >= Vested(u)
  <2>1. q >= p
    BY <1>1, <1>4, PullsAreAlways DEF PulledIn, PullsAre
  <2>2. QED BY <1>1, <1>2, <1>4, <2>1
<1>5. CASE Vested(u)' = Vested(u) + Pulled(u)
  BY <1>1, <1>2, <1>5
<1>6. QED BY <1>3, <1>4, <1>5 DEF RewardStep

\* Where neither records nor vests change.
LEMMA RewardsKept ==
  ASSUME Inv, UNCHANGED <<bond_amounts, reward_info, scheduled_vest, pending_withdraw, prism_held>>,
         NEW u \in Users
  PROVE  RewardStep(u)
<1>1. Vested(u)' = Vested(u) /\ Vested(u) \in Nat
  BY PullsAreAlways DEF VestedNat, Vested
<1>2. prism_held \in Nat
  BY DEF Inv, PoolInv, OtherType
<1>3. Untouched(u)
  BY DEF Untouched
<1>4. QED BY <1>1, <1>2, <1>3 DEF RewardStep

LEMMA RefreshRewards ==
  ASSUME Inv, NEW u \in Users, NEW b \in Nat, NEW boost \in Nat, Refresh(u, b, boost),
         NEW v \in Users
  PROVE  RewardStep(v)
<1>1. IndexesUpdatable /\ UNCHANGED <<scheduled_vest, pending_withdraw, prism_held>>
  BY DEF Refresh
<1>2. Vested(v)' = Vested(v) /\ Vested(v) \in Nat
  BY <1>1, PullsAreAlways DEF VestedNat, Vested
<1>3. prism_held \in Nat /\ ConfigType /\ StatusType /\ RecordType /\ now \in Nat
  BY DEF Inv, PoolInv, OtherType, BoostInv, BoostType
<1>4. CASE v = u
  <2>1. pull_pending_rewards(u) \in RewardInfo
    BY <1>1, <1>3, PulledInfo
  <2>2. /\ u \in DOMAIN reward_info' =>
             reward_info'[u] = [pull_pending_rewards(u) EXCEPT
                                  !.boost_weight = integer_sqrt(b * boost)]
        /\ u \notin DOMAIN reward_info' => pull_pending_rewards(u).pending_reward = 0
    BY <1>3, RefreshRecords
  <2>3. PulledIn(u)
    BY <1>1, <2>1, <2>2 DEF PulledIn, Pulled, RewardInfo
  <2>4. QED BY <1>1, <1>2, <1>3, <1>4, <2>3 DEF RewardStep
<1>5. CASE v # u
  <2>1. /\ bond_amounts' = [bond_amounts EXCEPT ![u] = b]
        /\ v \in DOMAIN reward_info' <=> v \in DOMAIN reward_info
        /\ v \in DOMAIN reward_info => reward_info'[v] = reward_info[v]
    BY <1>3, <1>5, RefreshRecords
  <2>2. Untouched(v)
    BY <1>3, <1>5, <2>1 DEF Untouched, RecordType
  <2>3. QED BY <1>1, <1>2, <1>3, <2>2 DEF RewardStep
<1>6. QED BY <1>4, <1>5

LEMMA WithdrawRewards ==
  ASSUME Inv, NEW S \in SUBSET Users, Withdraw(S), NEW v \in Users
  PROVE  RewardStep(v)
<1>1. IndexesUpdatable /\ UNCHANGED <<bond_amounts, prism_held>>
  BY DEF Withdraw
<1>2. prism_held \in Nat /\ ConfigType /\ StatusType /\ RecordType /\ VestType /\ now \in Nat
      /\ PoolWeights
  BY DEF Inv, PoolInv, OtherType, BoostInv, BoostType
<1>3. CASE v \in S
  <2>1. /\ pending_withdraw'[v] = can_withdraw(v)
        /\ Total(scheduled_vest'[v]) = Total(RunningVests(v)) + Pulled(v)
    BY <1>2, <1>3, WithdrawnUser DEF Pulled
  <2>2. PICK x \in Nat, y \in Nat, p \in Nat, t \in Nat, k \in Nat :
          /\ x = Total(RunningVests(v)) /\ y = can_withdraw(v) /\ p = Pulled(v)
          /\ t = Total(scheduled_vest[v]) /\ k = pending_withdraw[v] /\ x + y = t + k
    <3>1. Pulled(v) \in Nat
      BY <1>1, PullsAreAlways DEF PullsAre
    <3>2. QED BY <1>2, <3>1, VestsEnd DEF VestType
  <2>3. Vested(v) = t + k /\ Vested(v)' = x + p + y
    BY <2>1, <2>2 DEF Vested, Total
  <2>4. Vested(v)' = Vested(v) + Pulled(v)
    BY <2>2, <2>3
  <2>5. QED BY <1>1, <1>2, <2>4 DEF RewardStep
<1>4. CASE v \notin S
  <2>1. /\ v \in DOMAIN reward_info' <=> v \in DOMAIN reward_info
        /\ v \in DOMAIN reward_info' => reward_info'[v] = reward_info[v]
        /\ pending_withdraw'[v] = pending_withdraw[v]
        /\ scheduled_vest'[v] = scheduled_vest[v]
    BY <1>2, <1>4, WithdrawnUser
  <2>2. Untouched(v)
    BY <1>1, <2>1 DEF Untouched
  <2>3. Vested(v)' = Vested(v) /\ Vested(v) \in Nat
    BY <2>1, PullsAreAlways DEF Vested, VestedNat, Total
  <2>4. QED BY <1>1, <1>2, <2>2, <2>3 DEF RewardStep
<1>5. QED BY <1>3, <1>4

LEMMA ClaimRewards ==
  ASSUME Inv, NEW u \in Users, Claim(u), NEW v \in Users
  PROVE  RewardStep(v)
<1>1. /\ can_withdraw(u) <= prism_held
      /\ prism_held' = prism_held - can_withdraw(u)
      /\ pending_withdraw' = [pending_withdraw EXCEPT ![u] = 0]
      /\ scheduled_vest' = [scheduled_vest EXCEPT ![u] = RunningVests(u)]
      /\ UNCHANGED <<bond_amounts, reward_info>>
  BY DEF Claim
<1>2. prism_held \in Nat /\ VestType
  BY DEF Inv, PoolInv, OtherType
<1>3. PICK x \in Nat, y \in Nat, t \in Nat, k \in Nat :
        /\ x = Total(RunningVests(u)) /\ y = can_withdraw(u)
        /\ t = Total(scheduled_vest[u]) /\ k = pending_withdraw[u] /\ x + y = t + k
  BY <1>2, VestsEnd DEF VestType
<1>4. prism_held - prism_held' = y
  BY <1>1, <1>2, <1>3
<1>5. Untouched(v)
  BY <1>1 DEF Untouched
<1>6. Vested(v)' + y >= Vested(v)
  <2>1. DOMAIN scheduled_vest = Users /\ pending_withdraw \in [Users -> Nat]
    BY <1>2 DEF VestType
  <2>2. CASE v = u
    <3>1. scheduled_vest'[u] = RunningVests(u) /\ pending_withdraw'[u] = 0
      BY <1>1, <2>1
    <3>2. Vested(u)' = x + 0 /\ Vested(u) = t + k
      BY <1>3, <3>1 DEF Vested, Total
    <3>3. QED BY <1>3, <2>2, <3>2
  <2>3. CASE v # u
    <3>1. scheduled_vest'[v] = scheduled_vest[v] /\ pending_withdraw'[v] = pending_withdraw[v]
      BY <1>1, <2>1, <2>3
    <3>2. Vested(v)' = Vested(v) /\ Vested(v) \in Nat
      BY <3>1, PullsAreAlways DEF Vested, VestedNat, Total
    <3>3. QED BY <3>2
  <2>4. QED BY <2>2, <2>3
<1>7. QED BY <1>4, <1>5, <1>6 DEF RewardStep

\* Bonding, unbonding and activating are refreshes.
LEMMA RefreshesAre ==
  ASSUME Inv,
         \/ \E u \in Users, amount \in BondAmounts : bond(u, amount)
         \/ \E u \in Users, amount \in UnbondAmounts : unbond(u, amount)
         \/ \E u \in Users : unbond(u, bond_amounts[u])
         \/ \E u \in Users : activate_boost(u)
  PROVE  \E u \in Users, b \in Nat, g \in Nat : Refresh(u, b, g)
<1>a. \A u \in Users : bond_amounts[u] \in Nat /\ GetBoost(user_info, u) \in Nat
  BY BoostsNat DEF Inv, PoolInv, RecordType
<1>0. BondAmounts \subseteq Nat /\ UnbondAmounts \subseteq Nat
  BY LaunchAssumption
<1>1. ASSUME NEW u \in Users, NEW amount \in Nat, bond(u, amount)
      PROVE  \E b \in Nat : Refresh(u, b, GetBoost(user_info, u))
  <2>1. bond_amounts[u] + amount \in Nat
    BY <1>a
  <2>2. QED BY <1>1, <2>1 DEF bond
<1>2. ASSUME NEW u \in Users, NEW amount \in Nat, unbond(u, amount)
      PROVE  \E b \in Nat : Refresh(u, b, GetBoost(user_info, u))
  <2>1. bond_amounts[u] - amount \in Nat
    BY <1>a, <1>2 DEF unbond
  <2>2. QED BY <1>2, <2>1 DEF unbond
<1>3. ASSUME NEW u \in Users, activate_boost(u)
      PROVE  \E b \in Nat : Refresh(u, b, GetBoost(user_info, u))
  BY <1>a, <1>3 DEF activate_boost
<1>4. PICK u \in Users : \E b \in Nat : Refresh(u, b, GetBoost(user_info, u))
  BY <1>a, <1>0, <1>1, <1>2, <1>3
<1>5. QED BY <1>4, <1>a

LEMMA RewardsMove == Inv /\ Inv' /\ [Next]_vars => \A v \in Users : RewardStep(v)
<1> SUFFICES ASSUME Inv, Inv', [Next]_vars, NEW v \in Users PROVE RewardStep(v)
  OBVIOUS
<1>a. \A u \in Users : bond_amounts[u] \in Nat /\ GetBoost(user_info, u) \in Nat
  BY BoostsNat DEF Inv, PoolInv, RecordType
<1>1. CASE \/ \E u \in Users, amount \in BondAmounts : bond(u, amount)
           \/ \E u \in Users, amount \in UnbondAmounts : unbond(u, amount)
           \/ \E u \in Users : unbond(u, bond_amounts[u])
           \/ \E u \in Users : activate_boost(u)
  <2>1. PICK u \in Users, b \in Nat, g \in Nat : Refresh(u, b, g)
    BY <1>1, RefreshesAre
  <2>2. QED BY <2>1, RefreshRewards
<1>2. CASE \E u \in Users : withdraw_rewards(u)
  <2>1. PICK u \in Users : Withdraw({u})
    BY <1>2 DEF withdraw_rewards
  <2>2. {u} \in SUBSET Users
    OBVIOUS
  <2>3. QED BY <2>1, <2>2, WithdrawRewards
<1>3. CASE \E s \in {OWNER, OPERATOR} : withdraw_rewards_bulk(s, BulkLimit)
  <2>1. BulkLimit \in Nat
    BY LaunchAssumption
  <2>2. PICK S \in SUBSET Users : Withdraw(S)
    BY <1>3, <2>1, BulkInv DEF Inv, PoolInv
  <2>3. QED BY <2>2, WithdrawRewards
<1>4. CASE \E u \in Users : claim_as_prism(u) \/ claim_as_xprism(u) \/ claim_as_amps(u)
  <2>1. PICK u \in Users : Claim(u)
    BY <1>4 DEF claim_as_prism, claim_as_xprism, claim_as_amps
  <2>2. QED BY <2>1, ClaimRewards
<1>5. CASE \E s \in {OWNER, OPERATOR}, y \in YieldAmounts : admin_withdraw_rewards(s, y)
  <2>1. PICK s \in {OWNER, OPERATOR}, y \in YieldAmounts : admin_withdraw_rewards(s, y)
    BY <1>5
  <2>2. y \in Nat /\ prism_held \in Nat
    BY LaunchAssumption DEF Inv, PoolInv, OtherType
  <2>3. prism_held' = prism_held
    BY <2>1, <2>2 DEF admin_withdraw_rewards, withdrawn_rewards
  <2>4. QED BY <2>1, <2>3, RewardsKept DEF admin_withdraw_rewards, rewardVars
<1>6. CASE \/ \E s \in {OWNER, OPERATOR}, m \in MinBondChoices : update_min_bond_amount(s, m)
           \/ \E s \in {OWNER, OPERATOR}, r \in RatioChoices : update_base_pool_ratio(s, r)
  BY <1>6, RewardsKept DEF update_min_bond_amount, update_base_pool_ratio, rewardVars
<1>7. CASE \/ \E u \in Users, amount \in XprismAmounts : bond_xprism(u, amount)
           \/ \E s \in BoostOwners, update \in BoostUpdates : configure_boost(s, update)
           \/ EndBlock
  BY <1>7, RewardsKept DEF bond_xprism, configure_boost, EndBlock, poolVars, rewardVars
<1>8. CASE \E u \in Users, amount \in XprismUnbondAmounts : unbond_xprism(u, amount)
  <2>1. PICK u \in Users, amount \in XprismUnbondAmounts : unbond_xprism(u, amount)
    BY <1>8
  <2>2. CASE Refresh(u, bond_amounts[u], GetBoost(user_info', u))
    <3>1. amount \in Nat /\ boost_unbond(u, amount) /\ now' = now
      BY <2>1, <2>2, LaunchAssumption DEF unbond_xprism, Refresh
    <3>2. GetBoost(user_info', u) \in Nat
      BY <3>1, BoostUnbondInv DEF Inv
    <3>3. QED BY <1>a, <2>2, <3>2, RefreshRewards
  <2>3. CASE UNCHANGED <<poolVars, refreshes, now>>
    BY <2>3, RewardsKept DEF poolVars, rewardVars
  <2>4. QED BY <2>1, <2>2, <2>3 DEF unbond_xprism
<1>9. CASE UNCHANGED vars
  BY <1>9, RewardsKept DEF vars, poolVars, rewardVars
<1>10. QED
  BY <1>1, <1>2, <1>3, <1>4, <1>5, <1>6, <1>7, <1>8, <1>9 DEF Next

\* No step of the pool loses rewards of anyone: what a user has accrued, vesting and vested
\* falls only by what the pool pays, through every bond, refresh, removal of a record,
\* bulk withdrawal, change of the ratio and passing of time.
THEOREM NoRewardLost == Spec => NothingLost
<1>1. Inv /\ Inv' /\ [Next]_vars =>
        [(IndexesUpdatable /\ IndexesUpdatable') =>
           \A u \in Users : Entitled(u)' + (prism_held - prism_held') >= Entitled(u)]_vars
  BY IndexesMove, RewardsMove, NothingLostByStep
<1>2. QED BY <1>1, InvHolds, PTL DEF Spec, NothingLost
-----------------------------------------------------------------------------
(***************************************************************************)
(* What the schedule has released covers everything.  The books are kept   *)
(* exactly, in units of 1/ONE: what a user has is worth what is stored and *)
(* vests, and the weights at the indexes less what was paid on them, where *)
(* a record was brought up to date, rounded down.  A pull changes nothing  *)
(* of that, an update of the indexes adds at most what it distributes, and *)
(* a change of a weight at most one unit in each pool.                     *)
(***************************************************************************)
Accrued(w, i, from) == w * i - ONE * mul(w, from)

Stored(u) == IF u \in DOMAIN reward_info THEN reward_info[u].pending_reward ELSE 0
BaseFrom(u) == IF u \in DOMAIN reward_info THEN reward_info[u].base_index ELSE 0
BoostFrom(u) == IF u \in DOMAIN reward_info THEN reward_info[u].boost_index ELSE 0

Worth(u, i, j) ==
  ONE * (Stored(u) + Vested(u)) + Accrued(bond_amounts[u], i, BaseFrom(u))
    + Accrued(Weight(u), j, BoostFrom(u))
Worths(i, j) == [u \in Users |-> Worth(u, i, j)]
WorthSum(i, j) == SumFunctionOnSet(Worths(i, j), Users)

BooksAt(base, boost) ==
  ONE * (Funding - prism_held) + WorthSum(base.reward_index, boost.reward_index)
      + ONE * (base.pending_reward + boost.pending_reward)
    <= ONE * (InitPoolConfig.amount - pool_config.amount
                + base.total_distributed + boost.total_distributed)
         + ONE * (2 * refreshes)

Books == BooksAt(base_status, boost_status)

\* What has accrued, and how it grows with the index.
LEMMA AccruedFacts ==
  ASSUME NEW w \in Nat, NEW i \in Nat, NEW from \in Nat, from <= i
  PROVE  /\ Accrued(w, i, from) \in Nat
         /\ Accrued(w, i, from) = ONE * (mul(w, i) - mul(w, from)) + Accrued(w, i, i)
         /\ Accrued(w, i, i) \in Nat /\ Accrued(w, i, i) <= ONE
         /\ w = 0 => Accrued(w, i, from) = 0
<1>1. PICK o \in Nat \ {0} : o = ONE
  BY OnePos
<1>2. PICK m \in Nat, k \in Nat : m = mul(w, from) /\ k = mul(w, i)
  BY MulNat
<1>3. o * m <= w * from /\ o * k <= w * i /\ w * i < o * k + o
  BY <1>1, <1>2, MulRest
<1>4. w * from <= w * i /\ w * from \in Nat /\ w * i \in Nat /\ o * m \in Nat /\ o * k \in Nat
  OBVIOUS
<1>5. Accrued(w, i, from) = w * i - o * m /\ Accrued(w, i, i) = w * i - o * k
  BY <1>1, <1>2 DEF Accrued
<1>7. o * (k - m) = o * k - o * m
  OBVIOUS
<1>8. Accrued(w, i, from) = ONE * (mul(w, i) - mul(w, from)) + Accrued(w, i, i)
  <2>1. ONE * (mul(w, i) - mul(w, from)) = o * (k - m)
    BY <1>1, <1>2
  <2>2. QED BY <1>4, <1>5, <1>7, <2>1
<1>9. w = 0 => Accrued(w, i, from) = 0
  <2>1. SUFFICES ASSUME w = 0 PROVE w * i - o * m = 0
    BY <1>5
  <2>2. w * i = 0 /\ w * from = 0
    BY <2>1
  <2>3. QED BY <1>3, <1>4, <2>2
<1>10. Accrued(w, i, from) \in Nat /\ Accrued(w, i, i) \in Nat /\ Accrued(w, i, i) <= ONE
  BY <1>1, <1>3, <1>4, <1>5
<1>11. QED BY <1>8, <1>9, <1>10

\* The record of a user, or nothing.
RecordOK(u) ==
  /\ Stored(u) \in Nat /\ Vested(u) \in Nat /\ bond_amounts[u] \in Nat /\ Weight(u) \in Nat
  /\ BaseFrom(u) \in Nat /\ BoostFrom(u) \in Nat
  /\ BaseFrom(u) <= base_status.reward_index /\ BoostFrom(u) <= boost_status.reward_index
  /\ base_status.reward_index \in Nat /\ boost_status.reward_index \in Nat

LEMMA RecordFacts == Inv => \A u \in Users : RecordOK(u)
<1> SUFFICES ASSUME Inv, NEW u \in Users PROVE RecordOK(u)
  OBVIOUS
<1>1. RecordType /\ StatusType
  BY DEF Inv, PoolInv
<1>2. Vested(u) \in Nat /\ bond_amounts[u] \in Nat /\ Weight(u) \in Nat
  BY <1>1, WeightsNat, PullsAreAlways DEF VestedNat
<1>3. base_status.reward_index \in Nat /\ boost_status.reward_index \in Nat
  BY <1>1 DEF StatusType, DistributionStatus
<1>4. CASE u \in DOMAIN reward_info
  <2>1. reward_info[u] \in RewardInfo /\ reward_info[u].base_index <= base_status.reward_index
        /\ reward_info[u].boost_index <= boost_status.reward_index
    BY <1>1, <1>4 DEF RecordType
  <2>2. Stored(u) = reward_info[u].pending_reward /\ BaseFrom(u) = reward_info[u].base_index
        /\ BoostFrom(u) = reward_info[u].boost_index
    BY <1>4 DEF Stored, BaseFrom, BoostFrom
  <2>3. QED BY <1>2, <1>3, <2>1, <2>2 DEF RecordOK, RewardInfo
<1>5. CASE u \notin DOMAIN reward_info
  <2>1. Stored(u) = 0 /\ BaseFrom(u) = 0 /\ BoostFrom(u) = 0
    BY <1>5 DEF Stored, BaseFrom, BoostFrom
  <2>2. QED BY <1>2, <1>3, <2>1 DEF RecordOK
<1>6. QED BY <1>4, <1>5

LEMMA RecordFactsNext == Inv' => \A u \in Users : RecordOK(u)'
<1>1. (Inv => \A u \in Users : RecordOK(u))'
  BY RecordFacts, PTL
<1>2. QED BY <1>1

\* At indexes no lower than the stored ones, everybody's worth is a natural.
LEMMA WorthNat ==
  ASSUME NEW u \in Users, RecordOK(u), NEW i \in Nat, NEW j \in Nat,
         i >= base_status.reward_index, j >= boost_status.reward_index
  PROVE  /\ Worth(u, i, j) \in Nat
         /\ \A q \in Nat, r \in Nat :
              Worth(u, i + q, j + r) = Worth(u, i, j) + q * bond_amounts[u] + r * Weight(u)
<1>1. PICK b \in Nat, w \in Nat, x \in Nat, y \in Nat, n \in Nat :
        /\ b = bond_amounts[u] /\ w = Weight(u) /\ x = BaseFrom(u) /\ y = BoostFrom(u)
        /\ n = ONE * (Stored(u) + Vested(u))
  <2>1. ONE * (Stored(u) + Vested(u)) \in Nat
    BY OnePos DEF RecordOK
  <2>2. bond_amounts[u] \in Nat /\ Weight(u) \in Nat /\ BaseFrom(u) \in Nat /\ BoostFrom(u) \in Nat
    BY DEF RecordOK
  <2>3. QED BY <2>1, <2>2, Zenon
<1>2. x <= i /\ y <= j
  BY <1>1 DEF RecordOK
<1>3. PICK e \in Nat, f \in Nat : e = Accrued(b, i, x) /\ f = Accrued(w, j, y)
  BY <1>2, AccruedFacts
<1>4. Worth(u, i, j) = n + e + f
  BY <1>1, <1>3 DEF Worth
<1>5. ASSUME NEW q \in Nat, NEW r \in Nat PROVE Worth(u, i + q, j + r) = Worth(u, i, j) + q * b + r * w
  <2>1. PICK k \in Nat, m \in Nat : k = ONE * mul(b, x) /\ m = ONE * mul(w, y)
    <3>1. ONE * mul(b, x) \in Nat /\ ONE * mul(w, y) \in Nat
      BY MulRest
    <3>2. QED BY <3>1
  <2>2. b * (i + q) = b * i + q * b /\ w * (j + r) = w * j + r * w
        /\ b * i \in Nat /\ w * j \in Nat /\ q * b \in Nat /\ r * w \in Nat
    OBVIOUS
  <2>3. Accrued(b, i + q, x) = e + q * b /\ Accrued(w, j + r, y) = f + r * w
    <3>1. Accrued(b, i + q, x) = b * (i + q) - k /\ e = b * i - k
      BY <1>3, <2>1 DEF Accrued
    <3>2. Accrued(w, j + r, y) = w * (j + r) - m /\ f = w * j - m
      BY <1>3, <2>1 DEF Accrued
    <3>3. QED BY <2>2, <3>1, <3>2
  <2>4. Worth(u, i + q, j + r) = n + Accrued(b, i + q, x) + Accrued(w, j + r, y)
    BY <1>1 DEF Worth
  <2>5. q * b \in Nat /\ r * w \in Nat
    OBVIOUS
  <2>6. QED BY <1>4, <2>3, <2>4, <2>5
<1>6. Worth(u, i, j) \in Nat
  BY <1>4
<1>7. QED BY <1>1, <1>5, <1>6, Zenon

\* An update of the indexes: what it adds to everybody's worth is paid for.
LEMMA WorthSumGrows ==
  ASSUME Inv, NEW i \in Nat, NEW j \in Nat, NEW q \in Nat, NEW r \in Nat,
         i >= base_status.reward_index, j >= boost_status.reward_index
  PROVE  /\ WorthSum(i, j) \in Nat
         /\ WorthSum(i + q, j + r) <= WorthSum(i, j) + q * base_status.total_weight
                                        + r * boost_status.total_weight
<1>1. \A u \in Users : RecordOK(u)
  BY RecordFacts
<1>2. base_status.total_weight = SumFunctionOnSet(bond_amounts, Users)
      /\ boost_status.total_weight = SumFunctionOnSet(Weights, Users)
  BY DEF Inv, PoolInv, PoolWeights, BondSum, WeightSum
<1>3. PICK f, g, h : f = Worths(i, j) /\ h = Worths(i + q, j + r)
                     /\ g = [u \in Users |-> Worth(u, i, j) + q * bond_amounts[u]]
  OBVIOUS
<1>4. ASSUME NEW u \in Users
      PROVE  /\ f[u] \in Nat /\ bond_amounts[u] \in Nat /\ Weights[u] \in Nat
             /\ g[u] \in Nat /\ h[u] \in Nat
             /\ g[u] = f[u] + q * bond_amounts[u] /\ h[u] = g[u] + r * Weights[u]
  <2>1. Worth(u, i, j) \in Nat
        /\ Worth(u, i + q, j + r) = Worth(u, i, j) + q * bond_amounts[u] + r * Weight(u)
    BY <1>1, WorthNat
  <2>2. bond_amounts[u] \in Nat /\ Weight(u) \in Nat
    BY <1>1 DEF RecordOK
  <2>3. q * bond_amounts[u] \in Nat /\ r * Weight(u) \in Nat
    BY <2>2
  <2>4. f[u] = Worth(u, i, j) /\ g[u] = Worth(u, i, j) + q * bond_amounts[u]
        /\ h[u] = Worth(u, i + q, j + r) /\ Weights[u] = Weight(u)
    BY <1>3 DEF Worths, Weights
  <2>5. QED BY <2>1, <2>2, <2>3, <2>4
<1>5. IsFiniteSet(Users)
  BY UsersFinite
<1>6. PICK F \in Nat, G \in Nat, H \in Nat, B \in Nat, W \in Nat :
        /\ F = SumFunctionOnSet(f, Users) /\ G = SumFunctionOnSet(g, Users)
        /\ H = SumFunctionOnSet(h, Users) /\ B = SumFunctionOnSet(bond_amounts, Users)
        /\ W = SumFunctionOnSet(Weights, Users)
  BY <1>4, <1>5, SumNat
<1>7. 1 * G <= F + q * B
  <2>1. \A u \in Users : f[u] \in Nat /\ bond_amounts[u] \in Nat /\ g[u] \in Nat
                         /\ 1 * g[u] <= f[u] + q * bond_amounts[u]
    BY <1>4
  <2>2. QED BY <1>5, <1>6, <2>1, SumBound
<1>8. 1 * H <= G + r * W
  <2>1. \A u \in Users : g[u] \in Nat /\ Weights[u] \in Nat /\ h[u] \in Nat
                         /\ 1 * h[u] <= g[u] + r * Weights[u]
    BY <1>4
  <2>2. QED BY <1>5, <1>6, <2>1, SumBound
<1>9. q * B \in Nat /\ r * W \in Nat
  OBVIOUS
<1>10. H <= F + q * B + r * W
  BY <1>7, <1>8, <1>9
<1>11. QED BY <1>2, <1>3, <1>6, <1>10 DEF WorthSum

WorthsNat ==
  \A i \in Nat, j \in Nat :
    i >= base_status.reward_index /\ j >= boost_status.reward_index =>
      WorthSum(i, j) \in Nat /\ \A u \in Users : Worth(u, i, j) \in Nat

LEMMA WorthsNatAlways == (Inv => WorthsNat) /\ (Inv' => WorthsNat')
<1>1. Inv => WorthsNat
  <2> SUFFICES ASSUME Inv, NEW i \in Nat, NEW j \in Nat, i >= base_status.reward_index,
                      j >= boost_status.reward_index
               PROVE  WorthSum(i, j) \in Nat /\ \A u \in Users : Worth(u, i, j) \in Nat
    BY DEF WorthsNat
  <2>1. \A u \in Users : Worth(u, i, j) \in Nat
    BY RecordFacts, WorthNat
  <2>2. PICK f : f = Worths(i, j)
    OBVIOUS
  <2>3. \A u \in Users : f[u] \in Nat
    BY <2>1, <2>2 DEF Worths
  <2>4. SumFunctionOnSet(f, Users) \in Nat
    BY <2>3, UsersFinite, SumNat
  <2>5. QED BY <2>1, <2>2, <2>4 DEF WorthSum
<1>2. QED BY <1>1, PTL

\* An update of one index distributes no more than what it takes from the schedule and
\* from what was waiting.
LEMMA IndexEarns ==
  ASSUME ConfigType, now \in Nat, NEW status \in DistributionStatus, NEW ratio \in Nat,
         Updatable(status, ratio)
  PROVE  LET s == update_reward_index(status, ratio)
         IN  \E q \in Nat :
               /\ s.reward_index = status.reward_index + q
               /\ q * status.total_weight + ONE * s.pending_reward
                    <= ONE * (s.total_distributed - status.total_distributed
                                + status.pending_reward)
               /\ s.total_distributed >= status.total_distributed
<1> DEFINE s == update_reward_index(status, ratio)
           Goal(q) == /\ s.reward_index = status.reward_index + q
                      /\ q * status.total_weight + ONE * s.pending_reward
                           <= ONE * (s.total_distributed - status.total_distributed
                                       + status.pending_reward)
                      /\ s.total_distributed >= status.total_distributed
<1>1. PICK t \in Nat, w \in Nat, p \in Nat, i \in Nat, o \in Nat \ {0} :
        /\ t = status.total_distributed /\ w = status.total_weight
        /\ p = status.pending_reward /\ i = status.reward_index /\ o = ONE
  BY OnePos DEF DistributionStatus
<1>2. CASE now < pool_config.start
  <2>1. s = status
    BY <1>2 DEF update_reward_index
  <2> HIDE DEF s
  <2>2. i = i + 0 /\ 0 * w + o * p <= o * (t - t + p) /\ t >= t
    OBVIOUS
  <2>3. Goal(0)
    BY <1>1, <2>1, <2>2
  <2>4. QED BY <2>3 DEF s
<1>3. CASE ~(now < pool_config.start)
  <2>1. PICK d \in Nat : d = total_distribute(ratio) /\ t <= d
    <3>1. now >= pool_config.start /\ denom > 0 /\ t <= total_distribute(ratio)
      BY <1>1, <1>3 DEF Updatable, ConfigType, PoolConfig
    <3>2. total_distribute(ratio) \in Nat
      BY <3>1, DistributeNat
    <3>3. QED BY <3>1, <3>2
  <2>2. PICK here \in Nat : here = d - t + p
    BY <2>1
  <2>3. CASE w = 0
    <3>1. s = [status EXCEPT !.total_distributed = d, !.pending_reward = here]
      BY <1>1, <1>3, <2>1, <2>2, <2>3 DEF update_reward_index
    <3> HIDE DEF s
    <3>2. s.total_distributed = d /\ s.pending_reward = here /\ s.reward_index = i
      BY <1>1, <3>1 DEF DistributionStatus
    <3>3. i = i + 0 /\ 0 * w + o * here <= o * (d - t + p) /\ d >= t
      BY <2>1, <2>2
    <3>4. Goal(0)
      BY <1>1, <3>2, <3>3
    <3>5. QED BY <3>4 DEF s
  <2>4. CASE w # 0
    <3>1. PICK q \in Nat : q = from_ratio(here, w)
      BY <2>4, RatioNat
    <3>2. s = [status EXCEPT !.total_distributed = d, !.pending_reward = 0,
                             !.reward_index = @ + q]
      BY <1>1, <1>3, <2>1, <2>2, <2>4, <3>1 DEF update_reward_index
    <3> HIDE DEF s
    <3>3. s.total_distributed = d /\ s.pending_reward = 0 /\ s.reward_index = i + q
      BY <1>1, <3>2 DEF DistributionStatus
    <3>4. q * w <= here * o
      BY <1>1, <2>4, <3>1, RatioRest
    <3>5. q * w \in Nat /\ here * o = o * (d - t + p) /\ o * 0 = 0
      BY <2>2
    <3>6. q * w + o * 0 <= o * (d - t + p)
      BY <3>4, <3>5
    <3>7. Goal(q)
      BY <1>1, <2>1, <3>3, <3>6
    <3>8. QED BY <3>7 DEF s
  <2>5. QED BY <2>3, <2>4
<1>4. QED BY <1>2, <1>3

\* update_reward_indexes keeps the books.
LEMMA UpdateBooks ==
  ASSUME Inv, Books, IndexesUpdatable
  PROVE  BooksAt(Base, Boost)
<1>1. ConfigType /\ StatusType /\ OtherType /\ now \in Nat
  BY DEF Inv, PoolInv, BoostInv, BoostType
<1>2. Base \in DistributionStatus /\ Boost \in DistributionStatus
  BY <1>1, UpdatedIndexes
<1>3. PICK b, c, st, su : b = Base /\ c = Boost /\ st = base_status /\ su = boost_status
  OBVIOUS
<1>4. PICK o \in Nat, h \in Nat, a \in Nat, n \in Nat, F \in Nat, A \in Nat :
        /\ o = ONE /\ h = prism_held /\ a = pool_config.amount /\ n = refreshes
        /\ F = Funding /\ A = InitPoolConfig.amount
  BY <1>1, OnePos, LaunchAssumption DEF ConfigType, PoolConfig, OtherType
<1>5. PICK i \in Nat, j \in Nat, t \in Nat, u \in Nat, p \in Nat, k \in Nat, w \in Nat, x \in Nat :
        /\ i = st.reward_index /\ j = su.reward_index
        /\ t = st.total_distributed /\ u = su.total_distributed
        /\ p = st.pending_reward /\ k = su.pending_reward
        /\ w = st.total_weight /\ x = su.total_weight
  BY <1>1, <1>3 DEF StatusType, DistributionStatus
<1>6. PICK tt \in Nat, uu \in Nat, pp \in Nat, kk \in Nat :
        /\ tt = b.total_distributed /\ uu = c.total_distributed
        /\ pp = b.pending_reward /\ kk = c.pending_reward
  BY <1>2, <1>3 DEF DistributionStatus
<1>7. PICK q \in Nat : b.reward_index = i + q /\ q * w + o * pp <= o * (tt - t + p) /\ tt >= t
  <2>1. pool_config.base_pool_ratio \in Nat /\ Updatable(base_status, pool_config.base_pool_ratio)
        /\ base_status \in DistributionStatus
    BY <1>1, RatiosNat DEF IndexesUpdatable, StatusType
  <2>2. \E q \in Nat :
          /\ Base.reward_index = base_status.reward_index + q
          /\ q * base_status.total_weight + ONE * Base.pending_reward
               <= ONE * (Base.total_distributed - base_status.total_distributed
                           + base_status.pending_reward)
          /\ Base.total_distributed >= base_status.total_distributed
    BY <1>1, <2>1, IndexEarns DEF Base
  <2>3. QED BY <1>3, <1>4, <1>5, <1>6, <2>2
<1>8. PICK r \in Nat : c.reward_index = j + r /\ r * x + o * kk <= o * (uu - u + k) /\ uu >= u
  <2>1. boost_pool_ratio \in Nat /\ Updatable(boost_status, boost_pool_ratio)
        /\ boost_status \in DistributionStatus
    BY <1>1, RatiosNat DEF IndexesUpdatable, StatusType
  <2>2. \E r \in Nat :
          /\ Boost.reward_index = boost_status.reward_index + r
          /\ r * boost_status.total_weight + ONE * Boost.pending_reward
               <= ONE * (Boost.total_distributed - boost_status.total_distributed
                           + boost_status.pending_reward)
          /\ Boost.total_distributed >= boost_status.total_distributed
    BY <1>1, <2>1, IndexEarns DEF Boost
  <2>3. QED BY <1>3, <1>4, <1>5, <1>6, <2>2
<1>9. PICK W \in Nat, V \in Nat : W = WorthSum(i, j) /\ V = WorthSum(i + q, j + r)
  <2>1. base_status.reward_index = i /\ boost_status.reward_index = j
    BY <1>3, <1>5
  <2>2. i >= i /\ j >= j /\ i + q >= i /\ j + r >= j /\ i + q \in Nat /\ j + r \in Nat
    OBVIOUS
  <2>3. QED BY <2>1, <2>2, WorthsNatAlways DEF WorthsNat
<1>10. V <= W + q * w + r * x
  <2>1. i >= base_status.reward_index /\ j >= boost_status.reward_index
    BY <1>3, <1>5
  <2>2. WorthSum(i + q, j + r) <= WorthSum(i, j) + q * base_status.total_weight
                                    + r * boost_status.total_weight
    BY <2>1, WorthSumGrows
  <2>3. QED BY <1>3, <1>5, <1>9, <2>2
<1>11. o * (F - h) + W + o * (p + k) <= o * (A - a + t + u) + o * (2 * n)
  BY <1>3, <1>4, <1>5, <1>9 DEF Books, BooksAt
<1>12. o * (F - h) + V + o * (pp + kk) <= o * (A - a + tt + uu) + o * (2 * n)
  <2>1. q * w \in Nat /\ r * x \in Nat
    OBVIOUS
  <2>2. o * (p + k) = o * p + o * k /\ o * (pp + kk) = o * pp + o * kk
    OBVIOUS
  <2>3. o * (tt - t + p) = o * tt - o * t + o * p /\ o * (uu - u + k) = o * uu - o * u + o * k
    OBVIOUS
  <2>4. o * (A - a + t + u) = o * (A - a) + o * t + o * u
        /\ o * (A - a + tt + uu) = o * (A - a) + o * tt + o * uu
    OBVIOUS
  <2>5. PICK e1 \in Int, e2 \in Int, e3 \in Nat, e4 \in Nat, e5 \in Nat, e6 \in Nat, e7 \in Nat :
          /\ e1 = o * (F - h) /\ e2 = o * (A - a) /\ e3 = o * (2 * n)
          /\ e4 = o * t /\ e5 = o * u /\ e6 = o * tt /\ e7 = o * uu
    OBVIOUS
  <2>6. PICK d1 \in Nat, d2 \in Nat, d3 \in Nat, d4 \in Nat, d5 \in Nat, d6 \in Nat :
          /\ d1 = o * p /\ d2 = o * k /\ d3 = o * pp /\ d4 = o * kk /\ d5 = q * w /\ d6 = r * x
    OBVIOUS
  <2>7. /\ d5 + d3 <= e6 - e4 + d1 /\ d6 + d4 <= e7 - e5 + d2 /\ V <= W + d5 + d6
        /\ e1 + W + (d1 + d2) <= e2 + e4 + e5 + e3
    BY <1>7, <1>8, <1>10, <1>11, <2>2, <2>3, <2>4, <2>5, <2>6
  <2>8. e1 + V + (d3 + d4) <= e2 + e6 + e7 + e3
    BY <2>7
  <2>9. QED BY <2>2, <2>4, <2>5, <2>6, <2>8
<1>13. QED BY <1>3, <1>4, <1>6, <1>7, <1>8, <1>9, <1>12 DEF BooksAt

\* A record brought up to date, or a user without weights: what accrued is stored.
SettledWorth ==
  \A u \in Users, i \in Nat, j \in Nat :
    /\ BaseFrom(u) = i \/ bond_amounts[u] = 0
    /\ BoostFrom(u) = j \/ Weight(u) = 0
    => Worth(u, i, j) = ONE * (Stored(u) + Vested(u)) + Accrued(bond_amounts[u], i, i)
                          + Accrued(Weight(u), j, j)

LEMMA AccruedZero == ASSUME NEW i \in Nat, NEW from \in Nat PROVE Accrued(0, i, from) = 0
<1>1. 0 * i = 0 /\ 0 * from = 0 /\ 0 \div ONE = 0 /\ ONE * 0 = 0
  BY OnePos
<1>2. QED BY <1>1 DEF Accrued, mul

LEMMA SettledWorthAlways == (Inv => SettledWorth) /\ (Inv' => SettledWorth')
<1>1. Inv => SettledWorth
  <2> SUFFICES ASSUME Inv, NEW u \in Users, NEW i \in Nat, NEW j \in Nat,
                      BaseFrom(u) = i \/ bond_amounts[u] = 0,
                      BoostFrom(u) = j \/ Weight(u) = 0
               PROVE  Worth(u, i, j) = ONE * (Stored(u) + Vested(u))
                        + Accrued(bond_amounts[u], i, i) + Accrued(Weight(u), j, j)
    BY DEF SettledWorth
  <2>1. BaseFrom(u) \in Nat /\ BoostFrom(u) \in Nat
    BY RecordFacts DEF RecordOK
  <2>2. Accrued(bond_amounts[u], i, BaseFrom(u)) = Accrued(bond_amounts[u], i, i)
    BY <2>1, AccruedZero
  <2>3. Accrued(Weight(u), j, BoostFrom(u)) = Accrued(Weight(u), j, j)
    BY <2>1, AccruedZero
  <2>4. QED BY <2>2, <2>3 DEF Worth
<1>2. QED BY <1>1, PTL

\* What _pull_pending_rewards pulls is worth what the record was.
LEMMA PulledWorth ==
  ASSUME Inv, IndexesUpdatable, NEW u \in Users,
         NEW i \in Nat, NEW j \in Nat, i = Base.reward_index, j = Boost.reward_index
  PROVE  Worth(u, i, j) = ONE * (Pulled(u) + Vested(u)) + Accrued(bond_amounts[u], i, i)
                            + Accrued(Weight(u), j, j)
<1>1. RecordOK(u)
  BY RecordFacts
<1>2. PICK b \in Nat, w \in Nat, x \in Nat, y \in Nat, s \in Nat, v \in Nat, o \in Nat :
        /\ b = bond_amounts[u] /\ w = Weight(u) /\ x = BaseFrom(u) /\ y = BoostFrom(u)
        /\ s = Stored(u) /\ v = Vested(u) /\ o = ONE
  BY <1>1, OnePos DEF RecordOK
<1>3. x <= i /\ y <= j
  <2>1. i >= base_status.reward_index /\ j >= boost_status.reward_index
    BY IndexesOKAlways DEF IndexesOK
  <2>2. QED BY <1>1, <1>2, <2>1 DEF RecordOK
<1>4. PICK k1 \in Nat, k2 \in Nat, k3 \in Nat, k4 \in Nat :
        k1 = mul(b, i) /\ k2 = mul(b, x) /\ k3 = mul(w, j) /\ k4 = mul(w, y)
  BY MulNat
<1>5. PICK e \in Nat, f \in Nat : e = Accrued(b, i, i) /\ f = Accrued(w, j, j)
  BY <1>3, AccruedFacts
<1>6. Accrued(b, i, x) = o * (k1 - k2) + e /\ Accrued(w, j, y) = o * (k3 - k4) + f
  <2>1. Accrued(b, i, x) = ONE * (mul(b, i) - mul(b, x)) + Accrued(b, i, i)
    BY ONLY <1>3, b \in Nat, i \in Nat, x \in Nat, AccruedFacts
  <2>2. Accrued(w, j, y) = ONE * (mul(w, j) - mul(w, y)) + Accrued(w, j, j)
    BY ONLY <1>3, w \in Nat, j \in Nat, y \in Nat, AccruedFacts
  <2>3. QED BY <1>2, <1>4, <1>5, <2>1, <2>2
<1>7. Pulled(u) = s + (k1 - k2) + (k3 - k4)
  <2>1. CASE u \in DOMAIN reward_info
    <3>1. s = reward_info[u].pending_reward /\ x = reward_info[u].base_index
          /\ y = reward_info[u].boost_index /\ w = reward_info[u].boost_weight
      BY <1>2, <2>1 DEF Stored, BaseFrom, BoostFrom, Weight
    <3>2. Pulled(u) = reward_info[u].pending_reward
                + (mul(bond_amounts[u], Base.reward_index)
                     - mul(bond_amounts[u], reward_info[u].base_index))
                + (mul(reward_info[u].boost_weight, Boost.reward_index)
                     - mul(reward_info[u].boost_weight, reward_info[u].boost_index))
      BY <2>1, PullsAreAlways DEF PullsAre
    <3>3. QED BY <1>2, <1>4, <3>1, <3>2
  <2>2. CASE u \notin DOMAIN reward_info
    <3>1. Pulled(u) = 0 /\ s = 0 /\ b = 0 /\ w = 0
      BY <1>2, <2>2, PullsAreAlways DEF PullsAre, Stored, Inv, PoolInv, PoolWeights
    <3>2. \A n \in Nat : mul(0, n) = 0
      <4>1. \A n \in Nat : 0 * n = 0
        OBVIOUS
      <4>2. 0 \div ONE = 0
        BY OnePos
      <4>3. QED BY <4>1, <4>2 DEF mul
    <3>3. k1 = 0 /\ k2 = 0 /\ k3 = 0 /\ k4 = 0
      BY <1>4, <3>1, <3>2
    <3>4. QED BY <3>1, <3>3
  <2>3. QED BY <2>1, <2>2
<1>8. Worth(u, i, j) = o * (s + v) + (o * (k1 - k2) + e) + (o * (k3 - k4) + f)
  BY <1>2, <1>6 DEF Worth
<1>9. o * (s + (k1 - k2) + (k3 - k4) + v) = o * (s + v) + o * (k1 - k2) + o * (k3 - k4)
  OBVIOUS
<1>10. Worth(u, i, j) = o * (s + (k1 - k2) + (k3 - k4) + v) + e + f
  BY <1>8, <1>9
<1>11. QED BY <1>2, <1>5, <1>7, <1>10

\* What a step may do to the books: it pays no more than what users lose, up to one unit
\* in each pool for a change of a weight, and brings the statuses to the given ones.
WorthMoves(i, j) ==
  WorthSum(i, j)' + ONE * (prism_held - prism_held')
    <= WorthSum(i, j) + ONE * (2 * (refreshes' - refreshes))

BookedTo(base, boost) ==
  /\ base_status'.reward_index = base.reward_index
  /\ boost_status'.reward_index = boost.reward_index
  /\ base_status'.pending_reward = base.pending_reward
  /\ boost_status'.pending_reward = boost.pending_reward
  /\ base_status'.total_distributed + boost_status'.total_distributed - pool_config'.amount
       = base.total_distributed + boost.total_distributed - pool_config.amount

LEMMA BooksMove ==
  ASSUME Inv, Inv', NEW base \in DistributionStatus, NEW boost \in DistributionStatus,
         base.reward_index >= base_status.reward_index,
         boost.reward_index >= boost_status.reward_index,
         BooksAt(base, boost), BookedTo(base, boost),
         WorthMoves(base.reward_index, boost.reward_index)
  PROVE  Books'
<1>1. PICK i \in Nat, j \in Nat, t \in Nat, u \in Nat, p \in Nat, k \in Nat :
        /\ i = base.reward_index /\ j = boost.reward_index
        /\ t = base.total_distributed /\ u = boost.total_distributed
        /\ p = base.pending_reward /\ k = boost.pending_reward
  BY DEF DistributionStatus
<1>2. PICK o \in Nat, F \in Nat, A \in Nat :
        o = ONE /\ F = Funding /\ A = InitPoolConfig.amount
  BY OnePos, LaunchAssumption DEF PoolConfig
<1>3. PICK h \in Nat, a \in Nat, n \in Nat :
        h = prism_held /\ a = pool_config.amount /\ n = refreshes
  BY DEF Inv, PoolInv, ConfigType, PoolConfig, OtherType
<1>4. PICK hh \in Nat, aa \in Nat, nn \in Nat, tt \in Nat, uu \in Nat :
        /\ hh = prism_held' /\ aa = pool_config'.amount /\ nn = refreshes'
        /\ tt = base_status'.total_distributed /\ uu = boost_status'.total_distributed
  BY DEF Inv, PoolInv, ConfigType, PoolConfig, OtherType, StatusType, DistributionStatus
<1>5. base_status'.reward_index = i /\ boost_status'.reward_index = j
      /\ base_status'.pending_reward = p /\ boost_status'.pending_reward = k
      /\ tt + uu - aa = t + u - a
  BY <1>1, <1>3, <1>4 DEF BookedTo
<1>6. PICK W \in Nat, V \in Nat : W = WorthSum(i, j) /\ V = WorthSum(i, j)'
  <2>1. WorthSum(i, j) \in Nat
    BY <1>1, WorthsNatAlways DEF WorthsNat
  <2>2. i >= base_status'.reward_index /\ j >= boost_status'.reward_index
    BY <1>5
  <2>3. WorthSum(i, j)' \in Nat
    BY <2>2, WorthsNatAlways DEF WorthsNat
  <2>4. QED BY <2>1, <2>3
<1>7. V + o * (h - hh) <= W + o * (2 * (nn - n))
  BY <1>1, <1>2, <1>3, <1>4, <1>6 DEF WorthMoves
<1>8. o * (F - h) + W + o * (p + k) <= o * (A - a + t + u) + o * (2 * n)
  BY <1>1, <1>2, <1>3, <1>6 DEF BooksAt
<1>9. o * (F - hh) + V + o * (p + k) <= o * (A - aa + tt + uu) + o * (2 * nn)
  <2>1. A - aa + tt + uu = A - a + t + u
    BY <1>5
  <2>2. o * (F - hh) = o * (F - h) + o * (h - hh)
    OBVIOUS
  <2>3. o * (2 * nn) = o * (2 * n) + o * (2 * (nn - n))
    OBVIOUS
  <2>4. PICK c \in Int : c = A - a + t + u
    OBVIOUS
  <2>5. PICK e1 \in Int, e2 \in Int, e3 \in Int, e4 \in Int, e5 \in Int, e6 \in Int :
          /\ e1 = o * (F - h) /\ e2 = o * (h - hh) /\ e3 = o * (2 * n)
          /\ e4 = o * (2 * (nn - n)) /\ e5 = o * (p + k) /\ e6 = o * c
    OBVIOUS
  <2>6. V + e2 <= W + e4 /\ e1 + W + e5 <= e6 + e3
    BY <1>7, <1>8, <2>4, <2>5
  <2>7. e1 + e2 + V + e5 <= e6 + e3 + e4
    BY <2>6
  <2>8. QED BY <2>1, <2>2, <2>3, <2>4, <2>5, <2>7
<1>10. Books' <=> o * (F - hh) + V + o * (p + k) <= o * (A - aa + tt + uu) + o * (2 * nn)
  BY <1>2, <1>4, <1>5, <1>6 DEF Books, BooksAt
<1>11. QED BY <1>9, <1>10

\* Where neither records nor vests change.
LEMMA WorthsKept ==
  ASSUME Inv, UNCHANGED <<bond_amounts, reward_info, scheduled_vest, pending_withdraw, prism_held,
                     refreshes>>,
         NEW i \in Nat, NEW j \in Nat, i >= base_status.reward_index,
         j >= boost_status.reward_index
  PROVE  WorthMoves(i, j)
<1>1. WorthSum(i, j)' = WorthSum(i, j)
  BY DEF WorthSum, Worths, Worth, Stored, BaseFrom, BoostFrom, Vested, Weight, Total
<1>2. WorthSum(i, j) \in Nat
  BY WorthsNatAlways DEF WorthsNat
<1>3. prism_held \in Nat /\ refreshes \in Nat /\ prism_held' = prism_held /\ refreshes' = refreshes
  BY DEF Inv, PoolInv, OtherType
<1>4. ONE * (prism_held - prism_held') = 0 /\ ONE * (2 * (refreshes' - refreshes)) = 0
  BY <1>3, OnePos
<1>5. QED BY <1>1, <1>2, <1>4 DEF WorthMoves

\* Where one user's worth changes.
LEMMA WorthMovesOne ==
  ASSUME Inv, Inv', NEW u \in Users, NEW i \in Nat, NEW j \in Nat,
         i >= base_status.reward_index, j >= boost_status.reward_index,
         i >= base_status'.reward_index, j >= boost_status'.reward_index,
         \A v \in Users \ {u} : Worth(v, i, j)' = Worth(v, i, j),
         Worth(u, i, j)' + ONE * (prism_held - prism_held')
           <= Worth(u, i, j) + ONE * (2 * (refreshes' - refreshes))
  PROVE  WorthMoves(i, j)
<1>1. \A v \in Users : Worth(v, i, j) \in Nat /\ Worth(v, i, j)' \in Nat
  BY WorthsNatAlways DEF WorthsNat
<1>2. PICK f, g : f = Worths(i, j) /\ g = Worths(i, j)'
  OBVIOUS
<1>3. \A v \in Users : f[v] = Worth(v, i, j) /\ g[v] = Worth(v, i, j)'
  BY <1>2 DEF Worths
<1>4. (\A v \in Users : f[v] \in Nat /\ g[v] \in Nat) /\ \A v \in Users \ {u} : g[v] = f[v]
  BY <1>1, <1>3
<1>5. IsFiniteSet(Users)
  BY UsersFinite
<1>6. SumFunctionOnSet(g, Users) = SumFunctionOnSet(f, Users) - f[u] + g[u]
  BY ONLY <1>4, <1>5, u \in Users, SumUpdate
<1>7. PICK G \in Nat, F \in Nat, x \in Nat, y \in Nat :
        /\ G = SumFunctionOnSet(g, Users) /\ F = SumFunctionOnSet(f, Users)
        /\ x = f[u] /\ y = g[u]
  BY <1>4, <1>5, SumNat
<1>8. PICK d \in Int, e \in Int :
        d = ONE * (prism_held - prism_held') /\ e = ONE * (2 * (refreshes' - refreshes))
  <2>1. prism_held \in Nat /\ prism_held' \in Nat /\ refreshes \in Nat /\ refreshes' \in Nat
    BY DEF Inv, PoolInv, OtherType
  <2>2. ONE * (prism_held - prism_held') \in Int /\ ONE * (2 * (refreshes' - refreshes)) \in Int
    BY <2>1, OnePos
  <2>3. QED BY <2>2, Zenon
<1>9. y + d <= x + e /\ G = F - x + y
  BY <1>3, <1>6, <1>7, <1>8
<1>10. G + d <= F + e
  BY <1>9
<1>11. WorthSum(i, j) = F /\ WorthSum(i, j)' = G
  BY <1>2, <1>7 DEF WorthSum
<1>12. QED BY <1>8, <1>10, <1>11 DEF WorthMoves

\* A user whose record, bond and vests a step leaves alone.
LEMMA WorthUntouched ==
  ASSUME NEW v \in Users, Untouched(v), Vested(v)' = Vested(v), NEW i, NEW j
  PROVE  Worth(v, i, j)' = Worth(v, i, j)
<1>1. /\ Stored(v)' = Stored(v) /\ BaseFrom(v)' = BaseFrom(v) /\ BoostFrom(v)' = BoostFrom(v)
      /\ Weight(v)' = Weight(v) /\ bond_amounts'[v] = bond_amounts[v]
  BY DEF Untouched, Stored, BaseFrom, BoostFrom, Weight
<1>2. Worth(v, i, j)' = ONE * (Stored(v)' + Vested(v)')
                          + Accrued(bond_amounts'[v], i, BaseFrom(v)')
                          + Accrued(Weight(v)', j, BoostFrom(v)')
  BY DEF Worth, Accrued, mul, ONE
<1>3. QED BY <1>1, <1>2 DEF Worth

\* What an update hands on: the indexes, which are not below the stored ones.
LEMMA IndexesNamed ==
  ASSUME Inv, IndexesUpdatable
  PROVE  /\ Base \in DistributionStatus /\ Boost \in DistributionStatus
         /\ Base.reward_index \in Nat /\ Boost.reward_index \in Nat
         /\ Base.reward_index >= base_status.reward_index
         /\ Boost.reward_index >= boost_status.reward_index
<1>1. ConfigType /\ StatusType /\ now \in Nat
  BY DEF Inv, PoolInv, BoostInv, BoostType
<1>2. QED BY <1>1, UpdatedIndexes DEF DistributionStatus

\* A step that brings the indexes up to date, and may start the schedule anew.
LEMMA UpdatedBooks ==
  ASSUME Inv, Inv', Books, IndexesUpdatable, BookedTo(Base, Boost),
         \A i \in Nat, j \in Nat :
           i = Base.reward_index /\ j = Boost.reward_index => WorthMoves(i, j)
  PROVE  Books'
<1>1. PICK b \in DistributionStatus, c \in DistributionStatus : b = Base /\ c = Boost
  BY IndexesNamed
<1>2. b.reward_index >= base_status.reward_index /\ c.reward_index >= boost_status.reward_index
      /\ b.reward_index \in Nat /\ c.reward_index \in Nat
  BY <1>1, IndexesNamed
<1>3. BooksAt(b, c)
  BY <1>1, UpdateBooks
<1>4. BookedTo(b, c)
  BY <1>1 DEF BookedTo
<1>5. WorthMoves(b.reward_index, c.reward_index)
  BY <1>1, <1>2
<1>6. QED BY <1>2, <1>3, <1>4, <1>5, BooksMove

LEMMA RefreshBooks ==
  ASSUME Inv, Inv', Books, NEW u \in Users, NEW b \in Nat, NEW boost \in Nat, Refresh(u, b, boost)
  PROVE  Books'
<1>1. IndexesUpdatable /\ UNCHANGED <<pool_config, scheduled_vest, pending_withdraw, prism_held>>
      /\ refreshes' = refreshes + 1
  BY DEF Refresh
<1>2. ConfigType /\ StatusType /\ RecordType /\ OtherType /\ now \in Nat
  BY DEF Inv, PoolInv, BoostInv, BoostType
<1>3. PICK i \in Nat, j \in Nat : i = Base.reward_index /\ j = Boost.reward_index
  BY <1>1, IndexesNamed
<1>4. BookedTo(Base, Boost)
  <2>1. PICK x, y : base_status' = [Base EXCEPT !.total_weight = x]
                    /\ boost_status' = [Boost EXCEPT !.total_weight = y]
    BY DEF Refresh, SaveBoostWeight
  <2>2. PICK e \in DistributionStatus, f \in DistributionStatus : e = Base /\ f = Boost
    BY <1>1, IndexesNamed
  <2>3. /\ base_status'.total_distributed = e.total_distributed
        /\ boost_status'.total_distributed = f.total_distributed
        /\ base_status'.reward_index = e.reward_index
        /\ boost_status'.reward_index = f.reward_index
        /\ base_status'.pending_reward = e.pending_reward
        /\ boost_status'.pending_reward = f.pending_reward
    BY <2>1, <2>2 DEF DistributionStatus
  <2>4. QED BY <1>1, <2>2, <2>3 DEF BookedTo
<1>5. /\ i >= base_status.reward_index /\ j >= boost_status.reward_index
      /\ i >= base_status'.reward_index /\ j >= boost_status'.reward_index
  BY <1>1, <1>3, <1>4, IndexesNamed DEF BookedTo
<1>6. ASSUME NEW v \in Users \ {u} PROVE Worth(v, i, j)' = Worth(v, i, j)
  <2>1. /\ bond_amounts' = [bond_amounts EXCEPT ![u] = b]
        /\ v \in DOMAIN reward_info' <=> v \in DOMAIN reward_info
        /\ v \in DOMAIN reward_info => reward_info'[v] = reward_info[v]
    BY <1>2, RefreshRecords
  <2>2. Untouched(v)
    BY <1>2, <2>1 DEF Untouched, RecordType
  <2>3. Vested(v)' = Vested(v)
    BY <1>1 DEF Vested
  <2>4. QED BY <2>2, <2>3, WorthUntouched
<1>7. PICK n \in Nat, w \in Nat, bb \in Nat, ww \in Nat, p \in Nat, v \in Nat, o \in Nat :
        /\ n = bond_amounts[u] /\ w = Weight(u) /\ bb = bond_amounts'[u] /\ ww = Weight(u)'
        /\ p = Pulled(u) /\ v = Vested(u) /\ o = ONE
  <2>1. bond_amounts[u] \in Nat /\ Weight(u) \in Nat /\ Vested(u) \in Nat
    BY RecordFacts DEF RecordOK
  <2>2. bond_amounts'[u] \in Nat /\ Weight(u)' \in Nat
    BY RecordFactsNext DEF RecordOK
  <2>3. Pulled(u) \in Nat
    BY <1>1, PullsAreAlways DEF PullsAre
  <2>4. QED BY <2>1, <2>2, <2>3, OnePos
<1>8. /\ Stored(u)' = p /\ Vested(u)' = v
      /\ BaseFrom(u)' = i \/ bb = 0
      /\ BoostFrom(u)' = j \/ ww = 0
  <2>1. Vested(u)' = v
    BY <1>1, <1>7 DEF Vested
  <2>2. pull_pending_rewards(u) \in RewardInfo /\ pull_pending_rewards(u).base_index = i
        /\ pull_pending_rewards(u).boost_index = j
    BY <1>1, <1>2, <1>3, PulledInfo
  <2>3. CASE u \in DOMAIN reward_info'
    <3>1. PICK k : reward_info'[u] = [pull_pending_rewards(u) EXCEPT !.boost_weight = k]
      BY <1>2, <2>3, RefreshRecords
    <3>2. reward_info'[u].pending_reward = p /\ reward_info'[u].base_index = i
          /\ reward_info'[u].boost_index = j
      BY <1>7, <2>2, <3>1 DEF RewardInfo, Pulled
    <3>3. QED BY <2>1, <2>3, <3>2 DEF Stored, BaseFrom, BoostFrom
  <2>4. CASE u \notin DOMAIN reward_info'
    <3>1. Pulled(u) = 0 /\ b = 0 /\ bond_amounts' = [bond_amounts EXCEPT ![u] = b]
      BY <1>2, <2>4, RefreshRecords DEF Pulled
    <3>2. p = 0 /\ bb = 0 /\ ww = 0 /\ Stored(u)' = 0
      BY <1>2, <1>7, <2>4, <3>1 DEF Weight, Stored, RecordType
    <3>3. QED BY <2>1, <3>2
  <2>5. QED BY <2>3, <2>4
<1>9. PICK e1 \in Nat, e2 \in Nat, f1 \in Nat, f2 \in Nat :
        /\ e1 = Accrued(n, i, i) /\ e2 = Accrued(w, j, j)
        /\ f1 = Accrued(bb, i, i) /\ f2 = Accrued(ww, j, j)
        /\ f1 <= o /\ f2 <= o
  <2>1. i <= i /\ j <= j
    OBVIOUS
  <2>2. Accrued(n, i, i) \in Nat /\ Accrued(w, j, j) \in Nat
    BY <2>1, AccruedFacts
  <2>3. Accrued(bb, i, i) \in Nat /\ Accrued(ww, j, j) \in Nat
        /\ Accrued(bb, i, i) <= ONE /\ Accrued(ww, j, j) <= ONE
    BY <2>1, AccruedFacts
  <2>4. QED BY <1>7, <2>2, <2>3
<1>10. Worth(u, i, j) = o * (p + v) + e1 + e2
  BY <1>1, <1>3, <1>7, <1>9, PulledWorth
<1>11. Worth(u, i, j)' = o * (p + v) + f1 + f2
  <2>1. Worth(u, i, j)' = (ONE * (Stored(u) + Vested(u)) + Accrued(bond_amounts[u], i, i)
                             + Accrued(Weight(u), j, j))'
    BY <1>7, <1>8, SettledWorthAlways DEF SettledWorth
  <2>2. (ONE * (Stored(u) + Vested(u)) + Accrued(bond_amounts[u], i, i)
           + Accrued(Weight(u), j, j))'
          = ONE * (Stored(u)' + Vested(u)') + Accrued(bond_amounts'[u], i, i)
              + Accrued(Weight(u)', j, j)
    BY DEF Accrued, mul, ONE
  <2>3. QED BY <1>7, <1>8, <1>9, <2>1, <2>2
<1>12. ONE * (prism_held - prism_held') = 0 /\ ONE * (2 * (refreshes' - refreshes)) = o + o
  <2>1. prism_held \in Nat /\ refreshes \in Nat
    BY <1>2 DEF OtherType
  <2>2. prism_held - prism_held' = 0 /\ 2 * (refreshes' - refreshes) = 2
    BY <1>1, <2>1
  <2>3. ONE * 0 = 0 /\ ONE * 2 = o + o
    BY <1>7
  <2>4. QED BY <2>2, <2>3
<1>13. PICK m \in Nat : m = o * (p + v)
  OBVIOUS
<1>14. Worth(u, i, j)' + ONE * (prism_held - prism_held')
         <= Worth(u, i, j) + ONE * (2 * (refreshes' - refreshes))
  BY <1>9, <1>10, <1>11, <1>12, <1>13
<1>15. WorthMoves(i, j)
  BY <1>5, <1>6, <1>14, WorthMovesOne
<1>16. QED BY <1>1, <1>3, <1>4, <1>15, UpdatedBooks

\* What is pulled becomes a vest, in full.
LEMMA WithdrawBooks ==
  ASSUME Inv, Inv', Books, NEW S \in SUBSET Users, Withdraw(S)
  PROVE  Books'
<1>1. IndexesUpdatable /\ base_status' = Base /\ boost_status' = Boost
      /\ UNCHANGED <<pool_config, bond_amounts, prism_held, refreshes>>
  BY DEF Withdraw, histVars
<1>2. ConfigType /\ StatusType /\ RecordType /\ VestType /\ OtherType /\ PoolWeights /\ now \in Nat
  BY DEF Inv, PoolInv, BoostInv, BoostType
<1>3. PICK i \in Nat, j \in Nat : i = Base.reward_index /\ j = Boost.reward_index
  BY <1>1, IndexesNamed
<1>4. BookedTo(Base, Boost)
  BY <1>1 DEF BookedTo
<1>5. i >= base_status.reward_index /\ j >= boost_status.reward_index
  BY <1>1, <1>3, IndexesNamed
<1>6. ASSUME NEW u \in S PROVE Worth(u, i, j)' = Worth(u, i, j)
  <2>0. u \in Users
    OBVIOUS
  <2>1. PICK n \in Nat, w \in Nat, p \in Nat, v \in Nat, o \in Nat :
          /\ n = bond_amounts[u] /\ w = Weight(u) /\ p = Pulled(u) /\ v = Vested(u) /\ o = ONE
    <3>1. bond_amounts[u] \in Nat /\ Weight(u) \in Nat /\ Vested(u) \in Nat
      BY <2>0, RecordFacts DEF RecordOK
    <3>2. Pulled(u) \in Nat
      BY <1>1, <2>0, PullsAreAlways DEF PullsAre
    <3>3. QED BY <3>1, <3>2, OnePos
  <2>2. Vested(u)' = p + v
    <3>1. /\ pending_withdraw'[u] = can_withdraw(u)
          /\ Total(scheduled_vest'[u]) = Total(RunningVests(u)) + Pulled(u)
      BY <1>2, <2>0, WithdrawnUser DEF Pulled
    <3>2. PICK x \in Nat, y \in Nat, t \in Nat, k \in Nat :
            /\ x = Total(RunningVests(u)) /\ y = can_withdraw(u)
            /\ t = Total(scheduled_vest[u]) /\ k = pending_withdraw[u] /\ x + y = t + k
      BY <1>2, <2>0, VestsEnd DEF VestType
    <3>3. Vested(u) = t + k /\ Vested(u)' = x + p + y
      BY <2>1, <3>1, <3>2 DEF Vested, Total
    <3>4. QED BY <2>1, <3>2, <3>3
  <2>3. /\ Stored(u)' = 0 /\ Weight(u)' = w /\ bond_amounts'[u] = n
        /\ BaseFrom(u)' = i \/ n = 0
        /\ BoostFrom(u)' = j \/ w = 0
    <3>1. pull_pending_rewards(u) \in RewardInfo /\ pull_pending_rewards(u).base_index = i
          /\ pull_pending_rewards(u).boost_index = j
          /\ pull_pending_rewards(u).boost_weight = w
      BY <1>1, <1>2, <1>3, <2>0, <2>1, PulledInfo
    <3>2. CASE u \in DOMAIN reward_info'
      <4>1. reward_info'[u] = [pull_pending_rewards(u) EXCEPT !.pending_reward = 0]
        BY <1>2, <2>0, <3>2, WithdrawnUser
      <4>2. reward_info'[u].pending_reward = 0 /\ reward_info'[u].base_index = i
            /\ reward_info'[u].boost_index = j /\ reward_info'[u].boost_weight = w
        BY <3>1, <4>1 DEF RewardInfo
      <4>3. QED BY <1>1, <2>1, <3>2, <4>2 DEF Stored, BaseFrom, BoostFrom, Weight
    <3>3. CASE u \notin DOMAIN reward_info'
      <4>1. ~(bond_amounts[u] > 0)
        BY <1>2, <2>0, <3>3, WithdrawnUser
      <4>2. n = 0 /\ w = 0
        BY <1>2, <2>0, <2>1, <4>1 DEF PoolWeights
      <4>3. QED BY <1>1, <2>1, <3>3, <4>2 DEF Stored, Weight
    <3>4. QED BY <3>2, <3>3
  <2>4. PICK e \in Nat, f \in Nat : e = Accrued(n, i, i) /\ f = Accrued(w, j, j)
    <3>1. i <= i /\ j <= j
      OBVIOUS
    <3>2. QED BY <3>1, AccruedFacts
  <2>5. Worth(u, i, j) = o * (p + v) + e + f
    BY <1>1, <1>3, <2>0, <2>1, <2>4, PulledWorth
  <2>6. Worth(u, i, j)' = o * (0 + (p + v)) + e + f
    <3>1. Worth(u, i, j)' = (ONE * (Stored(u) + Vested(u)) + Accrued(bond_amounts[u], i, i)
                               + Accrued(Weight(u), j, j))'
      BY <2>0, <2>1, <2>3, SettledWorthAlways DEF SettledWorth
    <3>2. (ONE * (Stored(u) + Vested(u)) + Accrued(bond_amounts[u], i, i)
             + Accrued(Weight(u), j, j))'
            = ONE * (Stored(u)' + Vested(u)') + Accrued(bond_amounts'[u], i, i)
                + Accrued(Weight(u)', j, j)
      BY DEF Accrued, mul, ONE
    <3>3. QED BY <2>1, <2>2, <2>3, <2>4, <3>1, <3>2
  <2>7. 0 + (p + v) = p + v
    OBVIOUS
  <2>8. QED BY <2>5, <2>6, <2>7
<1>7. ASSUME NEW v \in Users \ S PROVE Worth(v, i, j)' = Worth(v, i, j)
  <2>1. /\ v \in DOMAIN reward_info' <=> v \in DOMAIN reward_info
        /\ v \in DOMAIN reward_info' => reward_info'[v] = reward_info[v]
        /\ pending_withdraw'[v] = pending_withdraw[v]
        /\ scheduled_vest'[v] = scheduled_vest[v]
    BY <1>2, WithdrawnUser
  <2>2. Untouched(v)
    BY <1>1, <2>1 DEF Untouched
  <2>3. Vested(v)' = Vested(v)
    BY <2>1 DEF Vested, Total
  <2>4. QED BY <2>2, <2>3, WorthUntouched
<1>8. WorthMoves(i, j)
  <2>1. Worths(i, j)' = Worths(i, j)
    BY <1>6, <1>7 DEF Worths
  <2>2. WorthSum(i, j)' = WorthSum(i, j)
    BY <2>1 DEF WorthSum
  <2>3. WorthSum(i, j) \in Nat
    BY <1>5, WorthsNatAlways DEF WorthsNat
  <2>4. prism_held \in Nat /\ refreshes \in Nat
    BY <1>2 DEF OtherType
  <2>5. ONE * (prism_held - prism_held') = 0 /\ ONE * (2 * (refreshes' - refreshes)) = 0
    BY <1>1, <2>4, OnePos
  <2>6. QED BY <2>2, <2>3, <2>5 DEF WorthMoves
<1>9. QED BY <1>1, <1>3, <1>4, <1>8, UpdatedBooks

\* Steps that leave the indexes and the schedule's amount.
LEMMA KeptBooks ==
  ASSUME Inv, Inv', Books, UNCHANGED <<base_status, boost_status>>,
         pool_config'.amount = pool_config.amount,
         \A i \in Nat, j \in Nat :
           i = base_status.reward_index /\ j = boost_status.reward_index => WorthMoves(i, j)
  PROVE  Books'
<1>1. PICK b \in DistributionStatus, c \in DistributionStatus : b = base_status /\ c = boost_status
  BY DEF Inv, PoolInv, StatusType
<1>2. b.reward_index >= base_status.reward_index /\ c.reward_index >= boost_status.reward_index
      /\ b.reward_index \in Nat /\ c.reward_index \in Nat
  BY <1>1 DEF DistributionStatus
<1>3. BooksAt(b, c) /\ BookedTo(b, c)
  BY <1>1 DEF Books, BookedTo
<1>4. WorthMoves(b.reward_index, c.reward_index)
  BY <1>1, <1>2
<1>5. QED BY <1>2, <1>3, <1>4, BooksMove

LEMMA StillBooks ==
  ASSUME Inv, Inv', Books,
         UNCHANGED <<base_status, boost_status, bond_amounts, reward_info, scheduled_vest,
                     pending_withdraw, prism_held, refreshes>>,
         pool_config'.amount = pool_config.amount
  PROVE  Books'
<1>1. ASSUME NEW i \in Nat, NEW j \in Nat, i = base_status.reward_index,
             j = boost_status.reward_index
      PROVE  WorthMoves(i, j)
  <2>1. i >= base_status.reward_index /\ j >= boost_status.reward_index
    BY <1>1
  <2>2. QED BY <2>1, WorthsKept
<1>2. QED BY <1>1, KeptBooks

\* A claim pays what has vested.
LEMMA ClaimBooks ==
  ASSUME Inv, Inv', Books, NEW u \in Users, Claim(u)
  PROVE  Books'
<1>1. /\ can_withdraw(u) <= prism_held
      /\ prism_held' = prism_held - can_withdraw(u)
      /\ pending_withdraw' = [pending_withdraw EXCEPT ![u] = 0]
      /\ scheduled_vest' = [scheduled_vest EXCEPT ![u] = RunningVests(u)]
      /\ UNCHANGED <<pool_config, base_status, boost_status, bond_amounts, reward_info, refreshes>>
  BY DEF Claim, distVars, histVars
<1>2. prism_held \in Nat /\ VestType /\ refreshes \in Nat
  BY DEF Inv, PoolInv, OtherType
<1>3. PICK x \in Nat, y \in Nat, t \in Nat, k \in Nat, o \in Nat :
        /\ x = Total(RunningVests(u)) /\ y = can_withdraw(u) /\ o = ONE
        /\ t = Total(scheduled_vest[u]) /\ k = pending_withdraw[u] /\ x + y = t + k
  BY <1>2, VestsEnd, OnePos DEF VestType
<1>4. prism_held - prism_held' = y /\ 2 * (refreshes' - refreshes) = 0
  BY <1>1, <1>2, <1>3
<1>5. DOMAIN scheduled_vest = Users /\ pending_withdraw \in [Users -> Nat]
  BY <1>2 DEF VestType
<1>6. \A v \in Users : Untouched(v)
  BY <1>1 DEF Untouched
<1>7. ASSUME NEW i \in Nat, NEW j \in Nat, i = base_status.reward_index,
             j = boost_status.reward_index
      PROVE  WorthMoves(i, j)
  <2>1. /\ i >= base_status.reward_index /\ j >= boost_status.reward_index
        /\ i >= base_status'.reward_index /\ j >= boost_status'.reward_index
    BY <1>1, <1>7
  <2>2. ASSUME NEW v \in Users \ {u} PROVE Worth(v, i, j)' = Worth(v, i, j)
    <3>1. scheduled_vest'[v] = scheduled_vest[v] /\ pending_withdraw'[v] = pending_withdraw[v]
      BY <1>1, <1>5
    <3>2. Vested(v)' = Vested(v)
      BY <3>1 DEF Vested, Total
    <3>3. QED BY <1>6, <3>2, WorthUntouched
  <2>3. Vested(u)' = x /\ Vested(u) = t + k
    <3>1. scheduled_vest'[u] = RunningVests(u) /\ pending_withdraw'[u] = 0
      BY <1>1, <1>5
    <3>2. QED BY <1>3, <3>1 DEF Vested, Total
  <2>4. PICK s \in Nat, e \in Nat, f \in Nat :
          /\ s = Stored(u) /\ e = Accrued(bond_amounts[u], i, BaseFrom(u))
          /\ f = Accrued(Weight(u), j, BoostFrom(u))
    <3>1. RecordOK(u)
      BY RecordFacts
    <3>2. BaseFrom(u) <= i /\ BoostFrom(u) <= j
      BY <1>7, <3>1 DEF RecordOK
    <3>3. Accrued(bond_amounts[u], i, BaseFrom(u)) \in Nat
          /\ Accrued(Weight(u), j, BoostFrom(u)) \in Nat
      BY <3>1, <3>2, AccruedFacts DEF RecordOK
    <3>4. QED BY <3>1, <3>3 DEF RecordOK
  <2>5. Worth(u, i, j) = o * (s + (t + k)) + e + f
    BY <1>3, <2>3, <2>4 DEF Worth
  <2>7. Worth(u, i, j)' = o * (s + x) + e + f
    <3>1. /\ Stored(u)' = s /\ BaseFrom(u)' = BaseFrom(u) /\ BoostFrom(u)' = BoostFrom(u)
          /\ Weight(u)' = Weight(u) /\ bond_amounts'[u] = bond_amounts[u]
      BY <1>1, <2>4 DEF Stored, BaseFrom, BoostFrom, Weight
    <3>2. Worth(u, i, j)' = ONE * (Stored(u)' + Vested(u)')
                              + Accrued(bond_amounts'[u], i, BaseFrom(u)')
                              + Accrued(Weight(u)', j, BoostFrom(u)')
      BY DEF Worth, Accrued, mul, ONE
    <3>3. QED BY <1>3, <2>3, <2>4, <3>1, <3>2
  <2>8. o * (s + x) + o * y = o * (s + (t + k))
    <3>1. o * (s + x) + o * y = o * (s + (x + y))
      OBVIOUS
    <3>2. QED BY <1>3, <3>1
  <2>9. PICK m \in Nat, l \in Nat, z \in Nat :
          m = o * (s + x) /\ l = o * y /\ z = o * (s + (t + k))
    OBVIOUS
  <2>10. ONE * (prism_held - prism_held') = l /\ ONE * (2 * (refreshes' - refreshes)) = 0
    <3>1. o * 0 = 0
      OBVIOUS
    <3>2. QED BY <1>3, <1>4, <2>9, <3>1
  <2>11. m + e + f + l <= z + e + f + 0
    BY <2>8, <2>9
  <2>12. Worth(u, i, j)' + ONE * (prism_held - prism_held')
           <= Worth(u, i, j) + ONE * (2 * (refreshes' - refreshes))
    BY <2>5, <2>7, <2>9, <2>10, <2>11
  <2>13. QED BY <2>1, <2>2, <2>12, WorthMovesOne
<1>8. QED BY <1>1, <1>7, KeptBooks

\* A change of the ratio starts the schedule anew with what is left of it.
LEMMA RatioBooks ==
  ASSUME Inv, Inv', Books, NEW sender, NEW ratio, update_base_pool_ratio(sender, ratio)
  PROVE  Books'
<1> DEFINE running == pool_config.start < now /\ now < pool_config.end
<1>1. /\ IndexesUpdatable
      /\ UNCHANGED <<bond_amounts, reward_info, scheduled_vest, pending_withdraw, prism_held,
                     refreshes>>
      /\ pool_config' =
           [pool_config EXCEPT !.base_pool_ratio = ratio,
                               !.start = IF running THEN now ELSE @,
                               !.amount = IF running THEN remaining_distribution ELSE @]
      /\ base_status' = IF running THEN restarted(Base) ELSE Base
      /\ boost_status' = IF running THEN restarted(Boost) ELSE Boost
  BY DEF update_base_pool_ratio, rewardVars, histVars
<1>2. PICK b \in DistributionStatus, c \in DistributionStatus : b = Base /\ c = Boost
  BY <1>1, IndexesNamed
<1>3. pool_config \in PoolConfig
  BY DEF Inv, PoolInv, ConfigType
<1>4. pool_config'.amount = IF running THEN remaining_distribution ELSE pool_config.amount
  BY <1>1, <1>3 DEF PoolConfig
<1>5. PICK t \in Nat, u \in Nat, a \in Nat :
        t = b.total_distributed /\ u = c.total_distributed /\ a = pool_config.amount
  BY <1>3 DEF DistributionStatus, PoolConfig
<1>6. ASSUME NEW st \in DistributionStatus
      PROVE  restarted(st).total_distributed = 0 /\ restarted(st).reward_index = st.reward_index
             /\ restarted(st).pending_reward = st.pending_reward
  BY DEF restarted, DistributionStatus
<1>7. BookedTo(Base, Boost)
  <2>1. CASE running
    <3>1. base_status' = restarted(b) /\ boost_status' = restarted(c)
          /\ pool_config'.amount = a - (t + u)
      BY <1>1, <1>2, <1>4, <1>5, <2>1 DEF remaining_distribution
    <3>2. 0 + 0 - (a - (t + u)) = t + u - a
      OBVIOUS
    <3>3. QED BY <1>2, <1>5, <1>6, <3>1, <3>2 DEF BookedTo
  <2>2. CASE ~running
    BY <1>1, <1>4, <2>2 DEF BookedTo
  <2>3. QED BY <2>1, <2>2
<1>8. ASSUME NEW i \in Nat, NEW j \in Nat, i = Base.reward_index, j = Boost.reward_index
       PROVE  WorthMoves(i, j)
  <2>1. i >= base_status.reward_index /\ j >= boost_status.reward_index
    BY <1>1, <1>8, IndexesNamed
  <2>2. QED BY <1>1, <2>1, WorthsKept
<1>9. QED BY <1>1, <1>7, <1>8, UpdatedBooks

LEMMA BooksInit == Init => Books
<1> SUFFICES ASSUME Init PROVE Books
  OBVIOUS
<1>1. ASSUME NEW u \in Users PROVE Worth(u, 0, 0) = 0
  <2>1. Stored(u) = 0 /\ BaseFrom(u) = 0 /\ BoostFrom(u) = 0 /\ Weight(u) = 0
        /\ bond_amounts[u] = 0
    BY DEF Init, Stored, BaseFrom, BoostFrom, Weight
  <2>2. Vested(u) = 0
    <3>1. scheduled_vest[u] = [t \in {} |-> 0] /\ pending_withdraw[u] = 0
      BY DEF Init
    <3>2. DOMAIN scheduled_vest[u] = {}
      BY <3>1
    <3>3. Total(scheduled_vest[u]) = 0
      BY <3>2, SumPick, FS_EmptySet DEF Total
    <3>4. QED BY <3>1, <3>3 DEF Vested
  <2>3. Accrued(0, 0, 0) = 0
    BY AccruedZero
  <2>4. ONE * (0 + 0) = 0
    BY OnePos
  <2>5. QED BY <2>1, <2>2, <2>3, <2>4 DEF Worth
<1>2. WorthSum(0, 0) = 0
  <2>1. PICK f : f = Worths(0, 0)
    OBVIOUS
  <2>2. \A u \in Users : f[u] = 0
    BY <1>1, <2>1 DEF Worths
  <2>3. SumFunctionOnSet(f, Users) = 0
    BY <2>2, UsersFinite, SumZero
  <2>4. QED BY <2>1, <2>3 DEF WorthSum
<1>3. PICK o \in Nat, F \in Nat, A \in Nat :
        o = ONE /\ F = Funding /\ A = InitPoolConfig.amount
  BY OnePos, LaunchAssumption DEF PoolConfig
<1>4. /\ base_status.reward_index = 0 /\ boost_status.reward_index = 0
      /\ base_status.pending_reward = 0 /\ boost_status.pending_reward = 0
      /\ base_status.total_distributed = 0 /\ boost_status.total_distributed = 0
      /\ prism_held = F /\ pool_config.amount = A /\ refreshes = 0
  BY <1>3 DEF Init, NoStatus
<1>5. o * (F - F) + 0 + o * (0 + 0) <= o * (A - A + 0 + 0) + o * (2 * 0)
  OBVIOUS
<1>6. QED BY <1>2, <1>3, <1>4, <1>5 DEF Books, BooksAt

LEMMA BooksStep == Inv /\ Inv' /\ Books /\ [Next]_vars => Books'
<1> SUFFICES ASSUME Inv, Inv', Books, [Next]_vars PROVE Books'
  OBVIOUS
<1>1. CASE \/ \E u \in Users, amount \in BondAmounts : bond(u, amount)
           \/ \E u \in Users, amount \in UnbondAmounts : unbond(u, amount)
           \/ \E u \in Users : unbond(u, bond_amounts[u])
           \/ \E u \in Users : activate_boost(u)
  <2>1. PICK u \in Users, b \in Nat, g \in Nat : Refresh(u, b, g)
    BY <1>1, RefreshesAre
  <2>2. QED BY <2>1, RefreshBooks
<1>2. CASE \E u \in Users : withdraw_rewards(u)
  <2>1. PICK u \in Users : Withdraw({u})
    BY <1>2 DEF withdraw_rewards
  <2>2. {u} \in SUBSET Users
    OBVIOUS
  <2>3. QED BY <2>1, <2>2, WithdrawBooks
<1>3. CASE \E s \in {OWNER, OPERATOR} : withdraw_rewards_bulk(s, BulkLimit)
  <2>1. BulkLimit \in Nat
    BY LaunchAssumption
  <2>2. PICK S \in SUBSET Users : Withdraw(S)
    BY <1>3, <2>1, BulkInv DEF Inv, PoolInv
  <2>3. QED BY <2>2, WithdrawBooks
<1>4. CASE \E u \in Users : claim_as_prism(u) \/ claim_as_xprism(u) \/ claim_as_amps(u)
  <2>1. PICK u \in Users : Claim(u)
    BY <1>4 DEF claim_as_prism, claim_as_xprism, claim_as_amps
  <2>2. QED BY <2>1, ClaimBooks
<1>5. CASE \E s \in {OWNER, OPERATOR}, y \in YieldAmounts : admin_withdraw_rewards(s, y)
  <2>1. PICK s \in {OWNER, OPERATOR}, y \in YieldAmounts : admin_withdraw_rewards(s, y)
    BY <1>5
  <2>2. y \in Nat /\ prism_held \in Nat
    BY LaunchAssumption DEF Inv, PoolInv, OtherType
  <2>3. prism_held' = prism_held
    BY <2>1, <2>2 DEF admin_withdraw_rewards, withdrawn_rewards
  <2>4. QED BY <2>1, <2>3, StillBooks DEF admin_withdraw_rewards, rewardVars, distVars, histVars
<1>6. CASE \E s \in {OWNER, OPERATOR}, m \in MinBondChoices : update_min_bond_amount(s, m)
  <2>1. PICK m : pool_config' = [pool_config EXCEPT !.min_bond_amount = m]
                 /\ UNCHANGED <<distVars, bond_amounts, rewardVars, prism_held, histVars>>
    BY <1>6 DEF update_min_bond_amount
  <2>2. pool_config'.amount = pool_config.amount
    BY <2>1 DEF Inv, PoolInv, ConfigType, PoolConfig
  <2>3. QED BY <2>1, <2>2, StillBooks DEF rewardVars, distVars, histVars
<1>7. CASE \E s \in {OWNER, OPERATOR}, r \in RatioChoices : update_base_pool_ratio(s, r)
  BY <1>7, RatioBooks
<1>8. CASE \/ \E u \in Users, amount \in XprismAmounts : bond_xprism(u, amount)
           \/ \E s \in BoostOwners, update \in BoostUpdates : configure_boost(s, update)
           \/ EndBlock
  BY <1>8, StillBooks DEF bond_xprism, configure_boost, EndBlock, poolVars, rewardVars, distVars,
     histVars
<1>9. CASE \E u \in Users, amount \in XprismUnbondAmounts : unbond_xprism(u, amount)
  <2>1. PICK u \in Users, amount \in XprismUnbondAmounts : unbond_xprism(u, amount)
    BY <1>9
  <2>2. CASE Refresh(u, bond_amounts[u], GetBoost(user_info', u))
    <3>1. amount \in Nat /\ boost_unbond(u, amount) /\ now' = now
      BY <2>1, <2>2, LaunchAssumption DEF unbond_xprism, Refresh
    <3>2. GetBoost(user_info', u) \in Nat
      BY <3>1, BoostUnbondInv DEF Inv
    <3>3. bond_amounts[u] \in Nat
      BY DEF Inv, PoolInv, RecordType
    <3>4. QED BY <2>2, <3>2, <3>3, RefreshBooks
  <2>3. CASE UNCHANGED <<poolVars, refreshes, now>>
    BY <2>3, StillBooks DEF poolVars, rewardVars, distVars
  <2>4. QED BY <2>1, <2>2, <2>3 DEF unbond_xprism
<1>10. CASE UNCHANGED vars
  BY <1>10, StillBooks DEF vars, poolVars, rewardVars, distVars, histVars
<1>11. QED
  BY <1>1, <1>2, <1>3, <1>4, <1>5, <1>6, <1>7, <1>8, <1>9, <1>10 DEF Next

\* The two pools together have distributed no more than the schedule has released.
LEMMA DistributedIsReleased ==
  ASSUME Inv, WithinDue, IndexesUpdatable
  PROVE  Released \in Nat /\ Base.total_distributed + Boost.total_distributed <= Released
<1>1. ConfigType /\ StatusType /\ now \in Nat
  BY DEF Inv, PoolInv, BoostInv, BoostType
<1>2. pool_config.start \in Nat /\ pool_config.end \in Nat /\ pool_config.start <= pool_config.end
  BY <1>1 DEF ConfigType, PoolConfig
<1>3. CASE now < pool_config.start
  <2>1. Base = base_status /\ Boost = boost_status /\ Released = 0
    BY <1>3 DEF Base, Boost, update_reward_index, Released
  <2>2. \A ratio : Due(ratio) = 0
    BY <1>1, <1>2, <1>3 DEF Due
  <2>3. base_status.total_distributed <= 0 /\ boost_status.total_distributed <= 0
    BY <1>1, <1>2, <1>3, <2>2 DEF WithinDue
  <2>4. base_status.total_distributed \in Nat /\ boost_status.total_distributed \in Nat
    BY <1>1 DEF StatusType, DistributionStatus
  <2>5. QED BY <2>1, <2>3, <2>4
<1>4. CASE now >= pool_config.start
  <2>1. denom > 0
    BY <1>4 DEF IndexesUpdatable, Updatable
  <2>2. PICK x \in Nat : x = ReleasedAt(now)
    BY <1>1, <1>4, <2>1, ReleasedGrows
  <2>3. Released = x
    BY <1>1, <1>2, <1>4, <2>2 DEF Released, ReleasedAt
  <2>4. PICK r \in Nat : r = pool_config.base_pool_ratio /\ r <= ONE
    BY <1>1, RatiosNat
  <2>5. Base.total_distributed = mul(x, r) /\ Boost.total_distributed = mul(x, ONE - r)
    BY <1>1, <1>2, <1>4, <2>2, <2>4, UpdatedTotal DEF Base, Boost, total_distribute, ReleasedAt,
       StatusType, boost_pool_ratio
  <2>6. mul(x, r) + mul(x, ONE - r) <= x
    BY <2>4, SharesOfOne
  <2>7. QED BY <2>3, <2>5, <2>6
<1>5. QED BY <1>1, <1>2, <1>3, <1>4

LEMMA BooksWithin ==
  ASSUME Inv, WithinDue, Books
  PROVE  WithinSchedule
<1> SUFFICES ASSUME IndexesUpdatable
             PROVE  (Funding - prism_held) + Total([u \in Users |-> Entitled(u)])
                        + Base.pending_reward + Boost.pending_reward
                      <= (InitPoolConfig.amount - pool_config.amount) + Released + 2 * refreshes
  BY DEF WithinSchedule
<1>1. PICK i \in Nat, j \in Nat, p \in Nat, k \in Nat, t \in Nat, s \in Nat :
        /\ i = Base.reward_index /\ j = Boost.reward_index
        /\ p = Base.pending_reward /\ k = Boost.pending_reward
        /\ t = Base.total_distributed /\ s = Boost.total_distributed
  BY IndexesNamed DEF DistributionStatus
<1>2. PICK o \in Nat \ {0}, h \in Nat, a \in Nat, n \in Nat, F \in Nat, A \in Nat :
        /\ o = ONE /\ h = prism_held /\ a = pool_config.amount /\ n = refreshes
        /\ F = Funding /\ A = InitPoolConfig.amount
  BY OnePos, LaunchAssumption DEF Inv, PoolInv, ConfigType, PoolConfig, OtherType
<1>3. PICK R \in Nat : R = Released /\ t + s <= R
  BY <1>1, DistributedIsReleased
<1>4. i >= base_status.reward_index /\ j >= boost_status.reward_index
  BY <1>1, IndexesNamed
<1>5. PICK f, g, z : f = [u \in Users |-> Entitled(u)] /\ g = Worths(i, j) /\ z = [u \in Users |-> 0]
  OBVIOUS
<1>6. ASSUME NEW u \in Users
      PROVE  g[u] \in Nat /\ z[u] \in Nat /\ f[u] \in Nat /\ o * f[u] <= g[u] + 0 * z[u]
  <2>1. PICK e \in Nat, d \in Nat, v \in Nat, x \in Nat :
          /\ e = Accrued(bond_amounts[u], i, i) /\ d = Accrued(Weight(u), j, j)
          /\ v = Vested(u) /\ x = Pulled(u)
    <3>1. i <= i /\ j <= j
      OBVIOUS
    <3>2. bond_amounts[u] \in Nat /\ Weight(u) \in Nat /\ Vested(u) \in Nat
      BY RecordFacts DEF RecordOK
    <3>3. Accrued(bond_amounts[u], i, i) \in Nat /\ Accrued(Weight(u), j, j) \in Nat
      BY <3>1, <3>2, AccruedFacts
    <3>4. Pulled(u) \in Nat
      BY PullsAreAlways DEF PullsAre
    <3>5. QED BY <3>2, <3>3, <3>4
  <2>2. Worth(u, i, j) = o * (x + v) + e + d
    BY <1>1, <1>2, <2>1, PulledWorth
  <2>3. Entitled(u) = x + v
    <3>1. Total(scheduled_vest[u]) \in Nat /\ pending_withdraw[u] \in Nat
      BY VestsEnd DEF Inv, PoolInv, VestType
    <3>2. QED BY <2>1, <3>1 DEF Entitled, Pulled, Vested
  <2>4. f[u] = x + v /\ g[u] = o * (x + v) + e + d /\ z[u] = 0
    BY <1>5, <2>2, <2>3 DEF Worths
  <2>5. PICK m \in Nat : m = o * (x + v)
    OBVIOUS
  <2>6. m <= m + e + d + 0 /\ m + e + d \in Nat /\ 0 * 0 = 0 /\ x + v \in Nat
    OBVIOUS
  <2>7. QED BY <2>4, <2>5, <2>6
<1>7. IsFiniteSet(Users)
  BY UsersFinite
<1>8. PICK E \in Nat, W \in Nat, Z \in Nat :
        /\ E = SumFunctionOnSet(f, Users) /\ W = SumFunctionOnSet(g, Users)
        /\ Z = SumFunctionOnSet(z, Users)
  BY <1>6, <1>7, SumNat
<1>9. o * E <= W + 0 * Z
  <2>1. 0 \in Nat
    OBVIOUS
  <2>2. QED BY ONLY <1>6, <1>7, <1>8, <2>1, o \in Nat \ {0}, SumBound
<1>10. o * (F - h) + W + o * (p + k) <= o * (A - a + t + s) + o * (2 * n)
  <2>1. WorthSum(i, j) = W
    BY <1>5, <1>8 DEF WorthSum
  <2>2. BooksAt(Base, Boost)
    BY UpdateBooks
  <2>3. QED BY <1>1, <1>2, <2>1, <2>2 DEF BooksAt
<1>11. o * ((F - h) + E + p + k) <= o * ((A - a) + (t + s) + 2 * n)
  <2>1. o * ((F - h) + E + p + k) = o * (F - h) + o * E + o * (p + k)
    OBVIOUS
  <2>2. o * ((A - a) + (t + s) + 2 * n) = o * (A - a + t + s) + o * (2 * n)
    OBVIOUS
  <2>3. 0 * Z = 0
    OBVIOUS
  <2>4. PICK e1 \in Int, e2 \in Int, e3 \in Int, e4 \in Int, e5 \in Int :
          /\ e1 = o * (F - h) /\ e2 = o * E /\ e3 = o * (p + k)
          /\ e4 = o * (A - a + t + s) /\ e5 = o * (2 * n)
    OBVIOUS
  <2>5. e2 <= W /\ e1 + W + e3 <= e4 + e5
    BY <1>9, <1>10, <2>3, <2>4
  <2>6. e1 + e2 + e3 <= e4 + e5
    BY <2>5
  <2>7. QED BY <2>1, <2>2, <2>4, <2>6
<1>12. (F - h) + E + p + k <= (A - a) + (t + s) + 2 * n
  <2>1. PICK x \in Int, y \in Int :
          x = (F - h) + E + p + k /\ y = (A - a) + (t + s) + 2 * n
    OBVIOUS
  <2>2. o * x <= o * y
    BY <1>11, <2>1
  <2>3. SUFFICES ASSUME x >= y + 1 PROVE FALSE
    BY <2>1
  <2>4. o * x >= o * (y + 1) /\ o * (y + 1) = o * y + o
    BY <2>3
  <2>5. PICK l \in Int, m \in Int : l = o * x /\ m = o * y
    OBVIOUS
  <2>6. QED BY <2>2, <2>4, <2>5
<1>13. Total(f) = E
  BY <1>5, <1>8 DEF Total
<1>14. (F - h) + E + p + k <= (A - a) + R + 2 * n
  BY <1>3, <1>12
<1>15. QED BY <1>1, <1>2, <1>3, <1>5, <1>13, <1>14

\* Rewards claimed, accrued, vesting and vested by all users and rewards not yet
\* distributed never exceed what the schedule has released so far, for every number of
\* users, every schedule and every sequence of bonds, refreshes, withdrawals, claims and
\* changes of the ratio: _update_reward_index and _pull_pending_rewards never pay twice,
\* up to one unit in each pool for each change of a weight.
THEOREM ScheduleCoversRewards == Spec => []WithinSchedule
<1>1. Init => WithinDue
  BY DueInit
<1>2. Inv /\ Inv' /\ WithinDue /\ [Next]_vars => WithinDue'
  BY IndexesMove, DueStep
<1>3. Inv /\ WithinDue /\ Books => WithinSchedule
  BY BooksWithin
<1>4. QED BY <1>1, <1>2, <1>3, BooksInit, BooksStep, InvHolds, PTL DEF Spec
=============================================================================
