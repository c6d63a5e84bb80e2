------------------------------ MODULE GovProofs ------------------------------
(***************************************************************************)
(* Proofs about Gov.                                                       *)
(***************************************************************************)
EXTENDS Gov, Arithmetic

(***************************************************************************)
(* Types.  TypeOK is not inductive: a burn must find its tokens in the     *)
(* supply, a withdrawal subtracts the largest of finitely many locks, and  *)
(* the reply reads a stored id.                                            *)
(***************************************************************************)
LocksFinite == \A u \in Users : IsFiniteSet(locked_balance[u])
BalanceInSupply == xprism_balance <= xprism_supply
StoredIdCurrent == ~Idle => tmp_poll_id = executing

TypeInv == TypeOK /\ LocksFinite /\ BalanceInSupply /\ StoredIdCurrent

\* The parts of TypeOK about the order book, the bank, the polls and the tokens.
ConfigType == config \in Config /\ validate_quorum(config) /\ validate_threshold(config)
OrdersType ==
  /\ DOMAIN orders = Users
  /\ \A u \in Users : /\ IsFiniteSet(DOMAIN orders[u]) /\ DOMAIN orders[u] \subseteq Nat
                      /\ orders[u] \in [DOMAIN orders[u] -> Order]
  /\ pending_xprism \in Nat /\ pending_prism \in Nat
BankType ==
  /\ deposit \in [Users -> Nat]
  /\ locked_balance \in [Users -> SUBSET Lock] /\ LocksFinite
  /\ poll_voter \in [1..MaxPolls -> SUBSET Users]
PollType ==
  /\ last_poll_id \in 1..(MaxPolls + 1)
  /\ poll \in [1..(last_poll_id - 1) -> Poll]
  /\ poll_indexer \in [PollStatus -> SUBSET (1..MaxPolls)]
  /\ tmp_poll_id \in {0} \cup DOMAIN poll /\ executing \in {0} \cup DOMAIN poll
  /\ StoredIdCurrent
TokenType ==
  /\ prism_balance \in Nat /\ xprism_supply \in Nat /\ xprism_balance \in Nat
  /\ gifts \in Nat /\ now \in Nat
  /\ BalanceInSupply

LEMMA TypeParts ==
  TypeInv <=> ConfigType /\ OrdersType /\ BankType /\ PollType /\ TokenType
  BY DEF TypeInv, TypeOK, ConfigType, OrdersType, BankType, PollType, TokenType

LEMMA TypePartsNext ==
  TypeInv' <=> ConfigType' /\ OrdersType' /\ BankType' /\ PollType' /\ TokenType'
  BY DEF TypeInv, TypeOK, ConfigType, OrdersType, BankType, PollType, TokenType

\* A part whose variables keep their values keeps holding.
LEMMA TypeKept ==
  /\ ConfigType /\ UNCHANGED config => ConfigType'
  /\ OrdersType /\ UNCHANGED orderVars => OrdersType'
  /\ BankType /\ UNCHANGED <<bankVars, poll_voter>> => BankType'
  /\ PollType /\ UNCHANGED <<pollVars, execVars>> => PollType'
  /\ TokenType /\ UNCHANGED <<tokenVars, now>> => TokenType'
<1>1. ConfigType /\ UNCHANGED config => ConfigType'
  BY DEF ConfigType, validate_quorum, validate_threshold
<1>2. OrdersType /\ UNCHANGED orderVars => OrdersType'
  BY DEF OrdersType, orderVars
<1>3. BankType /\ UNCHANGED <<bankVars, poll_voter>> => BankType'
  BY DEF BankType, bankVars, LocksFinite
<1>4. PollType /\ UNCHANGED <<pollVars, execVars>> => PollType'
  BY DEF PollType, pollVars, execVars, StoredIdCurrent, Idle
<1>5. TokenType /\ UNCHANGED <<tokenVars, now>> => TokenType'
  BY DEF TokenType, tokenVars, BalanceInSupply
<1>6. QED BY <1>1, <1>2, <1>3, <1>4, <1>5

\* instantiate
LEMMA TypeInit == Init => TypeInv
<1> SUFFICES ASSUME Init PROVE TypeInv
  OBVIOUS
<1>1. ConfigType
  BY GovAssumption DEF Init, ConfigType
<1>2. OrdersType
  <2>1. \A u \in Users : DOMAIN orders[u] = {} /\ orders[u] \in [DOMAIN orders[u] -> Order]
    BY DEF Init
  <2>2. QED BY <2>1, FS_EmptySet DEF Init, OrdersType
<1>3. BankType
  BY FS_EmptySet DEF Init, BankType, LocksFinite
<1>4. PollType
  <2>1. 1..(1 - 1) = {}
    OBVIOUS
  <2>2. DOMAIN poll = {} /\ poll \in [{} -> Poll]
    BY DEF Init
  <2>3. 1 \in 1..(MaxPolls + 1)
    BY GovAssumption
  <2>4. QED BY <2>1, <2>2, <2>3 DEF Init, PollType, StoredIdCurrent, Idle
<1>5. TokenType
  BY DEF Init, TokenType, BalanceInSupply
<1>6. QED BY <1>1, <1>2, <1>3, <1>4, <1>5, TypeParts

\* update_config leaves a configuration with ratios for quorum and threshold.
LEMMA ConfigUpdated ==
  ASSUME ConfigType, NEW sender, NEW c \in ConfigChoices, update_config(sender, c)
  PROVE  ConfigType'
<1> DEFINE m == [f \in DOMAIN InitConfig |-> IF f \in DOMAIN c THEN c[f] ELSE InitConfig[f]]
<1>1. m \in Config /\ InitConfig \in Config /\ config \in Config
  BY GovAssumption DEF ConfigType
<1>2. DOMAIN config = DOMAIN InitConfig
  BY <1>1 DEF Config
<1>3. \A f \in DOMAIN config : Updated(c)[f] \in {m[f], config[f]}
  BY <1>1, <1>2 DEF Updated
<1>4. DOMAIN Updated(c) = DOMAIN config
  BY DEF Updated
<1>5. Updated(c) \in Config
  <2> HIDE DEF m
  <2>1. DOMAIN config = {"owner", "quorum", "threshold", "voting_period", "effective_delay",
                         "proposal_deposit", "snapshot_period", "redemption_time"}
    BY <1>1 DEF Config
  <2>2. /\ Updated(c).owner \in Owners \cup {GOV} /\ Updated(c).quorum \in Nat
        /\ Updated(c).threshold \in Nat /\ Updated(c).voting_period \in Nat
        /\ Updated(c).effective_delay \in Nat /\ Updated(c).proposal_deposit \in Nat
        /\ Updated(c).snapshot_period \in Nat /\ Updated(c).redemption_time \in Nat
    BY <1>1, <1>3, <2>1 DEF Config
  <2>3. Updated(c) = [f \in DOMAIN config |-> Updated(c)[f]]
    BY DEF Updated
  <2>4. QED BY <2>1, <2>2, <2>3 DEF Config
<1>6. QED BY <1>5 DEF update_config, ConfigType, validate_quorum, validate_threshold

\* Finitely many locks have a largest one.
LEMMA LargestLock ==
  ASSUME NEW L, IsFiniteSet(L), \A l \in L : l.balance \in Nat
  PROVE  \E m \in {l.balance : l \in L} \cup {0} : \A l \in L : l.balance <= m
<1> DEFINE Bound(s) == \E m \in {l.balance : l \in s} \cup {0} : \A l \in s : l.balance <= m
           T == {s \in SUBSET L : Bound(s)}
<1>1. {} \in T
  OBVIOUS
<1>2. ASSUME NEW s \in SUBSET L, s # {}, \A x \in s : s \ {x} \in T PROVE s \in T
  <2>1. PICK x \in s : TRUE
    BY <1>2
  <2>2. PICK m \in {l.balance : l \in s \ {x}} \cup {0} : \A l \in s \ {x} : l.balance <= m
    BY <1>2, <2>1
  <2>3. m \in Nat /\ x.balance \in Nat /\ m \in {l.balance : l \in s} \cup {0}
        /\ x.balance \in {l.balance : l \in s} \cup {0}
    BY <2>1, <2>2
  <2>4. CASE x.balance <= m
    BY <2>2, <2>3, <2>4
  <2>5. CASE m <= x.balance
    <3>1. \A l \in s : l.balance <= x.balance
      BY <2>2, <2>3, <2>5
    <3>2. QED BY <2>3, <3>1
  <2>6. QED BY <2>3, <2>4, <2>5
<1> HIDE DEF T
<1>3. T \in SUBSET (SUBSET L)
  BY DEF T
<1>4. T = SUBSET L
  BY <1>1, <1>2, <1>3, FiniteSubsetInduction
<1>5. QED BY <1>4 DEF T

\* compute_locked_balance bounds the voter's live locks.
LEMMA LockedBalance ==
  ASSUME BankType, NEW u \in Users
  PROVE  /\ user_locked_balance(u) \in Nat
         /\ \A l \in LiveLocks(u) : l.balance <= user_locked_balance(u)
         /\ IsFiniteSet(LiveLocks(u)) /\ LiveLocks(u) \subseteq locked_balance[u]
<1> DEFINE L == LiveLocks(u)
           B == {l.balance : l \in L} \cup {0}
<1>1. L \subseteq locked_balance[u] /\ locked_balance[u] \subseteq Lock
      /\ IsFiniteSet(locked_balance[u])
  BY DEF BankType, LocksFinite, LiveLocks
<1>2. IsFiniteSet(L) /\ \A l \in L : l.balance \in Nat
  BY <1>1, FS_Subset DEF Lock
<1>3. \E m \in B : \A l \in L : l.balance <= m
  BY <1>2, LargestLock
<1>4. B \subseteq Nat
  BY <1>2
<1>5. \E m \in B : \A b \in B : m >= b
  <2>1. PICK m \in B : \A l \in L : l.balance <= m
    BY <1>3
  <2>2. \A b \in B : m >= b
    BY <1>4, <2>1
  <2>3. QED BY <2>1, <2>2
<1>6. Max(B) \in B /\ \A b \in B : Max(B) >= b
  <2> HIDE DEF B
  <2>1. QED BY <1>5 DEF Max
<1>7. user_locked_balance(u) = Max(B)
  BY DEF user_locked_balance
<1>8. QED BY <1>1, <1>2, <1>4, <1>6, <1>7

LEMMA MintType == ASSUME TypeInv, NEW a \in Nat, mint_xprism(a) PROVE TypeInv'
<1>1. ConfigType /\ OrdersType /\ BankType /\ PollType /\ TokenType
  BY TypeParts
<1>2. UNCHANGED <<config, orderVars, bankVars, pollVars, poll_voter, execVars>>
  BY DEF mint_xprism
<1>3. prism_amt \in Nat /\ xprism_amt \in Nat
  BY <1>1 DEF mint_xprism, prism_amt, xprism_amt, TokenType, OrdersType
<1>4. xprism_to_mint(a) \in Nat
  <2>1. a * xprism_amt \in Nat
    BY <1>3
  <2>2. QED BY <1>3, <2>1, DivFacts DEF xprism_to_mint
<1>5. TokenType'
  BY <1>1, <1>4 DEF mint_xprism, TokenType, BalanceInSupply
<1>6. QED BY <1>1, <1>2, <1>5, TypeKept, TypePartsNext

LEMMA RedeemType ==
  ASSUME TypeInv, NEW u \in Users, NEW a \in Nat, redeem_xprism(u, a) PROVE TypeInv'
<1>1. ConfigType /\ OrdersType /\ BankType /\ PollType /\ TokenType
  BY TypeParts
<1>2. UNCHANGED <<config, bankVars, pollVars, poll_voter, execVars>>
  BY DEF redeem_xprism
<1>3. prism_amt \in Nat /\ xprism_amt \in Nat \ {0}
  BY <1>1 DEF redeem_xprism, prism_amt, xprism_amt, TokenType, OrdersType
<1>4. prism_to_return(a) \in Nat
  <2>1. a * prism_amt \in Nat
    BY <1>3
  <2>2. QED BY <1>3, <2>1, DivFacts DEF prism_to_return
<1>5. TokenType'
  BY <1>1 DEF redeem_xprism, TokenType, BalanceInSupply, circulating
<1>6. OrdersType'
  <2> DEFINE e == now + config.redemption_time
             D == DOMAIN orders[u] \cup {e}
             o == [t \in D |-> IF t = e THEN [xprism |-> a, prism |-> prism_to_return(a)]
                               ELSE orders[u][t]]
  <2>1. e \in Nat
    BY <1>1 DEF ConfigType, Config, TokenType
  <2>2. IsFiniteSet(D) /\ D \subseteq Nat /\ o \in [D -> Order] /\ DOMAIN o = D
    <3>1. IsFiniteSet(D) /\ D \subseteq Nat
      BY <1>1, <2>1, FS_AddElement DEF OrdersType
    <3>2. o \in [D -> Order]
      BY <1>1, <1>4 DEF OrdersType, Order
    <3>3. QED BY <3>1, <3>2
  <2>3. orders' = [orders EXCEPT ![u] = o]
    BY DEF redeem_xprism
  <2>4. pending_xprism' \in Nat /\ pending_prism' \in Nat
    BY <1>1, <1>4 DEF redeem_xprism, OrdersType
  <2> HIDE DEF o, D
  <2>5. QED BY <1>1, <2>2, <2>3, <2>4 DEF OrdersType
<1>7. QED BY <1>1, <1>2, <1>5, <1>6, TypeKept, TypePartsNext

\* The orders a claim removes are finitely many, and their sums are naturals.
LEMMA OrderSumNat ==
  ASSUME OrdersType, NEW u \in Users, NEW ts, ts \subseteq DOMAIN orders[u]
  PROVE  OrderSum(orders[u], ts).xprism \in Nat /\ OrderSum(orders[u], ts).prism \in Nat
<1> DEFINE x == [t \in DOMAIN orders[u] |-> orders[u][t].xprism]
           p == [t \in DOMAIN orders[u] |-> orders[u][t].prism]
<1>1. IsFiniteSet(ts)
  BY FS_Subset DEF OrdersType
<1>2. \A t \in ts : x[t] \in Nat /\ p[t] \in Nat
  BY DEF OrdersType, Order
<1>3. OrderSum(orders[u], ts).xprism = SumFunctionOnSet(x, ts)
      /\ OrderSum(orders[u], ts).prism = SumFunctionOnSet(p, ts)
  BY DEF OrderSum
<1> HIDE DEF x, p
<1>4. QED BY <1>1, <1>2, <1>3, SumNat

LEMMA ClaimType ==
  ASSUME TypeInv, NEW u \in Users, claim_redeemed_prism(u) PROVE TypeInv'
<1>1. ConfigType /\ OrdersType /\ BankType /\ PollType /\ TokenType
  BY TypeParts
<1>2. UNCHANGED <<config, bankVars, pollVars, poll_voter, execVars>>
  BY DEF claim_redeemed_prism
<1> DEFINE w == compute_withdrawable(u)
<1>3. w.xprism \in Nat /\ w.prism \in Nat
  BY <1>1, OrderSumNat DEF compute_withdrawable, WithdrawableOrders
<1>4. w.xprism <= pending_xprism /\ w.prism <= pending_prism
      /\ w.xprism <= xprism_balance /\ w.prism <= prism_balance
      /\ orders' = [orders EXCEPT ![u] = Restrict(@, DOMAIN @ \ WithdrawableOrders(u))]
      /\ pending_xprism' = pending_xprism - w.xprism
      /\ pending_prism' = pending_prism - w.prism
      /\ xprism_supply' = xprism_supply - w.xprism
      /\ xprism_balance' = xprism_balance - w.xprism
      /\ prism_balance' = prism_balance - w.prism
      /\ UNCHANGED <<gifts, now>>
  BY DEF claim_redeemed_prism
<1> HIDE DEF w
<1>5. TokenType'
  BY <1>1, <1>3, <1>4 DEF TokenType, BalanceInSupply
<1>6. OrdersType'
  <2> DEFINE D == DOMAIN orders[u] \ WithdrawableOrders(u)
             o == [t \in D |-> orders[u][t]]
  <2>1. IsFiniteSet(D) /\ D \subseteq Nat
    BY <1>1, FS_Subset DEF OrdersType
  <2>2. o \in [D -> Order] /\ DOMAIN o = D
    BY <1>1 DEF OrdersType
  <2>3. orders' = [orders EXCEPT ![u] = o]
    BY <1>4 DEF Restrict
  <2>4. pending_xprism' \in Nat /\ pending_prism' \in Nat
    BY <1>1, <1>3, <1>4 DEF OrdersType
  <2> HIDE DEF o, D
  <2>5. QED BY <1>1, <2>1, <2>2, <2>3, <2>4 DEF OrdersType
<1>7. QED BY <1>1, <1>2, <1>5, <1>6, TypeKept, TypePartsNext

LEMMA StakeType ==
  ASSUME TypeInv, NEW u \in Users, NEW a \in Nat, stake_voting_tokens(u, a) PROVE TypeInv'
<1>1. ConfigType /\ OrdersType /\ BankType /\ PollType /\ TokenType
  BY TypeParts
<1>2. UNCHANGED <<config, orderVars, pollVars, execVars>>
  BY DEF stake_voting_tokens
<1>3. BankType'
  BY <1>1 DEF stake_voting_tokens, BankType, LocksFinite
<1>4. TokenType'
  BY <1>1 DEF stake_voting_tokens, TokenType, BalanceInSupply, circulating
<1>5. QED BY <1>1, <1>2, <1>3, <1>4, TypeKept, TypePartsNext

LEMMA WithdrawType ==
  ASSUME TypeInv, NEW u \in Users, NEW a, withdraw_voting_tokens(u, a), a \in Int
  PROVE  TypeInv'
<1>1. ConfigType /\ OrdersType /\ BankType /\ PollType /\ TokenType
  BY TypeParts
<1>2. UNCHANGED <<config, orderVars, pollVars, execVars>>
  BY DEF withdraw_voting_tokens
<1>3. user_locked_balance(u) \in Nat /\ IsFiniteSet(LiveLocks(u))
      /\ LiveLocks(u) \subseteq locked_balance[u]
  BY <1>1, LockedBalance
<1>4. a > 0 /\ a <= deposit[u] - user_locked_balance(u) /\ a <= xprism_balance
      /\ deposit' = [deposit EXCEPT ![u] = @ - a]
      /\ locked_balance' = [locked_balance EXCEPT ![u] = LiveLocks(u)]
      /\ xprism_balance' = xprism_balance - a
      /\ UNCHANGED <<prism_balance, xprism_supply, gifts, now>>
  BY DEF withdraw_voting_tokens
<1>5. BankType'
  <2>1. deposit[u] \in Nat /\ deposit[u] - a \in Nat
    BY <1>1, <1>3, <1>4 DEF BankType
  <2>2. deposit' \in [Users -> Nat]
    BY <1>1, <1>4, <2>1 DEF BankType
  <2>3. locked_balance' \in [Users -> SUBSET Lock] /\ LocksFinite'
    BY <1>1, <1>3, <1>4 DEF BankType, LocksFinite
  <2>4. poll_voter' \in [1..MaxPolls -> SUBSET Users]
    <3>1. poll_voter' = [p \in DOMAIN poll_voter |->
                      IF \E l \in locked_balance[u] \ LiveLocks(u) : l.poll_id = p
                      THEN poll_voter[p] \ {u} ELSE poll_voter[p]]
      BY DEF withdraw_voting_tokens
    <3>2. poll_voter \in [1..MaxPolls -> SUBSET Users]
      BY <1>1 DEF BankType
    <3>3. QED BY <3>1, <3>2
  <2>5. QED BY <2>2, <2>3, <2>4 DEF BankType
<1>6. TokenType'
  BY <1>1, <1>4 DEF TokenType, BalanceInSupply
<1>7. QED BY <1>1, <1>2, <1>5, <1>6, TypeKept, TypePartsNext

LEMMA CreateType ==
  ASSUME TypeInv, NEW a \in Nat, NEW e \in ExecuteData, create_poll(a, e) PROVE TypeInv'
<1>1. ConfigType /\ OrdersType /\ BankType /\ PollType /\ TokenType
  BY TypeParts
<1>2. UNCHANGED <<config, orderVars, bankVars, poll_voter>>
  BY DEF create_poll
<1>3. TokenType'
  BY <1>1 DEF create_poll, TokenType, BalanceInSupply, circulating
<1>4. PollType'
  <2> DEFINE r == [status |-> "InProgress",
                   votes |-> [o \in VoteOption |-> 0],
                   end_time |-> now + config.voting_period,
                   execute_data |-> e,
                   deposit_amount |-> a,
                   supply_snapshot |-> NoSnapshot,
                   required_quorum |-> config.quorum,
                   required_threshold |-> config.threshold]
  <2>1. r \in Poll
    BY <1>1 DEF TokenType, ConfigType, Config, Poll, PollStatus
  <2>2. last_poll_id \in 1..MaxPolls /\ MaxPolls \in Nat /\ last_poll_id' = last_poll_id + 1
    BY <1>1, GovAssumption DEF PollType, create_poll
  <2>3. 1..(last_poll_id' - 1) = (1..(last_poll_id - 1)) \cup {last_poll_id}
    BY <2>2
  <2>4. poll' = [p \in DOMAIN poll \cup {last_poll_id} |->
                   IF p = last_poll_id THEN r ELSE poll[p]]
    BY DEF create_poll
  <2> HIDE DEF r
  <2>5. poll' \in [1..(last_poll_id' - 1) -> Poll] /\ DOMAIN poll \subseteq DOMAIN poll'
    BY <1>1, <2>1, <2>3, <2>4 DEF PollType
  <2>6. poll_indexer' \in [PollStatus -> SUBSET (1..MaxPolls)]
    BY <1>1, <2>2 DEF PollType, create_poll
  <2>7. UNCHANGED execVars
    BY DEF create_poll
  <2>8. last_poll_id' \in 1..(MaxPolls + 1)
    BY <2>2
  <2>9. QED BY <1>1, <2>5, <2>6, <2>7, <2>8 DEF PollType, execVars, StoredIdCurrent, Idle
<1>5. QED BY <1>1, <1>2, <1>3, <1>4, TypeKept, TypePartsNext

\* A step that keeps the ids of the polls and writes one of them.
LEMMA PollWritten ==
  ASSUME PollType, NEW p \in DOMAIN poll, NEW r \in Poll, poll' = [poll EXCEPT ![p] = r],
         UNCHANGED last_poll_id,
         poll_indexer' \in [PollStatus -> SUBSET (1..MaxPolls)],
         tmp_poll_id' \in {0} \cup DOMAIN poll, executing' \in {0} \cup DOMAIN poll,
         executing' = 0 \/ tmp_poll_id' = executing'
  PROVE  PollType'
  BY DEF PollType, StoredIdCurrent, Idle

\* The ids of the polls are those of the index and of poll_voter.
LEMMA PollIds ==
  ASSUME PollType
  PROVE  /\ DOMAIN poll = 1..(last_poll_id - 1) /\ DOMAIN poll \subseteq 1..MaxPolls
         /\ \A p \in DOMAIN poll : poll[p] \in Poll
  BY GovAssumption DEF PollType

LEMMA EndPollType == ASSUME TypeInv, NEW p \in DOMAIN poll, end_poll(p) PROVE TypeInv'
<1>1. ConfigType /\ OrdersType /\ BankType /\ PollType /\ TokenType
  BY TypeParts
<1>2. UNCHANGED <<config, orderVars, bankVars, poll_voter>>
  BY DEF end_poll
<1>3. poll[p] \in Poll /\ p \in 1..MaxPolls /\ total_supply(p) \in Nat
      /\ deposit_paid(p) \in Nat /\ deposit_paid(p) <= xprism_balance
  BY <1>1, PollIds DEF Poll, total_supply, TokenType, deposit_paid, end_poll
<1>4. TokenType'
  BY <1>1, <1>3 DEF end_poll, TokenType, BalanceInSupply
<1>5. PICK s \in {"Passed", "Rejected"} :
        /\ poll' = [poll EXCEPT ![p].status = s, ![p].supply_snapshot = total_supply(p)]
        /\ poll_indexer' = [poll_indexer EXCEPT !["InProgress"] = @ \ {p}, ![s] = @ \cup {p}]
  BY DEF end_poll
<1> DEFINE r == [poll[p] EXCEPT !.status = s, !.supply_snapshot = total_supply(p)]
<1>6. r \in Poll
  BY <1>3 DEF Poll, PollStatus
<1>7. poll' = [poll EXCEPT ![p] = r]
  BY <1>1, <1>5 DEF PollType
<1>8. poll_indexer' \in [PollStatus -> SUBSET (1..MaxPolls)]
  BY <1>1, <1>3, <1>5 DEF PollType, PollStatus
<1>9. UNCHANGED <<last_poll_id, execVars>>
  BY DEF end_poll
<1> HIDE DEF r
<1>10. PollType'
  BY <1>1, <1>6, <1>7, <1>8, <1>9, PollWritten DEF execVars, PollType, StoredIdCurrent, Idle
<1>11. QED BY <1>1, <1>2, <1>4, <1>10, TypeKept, TypePartsNext

LEMMA MarkExecutedType == ASSUME TypeInv, NEW p \in DOMAIN poll, MarkExecuted(p) PROVE TypeInv'
<1>1. ConfigType /\ OrdersType /\ BankType /\ PollType /\ TokenType
  BY TypeParts
<1>2. UNCHANGED <<config, orderVars, bankVars, poll_voter, tokenVars, now, last_poll_id>>
  BY DEF MarkExecuted
<1>3. poll[p] \in Poll /\ p \in 1..MaxPolls
  BY <1>1, PollIds
<1> DEFINE r == [poll[p] EXCEPT !.status = "Executed"]
<1>4. r \in Poll
  BY <1>3 DEF Poll, PollStatus
<1>5. poll' = [poll EXCEPT ![p] = r]
  BY <1>1 DEF PollType, MarkExecuted
<1>6. poll_indexer' \in [PollStatus -> SUBSET (1..MaxPolls)]
  BY <1>1, <1>3 DEF PollType, PollStatus, MarkExecuted
<1>7. tmp_poll_id' = p /\ executing' = p
  BY DEF MarkExecuted, store_tmp_poll_id
<1> HIDE DEF r
<1>8. PollType'
  BY <1>1, <1>2, <1>4, <1>5, <1>6, <1>7, PollWritten
<1>9. QED BY <1>1, <1>2, <1>8, TypeKept, TypePartsNext

LEMMA FailedType == ASSUME TypeInv, failed_poll PROVE TypeInv'
<1>1. ConfigType /\ OrdersType /\ BankType /\ PollType /\ TokenType
  BY TypeParts
<1>2. UNCHANGED <<config, orderVars, bankVars, poll_voter, tokenVars, now, last_poll_id>>
  BY DEF failed_poll
<1> DEFINE q == tmp_poll_id
<1>3. q \in DOMAIN poll /\ poll[q] \in Poll /\ q \in 1..MaxPolls
  <2>1. q \in DOMAIN poll
    BY <1>1 DEF failed_poll, Idle, PollType, StoredIdCurrent
  <2>2. QED BY <1>1, <2>1, PollIds
<1> DEFINE r == [poll[q] EXCEPT !.status = "Failed"]
<1>4. r \in Poll
  BY <1>3 DEF Poll, PollStatus
<1>5. poll' = [poll EXCEPT ![q] = r]
  BY <1>1 DEF PollType, failed_poll
<1>6. poll_indexer' \in [PollStatus -> SUBSET (1..MaxPolls)]
  BY <1>1, <1>3 DEF PollType, PollStatus, failed_poll, failed_index
<1>7. tmp_poll_id' = tmp_poll_id /\ executing' = 0
  BY DEF failed_poll
<1> HIDE DEF r
<1>8. PollType'
  BY <1>1, <1>2, <1>3, <1>4, <1>5, <1>6, <1>7, PollWritten
<1>9. QED BY <1>1, <1>2, <1>8, TypeKept, TypePartsNext

LEMMA VoteType ==
  ASSUME TypeInv, NEW u \in Users, NEW p \in DOMAIN poll, NEW v \in VoteOption, NEW a \in Nat,
         cast_vote(u, p, v, a)
  PROVE  TypeInv'
<1>1. ConfigType /\ OrdersType /\ BankType /\ PollType /\ TokenType
  BY TypeParts
<1>2. UNCHANGED <<config, orderVars, tokenVars, now, last_poll_id, poll_indexer, execVars>>
  BY DEF cast_vote
<1>3. poll[p] \in Poll /\ p \in 1..MaxPolls
  BY <1>1, PollIds
<1>4. snapshot_at_vote(p) \in Nat \cup {NoSnapshot}
  BY <1>1, <1>3 DEF snapshot_at_vote, TokenType, Poll
<1> DEFINE r == [poll[p] EXCEPT !.votes[v] = @ + a, !.supply_snapshot = snapshot_at_vote(p)]
<1>5. r \in Poll
  <2>1. poll[p].votes \in [VoteOption -> Nat]
    BY <1>3 DEF Poll
  <2>2. [poll[p].votes EXCEPT ![v] = @ + a] \in [VoteOption -> Nat]
    BY <2>1
  <2>3. QED BY <1>3, <1>4, <2>2 DEF Poll
<1>6. poll' = [poll EXCEPT ![p] = r]
  BY <1>1 DEF PollType, cast_vote
<1> HIDE DEF r
<1>7. PollType'
  BY <1>1, <1>2, <1>5, <1>6, PollWritten DEF execVars, PollType, StoredIdCurrent, Idle
<1>8. BankType'
  <2> DEFINE l == [poll_id |-> p, vote |-> v, balance |-> a]
  <2>1. l \in Lock
    BY <1>3 DEF Lock
  <2>2. locked_balance' = [locked_balance EXCEPT ![u] = @ \cup {l}]
        /\ UNCHANGED deposit /\ poll_voter' = [poll_voter EXCEPT ![p] = @ \cup {u}]
    BY DEF cast_vote
  <2> HIDE DEF l
  <2>3. IsFiniteSet(locked_balance[u] \cup {l})
    BY <1>1, FS_AddElement DEF BankType, LocksFinite
  <2>4. locked_balance' \in [Users -> SUBSET Lock] /\ LocksFinite'
    BY <1>1, <2>1, <2>2, <2>3 DEF BankType, LocksFinite
  <2>5. poll_voter' \in [1..MaxPolls -> SUBSET Users]
    BY <1>1, <1>3, <2>2 DEF BankType
  <2>6. QED BY <1>1, <2>2, <2>4, <2>5 DEF BankType
<1>9. QED BY <1>1, <1>2, <1>7, <1>8, TypeKept, TypePartsNext

LEMMA SnapshotType == ASSUME TypeInv, NEW p \in DOMAIN poll, snapshot_poll(p) PROVE TypeInv'
<1>1. ConfigType /\ OrdersType /\ BankType /\ PollType /\ TokenType
  BY TypeParts
<1>2. UNCHANGED <<config, orderVars, bankVars, poll_voter, tokenVars, now, last_poll_id,
                  poll_indexer, execVars>>
  BY DEF snapshot_poll
<1>3. poll[p] \in Poll
  BY <1>1, PollIds
<1> DEFINE r == [poll[p] EXCEPT !.supply_snapshot = xprism_supply]
<1>4. r \in Poll
  BY <1>1, <1>3 DEF Poll, TokenType
<1>5. poll' = [poll EXCEPT ![p] = r]
  BY <1>1 DEF PollType, snapshot_poll
<1> HIDE DEF r
<1>6. PollType'
  BY <1>1, <1>2, <1>4, <1>5, PollWritten DEF execVars, PollType, StoredIdCurrent, Idle
<1>7. QED BY <1>1, <1>2, <1>6, TypeKept, TypePartsNext

\* The sub-message ends without writing a poll.
LEMMA DispatchedType ==
  ASSUME TypeInv, ConfigType', executing' = 0,
         UNCHANGED <<orderVars, bankVars, pollVars, poll_voter, tmp_poll_id, tokenVars, now>>
  PROVE  TypeInv'
<1>1. OrdersType /\ BankType /\ PollType /\ TokenType
  BY TypeParts
<1>2. PollType'
  BY <1>1 DEF PollType, pollVars, StoredIdCurrent, Idle
<1>3. QED BY <1>1, <1>2, TypeKept, TypePartsNext

\* Fees, gifts and burns of the holders, and time.
LEMMA OutsideType ==
  ASSUME TypeInv,
         \/ EndBlock
         \/ \E a \in FeeAmounts : PrismArrives(a)
         \/ \E a \in GiftAmounts : XprismArrives(a)
         \/ \E a \in BurnAmounts : HolderBurns(a)
  PROVE  TypeInv'
<1>1. ConfigType /\ OrdersType /\ BankType /\ PollType /\ TokenType
  BY TypeParts
<1>2. UNCHANGED <<config, orderVars, bankVars, pollVars, poll_voter, execVars>>
  BY DEF EndBlock, PrismArrives, XprismArrives, HolderBurns
<1>3. TokenType'
  <2>1. CASE EndBlock
    BY <1>1, <2>1 DEF EndBlock, TokenType, tokenVars, BalanceInSupply
  <2>2. ASSUME NEW a \in FeeAmounts, PrismArrives(a) PROVE TokenType'
    BY <1>1, <2>2, GovAssumption DEF PrismArrives, TokenType, BalanceInSupply
  <2>3. ASSUME NEW a \in GiftAmounts, XprismArrives(a) PROVE TokenType'
    BY <1>1, <2>3, GovAssumption DEF XprismArrives, TokenType, BalanceInSupply, circulating
  <2>4. ASSUME NEW a \in BurnAmounts, HolderBurns(a) PROVE TokenType'
    BY <1>1, <2>4, GovAssumption DEF HolderBurns, TokenType, BalanceInSupply, circulating
  <2>5. QED BY <2>1, <2>2, <2>3, <2>4
<1>4. QED BY <1>1, <1>2, <1>3, TypeKept, TypePartsNext

LEMMA TypeStep == TypeInv /\ [Next]_vars => TypeInv'
<1> SUFFICES ASSUME TypeInv, [Next]_vars PROVE TypeInv'
  OBVIOUS
<1>1. ConfigType /\ OrdersType /\ BankType /\ PollType /\ TokenType
  BY TypeParts
<1>2. ASSUME NEW a \in MintAmounts, mint_xprism(a) PROVE TypeInv'
  BY <1>2, MintType, GovAssumption
<1>3. ASSUME NEW u \in Users, NEW a \in RedeemAmounts, redeem_xprism(u, a) PROVE TypeInv'
  BY <1>3, RedeemType, GovAssumption
<1>4. ASSUME NEW u \in Users, claim_redeemed_prism(u) PROVE TypeInv'
  BY <1>4, ClaimType
<1>5. ASSUME NEW u \in Users, NEW a \in StakeAmounts, stake_voting_tokens(u, a) PROVE TypeInv'
  BY <1>5, StakeType, GovAssumption
<1>6. ASSUME NEW u \in Users, NEW a \in WithdrawAmounts, withdraw_voting_tokens(u, a)
      PROVE  TypeInv'
  <2>1. a \in Int
    BY GovAssumption
  <2>2. QED BY <1>6, <2>1, WithdrawType
<1>7. ASSUME NEW u \in Users, withdraw_voting_tokens(u, deposit[u] - user_locked_balance(u))
      PROVE  TypeInv'
  <2>1. deposit[u] - user_locked_balance(u) \in Int
    BY <1>1, LockedBalance DEF BankType
  <2>2. QED BY <1>7, <2>1, WithdrawType
<1>8. ASSUME NEW a \in DepositAmounts, NEW e \in ExecuteMsgs, create_poll(a, e) PROVE TypeInv'
  BY <1>8, CreateType, GovAssumption
<1>9. ASSUME NEW p \in DOMAIN poll, end_poll(p) PROVE TypeInv'
  BY <1>9, EndPollType
<1>10. ASSUME NEW p \in DOMAIN poll, execute_poll(p) PROVE TypeInv'
  BY <1>10, MarkExecutedType DEF execute_poll
<1>11. CASE SubmessageSucceeds
  BY <1>1, <1>11, TypeKept, DispatchedType DEF SubmessageSucceeds
<1>12. CASE SubmessageExecutesPoll
  BY <1>12, MarkExecutedType DEF SubmessageExecutesPoll
<1>13. CASE failed_poll
  BY <1>13, FailedType
<1>14. ASSUME NEW u \in Users, NEW p \in DOMAIN poll, NEW v \in VoteOption, NEW a \in VoteAmounts,
              cast_vote(u, p, v, a)
       PROVE  TypeInv'
  BY <1>14, VoteType, GovAssumption
<1>15. ASSUME NEW p \in DOMAIN poll, snapshot_poll(p) PROVE TypeInv'
  BY <1>15, SnapshotType
<1>16. ASSUME NEW o \in Owners, NEW c \in ConfigChoices, OwnerUpdatesConfig(o, c) PROVE TypeInv'
  <2>1. ConfigType'
    BY <1>1, <1>16, ConfigUpdated DEF OwnerUpdatesConfig
  <2>2. QED BY <1>1, <1>16, <2>1, TypeKept, TypePartsNext DEF OwnerUpdatesConfig
<1>17. ASSUME NEW c \in ConfigChoices, SubmessageUpdatesConfig(c) PROVE TypeInv'
  <2>1. ConfigType'
    BY <1>1, <1>17, ConfigUpdated DEF SubmessageUpdatesConfig
  <2>2. QED BY <1>17, <2>1, DispatchedType DEF SubmessageUpdatesConfig
<1>18. CASE \/ EndBlock
            \/ \E a \in FeeAmounts : PrismArrives(a)
            \/ \E a \in GiftAmounts : XprismArrives(a)
            \/ \E a \in BurnAmounts : HolderBurns(a)
  BY <1>18, OutsideType
<1>19. CASE UNCHANGED vars
  BY <1>1, <1>19, TypeKept, TypePartsNext DEF vars
<1>20. QED
  BY <1>2, <1>3, <1>4, <1>5, <1>6, <1>7, <1>8, <1>9, <1>10, <1>11, <1>12, <1>13, <1>14,
     <1>15, <1>16, <1>17, <1>18, <1>19 DEF Next

LEMMA TypeInvariant == Spec => []TypeInv
  BY TypeInit, TypeStep, PTL DEF Spec

\* Every variable of the contract keeps its type and the stored quorum and threshold stay
\* ratios, whoever updates the configuration; no burn or withdrawal of a handler underflows.
THEOREM TypeCorrect == Spec => []TypeOK
<1>1. TypeInv => TypeOK
  BY DEF TypeInv
<1>2. QED BY <1>1, TypeInvariant, PTL

-----------------------------------------------------------------------------
(***************************************************************************)
(* The life of a poll.  What makes the reply mark the right poll is that   *)
(* while a sub-message runs, the stored id is that of the poll dispatched  *)
(* last, and that poll is marked executed.                                 *)
(***************************************************************************)
DispatchedIsExecuted == ~Idle => poll[executing].status = "Executed"

PollInv == IndexerAgrees /\ DispatchedIsExecuted

\* What a step may do to the polls: nothing to their statuses and deposits, add
\* one, or move one from a status to another.
PollsKept ==
  /\ DOMAIN poll' = DOMAIN poll /\ poll_indexer' = poll_indexer
  /\ \A q \in DOMAIN poll : /\ poll'[q].status = poll[q].status
                            /\ poll'[q].deposit_amount = poll[q].deposit_amount

PollAdded(a) ==
  /\ last_poll_id \notin DOMAIN poll
  /\ DOMAIN poll' = DOMAIN poll \cup {last_poll_id}
  /\ poll'[last_poll_id].status = "InProgress" /\ poll'[last_poll_id].deposit_amount = a
  /\ \A q \in DOMAIN poll : poll'[q] = poll[q]
  /\ poll_indexer' = [poll_indexer EXCEPT !["InProgress"] = @ \cup {last_poll_id}]

PollMoved(p, s, t) ==
  /\ poll[p].status = s /\ s # t
  /\ DOMAIN poll' = DOMAIN poll
  /\ poll'[p].status = t /\ poll'[p].deposit_amount = poll[p].deposit_amount
  /\ \A q \in DOMAIN poll \ {p} : poll'[q] = poll[q]
  /\ poll_indexer' = [poll_indexer EXCEPT ![s] = @ \ {p}, ![t] = @ \cup {p}]

LEMMA CreateAdds ==
  ASSUME TypeInv, NEW a \in Nat, NEW e, create_poll(a, e) PROVE PollAdded(a)
<1>1. DOMAIN poll = 1..(last_poll_id - 1) /\ last_poll_id \in Nat
  BY TypeParts DEF PollType
<1>2. last_poll_id \notin DOMAIN poll
  BY <1>1
<1>3. QED BY <1>2 DEF create_poll, PollAdded

LEMMA EndPollMoves ==
  ASSUME TypeInv, NEW p \in DOMAIN poll, end_poll(p)
  PROVE  poll[p].end_time <= now /\ \E t \in {"Passed", "Rejected"} : PollMoved(p, "InProgress", t)
<1>1. PollType /\ poll[p] \in Poll
  BY TypeParts, PollIds
<1>2. PICK t \in {"Passed", "Rejected"} :
        /\ poll' = [poll EXCEPT ![p].status = t, ![p].supply_snapshot = total_supply(p)]
        /\ poll_indexer' = [poll_indexer EXCEPT !["InProgress"] = @ \ {p}, ![t] = @ \cup {p}]
  BY DEF end_poll
<1>3. poll[p].status = "InProgress" /\ poll[p].end_time <= now
  BY DEF end_poll, CanEnd
<1>4. PollMoved(p, "InProgress", t)
  BY <1>1, <1>2, <1>3 DEF PollMoved, Poll
<1>5. QED BY <1>3, <1>4

LEMMA MarkExecutedMoves ==
  ASSUME TypeInv, NEW p \in DOMAIN poll, MarkExecuted(p)
  PROVE  poll[p].end_time + config.effective_delay <= now /\ PollMoved(p, "Passed", "Executed")
<1>1. poll[p] \in Poll
  BY TypeParts, PollIds
<1>2. QED BY <1>1 DEF MarkExecuted, CanExecute, PollMoved, Poll

LEMMA FailedMoves ==
  ASSUME TypeInv, PollInv, failed_poll
  PROVE  executing \in DOMAIN poll /\ PollMoved(executing, "Executed", "Failed")
<1>1. ~Idle
  BY DEF failed_poll
<1>2. executing \in DOMAIN poll /\ tmp_poll_id = executing
  BY <1>1, TypeParts DEF PollType, StoredIdCurrent, Idle
<1>3. poll[executing].status = "Executed" /\ poll[executing] \in Poll
  BY <1>1, <1>2, TypeParts, PollIds DEF PollInv, DispatchedIsExecuted
<1>4. QED BY <1>2, <1>3 DEF failed_poll, failed_index, PollMoved, Poll

LEMMA VoteKeeps ==
  ASSUME TypeInv, NEW u, NEW p \in DOMAIN poll, NEW v, NEW a,
         cast_vote(u, p, v, a) \/ snapshot_poll(p)
  PROVE  PollsKept
<1>1. \A q \in DOMAIN poll : poll[q] \in Poll
  BY TypeParts, PollIds
<1>2. QED BY <1>1, SMTT(30) DEF cast_vote, snapshot_poll, PollsKept, Poll

\* Steps that write no poll.
LEMMA UntouchedKeeps == UNCHANGED pollVars => PollsKept
  BY DEF pollVars, PollsKept

\* The index follows a poll that is added or moved.
LEMMA IndexFollows ==
  ASSUME TypeInv, IndexerAgrees,
         \/ PollsKept
         \/ \E a : PollAdded(a)
         \/ \E p \in DOMAIN poll, s, t \in PollStatus : PollMoved(p, s, t)
  PROVE  IndexerAgrees'
<1>1. DOMAIN poll_indexer = PollStatus
  BY TypeParts DEF PollType
<1>2. CASE PollsKept
  BY <1>2 DEF IndexerAgrees, PollsKept
<1>3. ASSUME NEW a, PollAdded(a) PROVE IndexerAgrees'
  BY <1>1, <1>3 DEF IndexerAgrees, PollAdded, PollStatus
<1>4. ASSUME NEW p \in DOMAIN poll, NEW s \in PollStatus, NEW t \in PollStatus, PollMoved(p, s, t)
      PROVE  IndexerAgrees'
  <2> SUFFICES ASSUME NEW x \in PollStatus
               PROVE  poll_indexer'[x] = {q \in DOMAIN poll' : poll'[q].status = x}
    BY DEF IndexerAgrees
  <2>1. poll_indexer[x] = {q \in DOMAIN poll : poll[q].status = x}
        /\ poll_indexer[s] = {q \in DOMAIN poll : poll[q].status = s}
        /\ poll_indexer[t] = {q \in DOMAIN poll : poll[q].status = t}
    BY DEF IndexerAgrees
  <2>2. CASE x = s
    BY <1>1, <1>4, <2>1, <2>2 DEF PollMoved
  <2>3. CASE x = t
    BY <1>1, <1>4, <2>1, <2>3 DEF PollMoved
  <2>4. CASE x # s /\ x # t
    BY <1>1, <1>4, <2>1, <2>4 DEF PollMoved
  <2>5. QED BY <2>2, <2>3, <2>4
<1>5. QED BY <1>2, <1>3, <1>4

\* The step of PollLifecycle.
LifecycleStep ==
  \A p \in DOMAIN poll :
    LET s == poll[p].status
        t == poll'[p].status
    IN  t # s => \/ s = "InProgress" /\ t \in {"Passed", "Rejected"}
                    /\ poll[p].end_time <= now
                 \/ s = "Passed" /\ t = "Executed"
                    /\ poll[p].end_time + config.effective_delay <= now
                 \/ s = "Executed" /\ t = "Failed" /\ executing = p

\* Between transactions, and after a step that ends one, nothing is dispatched.
LEMMA NothingDispatched == executing' = 0 => DispatchedIsExecuted'
  BY DEF DispatchedIsExecuted, Idle

LEMMA PollInvInit == Init => PollInv
  BY DEF Init, PollInv, IndexerAgrees, DispatchedIsExecuted, Idle

LEMMA PollInvStep ==
  ASSUME TypeInv, PollInv, [Next]_vars PROVE PollInv' /\ LifecycleStep
<1>0. IndexerAgrees
  BY DEF PollInv
<1>1. ASSUME PollsKept, executing' = 0 \/ (executing' = executing /\ poll' = poll)
      PROVE  PollInv' /\ LifecycleStep
  <2>1. DispatchedIsExecuted'
    BY <1>1, NothingDispatched DEF PollInv, DispatchedIsExecuted, Idle
  <2>2. LifecycleStep
    BY <1>1 DEF PollsKept, LifecycleStep
  <2>3. QED BY <1>0, <1>1, <2>1, <2>2, IndexFollows DEF PollInv
<1>2. ASSUME NEW a \in Nat, NEW e, create_poll(a, e) PROVE PollInv' /\ LifecycleStep
  <2>1. PollAdded(a) /\ executing' = 0
    BY <1>2, CreateAdds DEF create_poll, execVars, Idle
  <2>2. LifecycleStep
    BY <2>1 DEF PollAdded, LifecycleStep
  <2>3. QED BY <1>0, <2>1, <2>2, IndexFollows, NothingDispatched DEF PollInv
<1>3. ASSUME NEW p \in DOMAIN poll, end_poll(p) PROVE PollInv' /\ LifecycleStep
  <2>1. PICK t \in {"Passed", "Rejected"} : PollMoved(p, "InProgress", t)
    BY <1>3, EndPollMoves
  <2>2. executing' = 0
    BY <1>3 DEF end_poll, execVars, Idle
  <2>3. LifecycleStep
    BY <1>3, <2>1, EndPollMoves DEF LifecycleStep, PollMoved
  <2>4. IndexerAgrees'
    BY <1>0, <2>1, IndexFollows DEF PollStatus
  <2>5. QED BY <2>2, <2>3, <2>4, NothingDispatched DEF PollInv
<1>4. ASSUME NEW p \in DOMAIN poll, MarkExecuted(p) PROVE PollInv' /\ LifecycleStep
  <2>1. PollMoved(p, "Passed", "Executed") /\ executing' = p
    BY <1>4, MarkExecutedMoves DEF MarkExecuted
  <2>2. DispatchedIsExecuted'
    BY <2>1 DEF DispatchedIsExecuted, PollMoved
  <2>3. LifecycleStep
    BY <1>4, <2>1, MarkExecutedMoves DEF LifecycleStep, PollMoved
  <2>4. IndexerAgrees'
    BY <1>0, <2>1, IndexFollows DEF PollStatus
  <2>5. QED BY <2>2, <2>3, <2>4 DEF PollInv
<1>5. CASE failed_poll
  <2>1. executing \in DOMAIN poll /\ PollMoved(executing, "Executed", "Failed") /\ executing' = 0
    BY <1>5, FailedMoves DEF failed_poll
  <2>2. LifecycleStep
    BY <2>1 DEF LifecycleStep, PollMoved
  <2>3. IndexerAgrees'
    BY <1>0, <2>1, IndexFollows DEF PollStatus
  <2>4. QED BY <2>1, <2>2, <2>3, NothingDispatched DEF PollInv
<1>6. ASSUME NEW u, NEW p \in DOMAIN poll, NEW v, NEW a, cast_vote(u, p, v, a) \/ snapshot_poll(p)
      PROVE  PollInv' /\ LifecycleStep
  <2>1. executing' = 0
    BY <1>6 DEF cast_vote, snapshot_poll, execVars, Idle
  <2>2. QED BY <1>1, <1>6, <2>1, VoteKeeps
<1>7. ASSUME UNCHANGED pollVars, executing' = 0 \/ executing' = executing
      PROVE  PollInv' /\ LifecycleStep
  BY <1>1, <1>7, UntouchedKeeps DEF pollVars
<1>8. CASE \/ \E a \in MintAmounts : mint_xprism(a)
           \/ \E u \in Users, a \in RedeemAmounts : redeem_xprism(u, a)
           \/ \E u \in Users : claim_redeemed_prism(u)
           \/ \E u \in Users, a \in StakeAmounts : stake_voting_tokens(u, a)
           \/ \E u \in Users, a \in WithdrawAmounts : withdraw_voting_tokens(u, a)
           \/ \E u \in Users : withdraw_voting_tokens(u, deposit[u] - user_locked_balance(u))
           \/ SubmessageSucceeds
           \/ \E o \in Owners, c \in ConfigChoices : OwnerUpdatesConfig(o, c)
           \/ \E c \in ConfigChoices : SubmessageUpdatesConfig(c)
           \/ EndBlock
           \/ \E a \in FeeAmounts : PrismArrives(a)
           \/ \E a \in GiftAmounts : XprismArrives(a)
           \/ \E a \in BurnAmounts : HolderBurns(a)
           \/ UNCHANGED vars
  <2>1. UNCHANGED pollVars /\ (executing' = 0 \/ executing' = executing)
    BY <1>8 DEF mint_xprism, redeem_xprism, claim_redeemed_prism, stake_voting_tokens,
         withdraw_voting_tokens, SubmessageSucceeds, OwnerUpdatesConfig,
         SubmessageUpdatesConfig, EndBlock, PrismArrives, XprismArrives, HolderBurns, vars,
         execVars
  <2>2. QED BY <1>7, <2>1
<1>9. QED
  BY <1>2, <1>3, <1>4, <1>5, <1>6, <1>8, GovAssumption
  DEF Next, execute_poll, SubmessageExecutesPoll

LEMMA PollInvariant == Spec => []PollInv
<1>1. TypeInv /\ PollInv /\ [Next]_vars => PollInv'
  BY PollInvStep
<1>2. QED BY <1>1, PollInvInit, TypeInvariant, PTL DEF Spec

\* After every path through voting, execution, nested execution, failure and reply the
\* index lists each poll once, under its status.
THEOREM IndexFollowsStatus == Spec => []IndexerAgrees
<1>1. PollInv => IndexerAgrees
  BY DEF PollInv
<1>2. QED BY <1>1, PollInvariant, PTL

\* A poll is decided once and after its end, executed once and after the delay, and
\* marked failed only for its own sub-message, however polls execute polls.
THEOREM PollsDecidedOnce == Spec => PollLifecycle
<1>1. TypeInv /\ PollInv /\ [Next]_vars => [LifecycleStep]_vars
  BY PollInvStep
<1>2. QED
  BY <1>1, TypeInvariant, PollInvariant, PTL DEF Spec, PollLifecycle, LifecycleStep

-----------------------------------------------------------------------------
(***************************************************************************)
(* Custody of xPRISM.                                                      *)
(***************************************************************************)
Staked == SumFunctionOnSet(deposit, Users)
Proposed == SumFunctionOnSet([p \in DOMAIN poll |-> poll[p].deposit_amount], InProgress)

LEMMA UsersFinite == IsFiniteSet(Users)
  BY GovAssumption

LEMMA StakedNat == ASSUME BankType PROVE Staked \in Nat
<1>1. \A u \in Users : deposit[u] \in Nat
  BY DEF BankType
<1>2. QED BY <1>1, GovAssumption, SumNat DEF Staked

\* Staking and withdrawing change the sum of the deposits by as much as one deposit.
LEMMA StakedMoves ==
  ASSUME BankType, NEW u \in Users, NEW n \in Nat, deposit' = [deposit EXCEPT ![u] = n]
  PROVE  Staked' = Staked - deposit[u] + n
<1>1. deposit \in [Users -> Nat]
  BY DEF BankType
<1>2. SumFunctionOnSet([deposit EXCEPT ![u] = n], Users) = Staked - deposit[u] + n
  BY <1>1, UsersFinite, SumExcept DEF Staked
<1>3. QED BY <1>2 DEF Staked

LEMMA ProposedNat ==
  ASSUME PollType
  PROVE  /\ IsFiniteSet(DOMAIN poll) /\ IsFiniteSet(InProgress) /\ Proposed \in Nat
         /\ \A p \in DOMAIN poll : poll[p].deposit_amount \in Nat
<1>1. DOMAIN poll = 1..(last_poll_id - 1) /\ last_poll_id - 1 \in Int
  BY DEF PollType
<1>2. IsFiniteSet(DOMAIN poll) /\ InProgress \subseteq DOMAIN poll
  BY <1>1, FS_Interval DEF InProgress
<1>3. IsFiniteSet(InProgress)
  BY <1>2, FS_Subset
<1> DEFINE f == [p \in DOMAIN poll |-> poll[p].deposit_amount]
<1>4. \A p \in DOMAIN poll : poll[p].deposit_amount \in Nat
  BY PollIds DEF Poll
<1>5. \A p \in InProgress : f[p] \in Nat
  BY <1>2, <1>4
<1>6. Proposed = SumFunctionOnSet(f, InProgress)
  BY DEF Proposed
<1> HIDE DEF f
<1>7. QED BY <1>2, <1>3, <1>4, <1>5, <1>6, SumNat

\* The deposits of the undecided polls, when none is added or decided, ...
LEMMA ProposedKept ==
  ASSUME TypeInv,
         \/ PollsKept
         \/ \E p \in DOMAIN poll, s, t \in PollStatus \ {"InProgress"} : PollMoved(p, s, t)
  PROVE  Proposed' = Proposed
<1>1. PollType
  BY TypeParts
<1>2. DOMAIN poll' = DOMAIN poll /\ InProgress' = InProgress
      /\ \A p \in DOMAIN poll : poll'[p].deposit_amount = poll[p].deposit_amount
  BY DEF PollsKept, PollMoved, InProgress
<1>3. [p \in DOMAIN poll' |-> poll'[p].deposit_amount] = [p \in DOMAIN poll |-> poll[p].deposit_amount]
  BY <1>2
<1>4. QED BY <1>2, <1>3 DEF Proposed

\* ... when one is created, ...
LEMMA ProposedGrows ==
  ASSUME TypeInv, NEW a \in Nat, PollAdded(a) PROVE Proposed' = Proposed + a
<1>1. PollType
  BY TypeParts
<1> DEFINE f == [p \in DOMAIN poll |-> poll[p].deposit_amount]
           g == [p \in DOMAIN poll' |-> poll'[p].deposit_amount]
           k == last_poll_id
<1>2. InProgress' = InProgress \cup {k} /\ k \notin InProgress /\ InProgress \subseteq DOMAIN poll
  BY DEF PollAdded, InProgress
<1>3. g[k] = a /\ \A p \in InProgress : f[p] \in Nat /\ g[p] = f[p]
  BY <1>1, <1>2, ProposedNat DEF PollAdded
<1>4. Proposed = SumFunctionOnSet(f, InProgress) /\ Proposed' = SumFunctionOnSet(g, InProgress')
  BY DEF Proposed
<1>5. IsFiniteSet(InProgress) /\ IsFiniteSet(InProgress \cup {k})
  BY <1>1, ProposedNat, FS_AddElement
<1> HIDE DEF f, g, k
<1>6. \A p \in InProgress \cup {k} : g[p] \in Nat
  BY <1>3
<1>7. SumFunctionOnSet(g, InProgress \cup {k})
        = g[k] + SumFunctionOnSet(g, (InProgress \cup {k}) \ {k})
  BY <1>5, <1>6, SumRemove
<1>8. (InProgress \cup {k}) \ {k} = InProgress
  BY <1>2
<1>9. SumFunctionOnSet(g, InProgress) = SumFunctionOnSet(f, InProgress)
  BY <1>3, <1>5, SumEqual
<1>10. SumFunctionOnSet(f, InProgress) \in Nat
  BY <1>3, <1>5, SumNat
<1>11. Proposed' = SumFunctionOnSet(g, InProgress \cup {k})
  BY <1>2, <1>4
<1>12. SumFunctionOnSet(g, InProgress \cup {k}) = a + SumFunctionOnSet(f, InProgress)
  BY <1>3, <1>7, <1>8, <1>9
<1>13. QED BY <1>4, <1>10, <1>11, <1>12

\* ... and when one is decided.
LEMMA ProposedShrinks ==
  ASSUME TypeInv, NEW p \in DOMAIN poll, NEW t \in PollStatus, PollMoved(p, "InProgress", t)
  PROVE  Proposed' = Proposed - poll[p].deposit_amount
<1>1. PollType
  BY TypeParts
<1> DEFINE f == [q \in DOMAIN poll |-> poll[q].deposit_amount]
<1>2. InProgress' = InProgress \ {p} /\ p \in InProgress /\ InProgress \subseteq DOMAIN poll
  BY DEF PollMoved, InProgress
<1>3. \A q \in InProgress : f[q] \in Nat
  BY <1>1, <1>2, ProposedNat
<1>4. f = [q \in DOMAIN poll' |-> poll'[q].deposit_amount]
  BY DEF PollMoved
<1>5. Proposed = SumFunctionOnSet(f, InProgress) /\ Proposed' = SumFunctionOnSet(f, InProgress \ {p})
  BY <1>2, <1>4 DEF Proposed
<1>6. IsFiniteSet(InProgress) /\ f[p] = poll[p].deposit_amount /\ f[p] \in Nat
  BY <1>1, <1>2, <1>3, ProposedNat
<1> HIDE DEF f
<1>7. SumFunctionOnSet(f, InProgress) = f[p] + SumFunctionOnSet(f, InProgress \ {p})
  BY <1>2, <1>3, <1>6, SumRemove
<1>8. SumFunctionOnSet(f, InProgress \ {p}) \in Nat
  <2>1. IsFiniteSet(InProgress \ {p}) /\ \A q \in InProgress \ {p} : f[q] \in Nat
    BY <1>3, <1>6, FS_Subset
  <2>2. QED BY <2>1, SumNat
<1>9. QED BY <1>5, <1>6, <1>7, <1>8

\* The first half of XprismCustody, over named sums.
CustodySum == xprism_balance = Staked + pending_xprism + gifts + Proposed

LEMMA CustodyParts == XprismCustody <=> CustodySum /\ BalanceInSupply
  BY DEF XprismCustody, CustodySum, BalanceInSupply, Staked, Proposed

LEMMA CustodyPartsNext == XprismCustody' <=> CustodySum' /\ BalanceInSupply'
  BY DEF XprismCustody, CustodySum, BalanceInSupply, Staked, Proposed

\* The named sums of the next state are naturals as well.
LEMMA SumsNatNext == ASSUME BankType', PollType' PROVE Staked' \in Nat /\ Proposed' \in Nat
<1>1. (BankType /\ PollType => Staked \in Nat /\ Proposed \in Nat)'
  BY StakedNat, ProposedNat, PTL
<1>2. QED BY <1>1

LEMMA CustodyInit == Init => CustodySum
<1> SUFFICES ASSUME Init PROVE CustodySum
  OBVIOUS
<1>1. Staked = 0
  <2>1. \A u \in Users : deposit[u] = 0
    BY DEF Init
  <2>2. QED BY <2>1, GovAssumption, SumZero DEF Staked
<1>2. Proposed = 0
  <2>1. InProgress = {}
    BY DEF Init, InProgress
  <2>2. QED BY <2>1, SumPick, FS_EmptySet DEF Proposed
<1>3. QED BY <1>1, <1>2 DEF Init, CustodySum

LEMMA CustodyStep == ASSUME TypeInv, PollInv, CustodySum, [Next]_vars PROVE CustodySum'
<1>1. ConfigType /\ OrdersType /\ BankType /\ PollType /\ TokenType
  BY TypeParts
<1>2. /\ Staked \in Nat /\ Proposed \in Nat /\ pending_xprism \in Nat /\ gifts \in Nat
      /\ xprism_balance \in Nat /\ deposit \in [Users -> Nat]
      /\ xprism_balance = Staked + pending_xprism + gifts + Proposed
  BY <1>1, StakedNat, ProposedNat DEF TokenType, OrdersType, CustodySum, BankType
<1>3. ASSUME UNCHANGED deposit PROVE Staked' = Staked
  BY <1>3 DEF Staked
<1>4. ASSUME UNCHANGED poll PROVE Proposed' = Proposed
  BY <1>4 DEF Proposed, InProgress
<1>5. CASE UNCHANGED <<deposit, poll, xprism_balance, pending_xprism, gifts>>
  BY <1>2, <1>3, <1>4, <1>5 DEF CustodySum
<1>6. ASSUME NEW u \in Users, NEW a \in Nat, redeem_xprism(u, a) PROVE CustodySum'
  BY <1>2, <1>3, <1>4, <1>6 DEF CustodySum, redeem_xprism, bankVars, pollVars
<1>7. ASSUME NEW u \in Users, claim_redeemed_prism(u) PROVE CustodySum'
  <2>1. compute_withdrawable(u).xprism \in Nat
    BY <1>1, OrderSumNat DEF compute_withdrawable, WithdrawableOrders
  <2>2. pending_xprism' = pending_xprism - compute_withdrawable(u).xprism
        /\ xprism_balance' = xprism_balance - compute_withdrawable(u).xprism
        /\ UNCHANGED <<deposit, poll, gifts>>
    BY <1>7 DEF claim_redeemed_prism, bankVars, pollVars
  <2>3. QED BY <1>2, <1>3, <1>4, <2>1, <2>2 DEF CustodySum
<1>8. ASSUME NEW u \in Users, NEW a \in Nat, stake_voting_tokens(u, a) PROVE CustodySum'
  <2>1. deposit[u] \in Nat /\ deposit' = [deposit EXCEPT ![u] = deposit[u] + a]
        /\ xprism_balance' = xprism_balance + a
        /\ UNCHANGED <<pending_xprism, poll, gifts>>
    BY <1>2, <1>8 DEF stake_voting_tokens, orderVars, pollVars
  <2>2. PICK n \in Nat : n = deposit[u] + a
    BY <2>1
  <2>3. Staked' = Staked - deposit[u] + n
    BY <1>1, <2>1, <2>2, StakedMoves
  <2>4. QED BY <1>2, <1>4, <2>1, <2>2, <2>3 DEF CustodySum
<1>9. ASSUME NEW u \in Users, NEW a \in Int, withdraw_voting_tokens(u, a) PROVE CustodySum'
  <2>1. deposit[u] \in Nat /\ user_locked_balance(u) \in Nat
    BY <1>1, <1>2, LockedBalance
  <2>2. deposit[u] - a \in Nat /\ deposit' = [deposit EXCEPT ![u] = deposit[u] - a]
        /\ xprism_balance' = xprism_balance - a
        /\ UNCHANGED <<pending_xprism, poll, gifts>>
    BY <1>2, <1>9, <2>1 DEF withdraw_voting_tokens, orderVars, pollVars
  <2>3. PICK n \in Nat : n = deposit[u] - a
    BY <2>2
  <2>4. Staked' = Staked - deposit[u] + n
    BY <1>1, <2>2, <2>3, StakedMoves
  <2>5. QED BY <1>2, <1>4, <2>1, <2>2, <2>3, <2>4 DEF CustodySum
<1>10. ASSUME NEW u \in Users, withdraw_voting_tokens(u, deposit[u] - user_locked_balance(u))
       PROVE  CustodySum'
  <2>1. deposit[u] - user_locked_balance(u) \in Int
    BY <1>1, <1>2, LockedBalance
  <2>2. QED BY <1>9, <1>10, <2>1
<1>11. ASSUME NEW a \in Nat, NEW e, create_poll(a, e) PROVE CustodySum'
  <2>1. Proposed' = Proposed + a
    BY <1>11, CreateAdds, ProposedGrows
  <2>2. xprism_balance' = xprism_balance + a /\ UNCHANGED <<pending_xprism, deposit, gifts>>
    BY <1>11 DEF create_poll, orderVars, bankVars
  <2>3. QED BY <1>2, <1>3, <2>1, <2>2 DEF CustodySum
<1>12. ASSUME NEW p \in DOMAIN poll, end_poll(p) PROVE CustodySum'
  <2>1. PICK t \in PollStatus : PollMoved(p, "InProgress", t)
    BY <1>12, EndPollMoves DEF PollStatus
  <2>2. Proposed' = Proposed - poll[p].deposit_amount /\ poll[p].deposit_amount \in Nat
    BY <1>1, <2>1, ProposedShrinks, ProposedNat
  <2>3. xprism_balance' = xprism_balance - poll[p].deposit_amount
        /\ UNCHANGED <<pending_xprism, deposit, gifts>>
    BY <1>12 DEF end_poll, deposit_paid, orderVars, bankVars
  <2>4. QED BY <1>2, <1>3, <2>2, <2>3 DEF CustodySum
<1>13. ASSUME Proposed' = Proposed, UNCHANGED <<deposit, xprism_balance, pending_xprism, gifts>>
       PROVE  CustodySum'
  BY <1>2, <1>3, <1>13 DEF CustodySum
<1>14. ASSUME NEW p \in DOMAIN poll, MarkExecuted(p) PROVE CustodySum'
  <2>1. Proposed' = Proposed
    BY <1>14, MarkExecutedMoves, ProposedKept DEF PollStatus
  <2>2. QED BY <1>13, <1>14, <2>1 DEF MarkExecuted, orderVars, bankVars, tokenVars
<1>15. CASE failed_poll
  <2>1. Proposed' = Proposed
    BY <1>15, FailedMoves, ProposedKept DEF PollStatus
  <2>2. QED BY <1>13, <1>15, <2>1 DEF failed_poll, orderVars, bankVars, tokenVars
<1>16. ASSUME NEW u, NEW p \in DOMAIN poll, NEW v, NEW a, cast_vote(u, p, v, a) \/ snapshot_poll(p)
       PROVE  CustodySum'
  <2>1. Proposed' = Proposed
    BY <1>16, VoteKeeps, ProposedKept
  <2>2. QED BY <1>13, <1>16, <2>1 DEF cast_vote, snapshot_poll, orderVars, bankVars, tokenVars
<1>17. ASSUME NEW a \in Nat, XprismArrives(a) PROVE CustodySum'
  BY <1>2, <1>3, <1>4, <1>17 DEF CustodySum, XprismArrives, orderVars, bankVars, pollVars
<1>18. CASE \/ \E a \in MintAmounts : mint_xprism(a)
            \/ SubmessageSucceeds
            \/ \E o \in Owners, c \in ConfigChoices : OwnerUpdatesConfig(o, c)
            \/ \E c \in ConfigChoices : SubmessageUpdatesConfig(c)
            \/ EndBlock
            \/ \E a \in FeeAmounts : PrismArrives(a)
            \/ \E a \in BurnAmounts : HolderBurns(a)
            \/ UNCHANGED vars
  <2>1. UNCHANGED <<deposit, poll, xprism_balance, pending_xprism, gifts>>
    BY <1>18 DEF mint_xprism, SubmessageSucceeds, OwnerUpdatesConfig, SubmessageUpdatesConfig,
         EndBlock, PrismArrives, HolderBurns, vars, orderVars, bankVars, pollVars, tokenVars
  <2>2. QED BY <1>5, <2>1
<1>19. QED
  BY <1>6, <1>7, <1>8, <1>9, <1>10, <1>11, <1>12, <1>14, <1>15, <1>16, <1>17, <1>18,
     GovAssumption
  DEF Next, execute_poll, SubmessageExecutesPoll

LEMMA CustodyInvariant == Spec => []XprismCustody
<1>1. TypeInv /\ PollInv /\ CustodySum /\ [Next]_vars => CustodySum'
  BY CustodyStep
<1>2. TypeInv /\ CustodySum => XprismCustody
  BY CustodyParts DEF TypeInv
<1>3. QED BY <1>1, <1>2, CustodyInit, TypeInvariant, PollInvariant, PTL DEF Spec

\* The contract's xPRISM is exactly what it owes to stakers, proposers and redeemers, and
\* what was given to it, however staking, polls and redemptions interleave.
THEOREM XprismOwedIsHeld == Spec => []XprismCustody
  BY CustodyInvariant

-----------------------------------------------------------------------------
(***************************************************************************)
(* Custody of PRISM and the rate of xPRISM.  The pool never holds less     *)
(* PRISM than xPRISM: that makes every redemption payable and worth        *)
(* claiming, and it needs the xPRISM of the open redemptions to be held.   *)
(***************************************************************************)
\* What is promised to each user, by token.
PrismOf == [u \in Users |-> Total(u).prism]
XprismOf == [u \in Users |-> Total(u).xprism]

LEMMA PromisedNat == ASSUME OrdersType PROVE PrismOf \in [Users -> Nat] /\ XprismOf \in [Users -> Nat]
  BY OrderSumNat DEF PrismOf, XprismOf, Total

WholeSum(os) == OrderSum(os, DOMAIN os)

\* The orders of a user with one more.
WithOrder(os, e, a, r) ==
  [t \in DOMAIN os \cup {e} |-> IF t = e THEN [xprism |-> a, prism |-> r] ELSE os[t]]

LEMMA OrderAdded ==
  ASSUME NEW D, IsFiniteSet(D), NEW os \in [D -> Order], NEW e, e \notin D,
         NEW a \in Nat, NEW r \in Nat
  PROVE  /\ WholeSum(WithOrder(os, e, a, r)).xprism = WholeSum(os).xprism + a
         /\ WholeSum(WithOrder(os, e, a, r)).prism = WholeSum(os).prism + r
<1> DEFINE new == WithOrder(os, e, a, r)
           fx == [t \in D |-> os[t].xprism]
           fp == [t \in D |-> os[t].prism]
           gx == [t \in D \cup {e} |-> new[t].xprism]
           gp == [t \in D \cup {e} |-> new[t].prism]
<1>1. DOMAIN new = D \cup {e} /\ DOMAIN os = D
  BY DEF WithOrder
<1>2. gx[e] = a /\ gp[e] = r
  BY DEF WithOrder
<1>3. \A t \in D : /\ fx[t] \in Nat /\ gx[t] = fx[t]
                   /\ fp[t] \in Nat /\ gp[t] = fp[t]
  BY DEF Order, WithOrder
<1>4. /\ WholeSum(new).xprism = SumFunctionOnSet(gx, D \cup {e})
      /\ WholeSum(new).prism = SumFunctionOnSet(gp, D \cup {e})
      /\ WholeSum(os).xprism = SumFunctionOnSet(fx, D)
      /\ WholeSum(os).prism = SumFunctionOnSet(fp, D)
  BY <1>1, Zenon DEF OrderSum, WholeSum
<1> HIDE DEF new, fx, fp, gx, gp
<1>5. SumFunctionOnSet(gx, D \cup {e}) = SumFunctionOnSet(fx, D) + gx[e]
  <2>1. gx[e] \in Nat /\ \A t \in D : fx[t] \in Nat /\ gx[t] = fx[t]
    BY <1>2, <1>3
  <2>2. QED BY <2>1, SumExtend
<1>6. SumFunctionOnSet(gp, D \cup {e}) = SumFunctionOnSet(fp, D) + gp[e]
  <2>1. gp[e] \in Nat /\ \A t \in D : fp[t] \in Nat /\ gp[t] = fp[t]
    BY <1>2, <1>3
  <2>2. QED BY <2>1, SumExtend
<1>7. QED BY <1>2, <1>4, <1>5, <1>6 DEF new

\* The sums of a user's orders after some have left.
LEMMA OrdersRemoved ==
  ASSUME NEW D, IsFiniteSet(D), NEW os \in [D -> Order], NEW W, W \subseteq D
  PROVE  /\ WholeSum(Restrict(os, D \ W)).xprism = WholeSum(os).xprism - OrderSum(os, W).xprism
         /\ WholeSum(Restrict(os, D \ W)).prism = WholeSum(os).prism - OrderSum(os, W).prism
<1> DEFINE new == Restrict(os, D \ W)
           fx == [t \in D |-> os[t].xprism]
           fp == [t \in D |-> os[t].prism]
           gx == [t \in D \ W |-> new[t].xprism]
           gp == [t \in D \ W |-> new[t].prism]
<1>1. DOMAIN new = D \ W /\ DOMAIN os = D
  BY DEF Restrict
<1>2. /\ \A t \in D : fx[t] \in Nat /\ fp[t] \in Nat
      /\ \A t \in D \ W : gx[t] = fx[t] /\ gp[t] = fp[t]
  BY DEF Order, Restrict
<1>3. /\ WholeSum(new).xprism = SumFunctionOnSet(gx, D \ W)
      /\ WholeSum(new).prism = SumFunctionOnSet(gp, D \ W)
      /\ WholeSum(os).xprism = SumFunctionOnSet(fx, D)
      /\ WholeSum(os).prism = SumFunctionOnSet(fp, D)
      /\ OrderSum(os, W).xprism = SumFunctionOnSet(fx, W)
      /\ OrderSum(os, W).prism = SumFunctionOnSet(fp, W)
  BY <1>1, Zenon DEF OrderSum, WholeSum
<1> HIDE DEF new, fx, fp, gx, gp
<1>4. SumFunctionOnSet(gx, D \ W) = SumFunctionOnSet(fx, D) - SumFunctionOnSet(fx, W)
  <2>1. (\A t \in D : fx[t] \in Nat) /\ (\A t \in D \ W : gx[t] = fx[t])
    BY <1>2
  <2>2. QED BY <2>1, SumDrop
<1>5. SumFunctionOnSet(gp, D \ W) = SumFunctionOnSet(fp, D) - SumFunctionOnSet(fp, W)
  <2>1. (\A t \in D : fp[t] \in Nat) /\ (\A t \in D \ W : gp[t] = fp[t])
    BY <1>2
  <2>2. QED BY <2>1, SumDrop
<1>6. QED BY <1>3, <1>4, <1>5 DEF new

\* An exchange at the pool's rate, rounded down, takes no more than the pool allows.
LEMMA Exchange ==
  ASSUME NEW p \in Nat, NEW x \in Nat, x <= p, NEW a \in Nat, x > 0
  PROVE  /\ (a * p) \div x \in Nat /\ ((a * p) \div x) * x <= a * p
         /\ a <= (a * p) \div x
         /\ a <= x => (a * p) \div x <= p /\ p - (a * p) \div x >= x - a
<1> DEFINE r == (a * p) \div x
<1>1. a * p \in Nat
  OBVIOUS
<1>2. r \in Nat /\ r * x <= a * p /\ a * p < r * x + x
  BY <1>1, DivFacts
<1> HIDE DEF r
<1>3. a <= r
  <2>1. a * x <= a * p
    OBVIOUS
  <2>2. a * x < r * x + x
    BY <1>1, <1>2, <2>1
  <2>3. a * x < (r + 1) * x
    BY <1>2, <2>2
  <2>4. a < r + 1
    BY <1>2, <2>3, LessByFactor
  <2>5. QED BY <1>2, <2>4
<1>4. ASSUME a <= x PROVE r <= p /\ p - r >= x - a
  <2>1. PICK d \in Nat, c \in Nat : p = x + d /\ x = a + c
    BY <1>4
  <2>2. r * x <= a * x + a * d
    <3>1. a * p = a * x + a * d
      BY <2>1
    <3>2. QED BY <1>2, <3>1
  <2>3. a * d <= x * d
    BY <1>4, <2>1
  <2>4. r * x < (a + d + 1) * x
    <3>1. (a + d + 1) * x = a * x + d * x + x
      BY <2>1
    <3>2. d * x = x * d
      BY <2>1
    <3>3. QED BY <1>2, <2>1, <2>2, <2>3, <3>1, <3>2
  <2>5. r < a + d + 1
    BY <1>2, <2>1, <2>4, LessByFactor
  <2>6. QED BY <1>2, <2>1, <2>5
<1>5. QED BY <1>2, <1>3, <1>4 DEF r

ExchangeInv == PrismCustody /\ OrdersWorthClaiming

RateStep ==
  (xprism_amt > 0 /\ xprism_amt' > 0) => prism_amt' * xprism_amt >= prism_amt * xprism_amt'

\* PrismCustody over named sums.
LEMMA PromisedSums ==
  /\ PrismCustody <=> /\ pending_prism = SumFunctionOnSet(PrismOf, Users)
                      /\ pending_xprism = SumFunctionOnSet(XprismOf, Users)
                      /\ pending_prism <= prism_balance
  /\ PrismCustody' <=> /\ pending_prism' = SumFunctionOnSet(PrismOf', Users)
                       /\ pending_xprism' = SumFunctionOnSet(XprismOf', Users)
                       /\ pending_prism' <= prism_balance'
  BY DEF PrismCustody, PrismOf, XprismOf

\* The holders' xPRISM is within the xPRISM of the pool: the rest waits to be burnt.
LEMMA PoolFacts ==
  ASSUME TypeInv, XprismCustody
  PROVE  circulating \in Nat /\ xprism_amt \in Nat /\ circulating <= xprism_amt
<1>1. BankType /\ PollType /\ TokenType /\ OrdersType
  BY TypeParts
<1>2. Staked \in Nat /\ Proposed \in Nat /\ CustodySum
  BY <1>1, StakedNat, ProposedNat, CustodyParts
<1>3. pending_xprism <= xprism_balance
  BY <1>1, <1>2 DEF CustodySum, TokenType, OrdersType
<1>4. QED BY <1>1, <1>3 DEF circulating, xprism_amt, TokenType, BalanceInSupply, OrdersType

LEMMA ExchangeInit == Init => ExchangeInv
<1> SUFFICES ASSUME Init PROVE ExchangeInv
  OBVIOUS
<1>1. \A u \in Users : DOMAIN orders[u] = {}
  BY DEF Init
<1>2. \A u \in Users : Total(u).prism = 0 /\ Total(u).xprism = 0
  BY <1>1, SumPick, FS_EmptySet DEF Total, OrderSum
<1>3. SumFunctionOnSet(PrismOf, Users) = 0 /\ SumFunctionOnSet(XprismOf, Users) = 0
  <2>1. \A u \in Users : PrismOf[u] = 0 /\ XprismOf[u] = 0
    BY <1>2 DEF PrismOf, XprismOf
  <2>2. QED BY <2>1, UsersFinite, SumZero
<1>4. PrismCustody
  BY <1>3, PromisedSums DEF Init
<1>5. OrdersWorthClaiming
  BY <1>1 DEF Init, OrdersWorthClaiming, prism_amt, xprism_amt
<1>6. QED BY <1>4, <1>5 DEF ExchangeInv

\* A step that touches neither orders nor pending amounts keeps PrismCustody if no
\* PRISM leaves.
LEMMA PromisesKept ==
  ASSUME TypeInv, TypeInv', PrismCustody, UNCHANGED orderVars, prism_balance' >= prism_balance
  PROVE  PrismCustody'
<1>1. OrdersType /\ TokenType /\ TokenType'
  BY TypeParts, TypePartsNext
<1>2. PrismOf' = PrismOf /\ XprismOf' = XprismOf
  BY DEF orderVars, PrismOf, XprismOf, Total
<1>3. QED BY <1>1, <1>2, PromisedSums DEF orderVars, OrdersType, TokenType

LEMMA MintExchange ==
  ASSUME TypeInv, TypeInv', XprismCustody, ExchangeInv, NEW a \in Nat, mint_xprism(a)
  PROVE  ExchangeInv' /\ RateStep
<1>1. OrdersType /\ TokenType
  BY TypeParts
<1>2. /\ prism_amt \in Nat /\ xprism_amt \in Nat /\ xprism_amt <= prism_amt
      /\ \A u \in Users : \A t \in DOMAIN orders[u] :
           orders[u][t].prism >= orders[u][t].xprism /\ orders[u][t].xprism > 0
  BY <1>1 DEF ExchangeInv, OrdersWorthClaiming, mint_xprism, prism_amt, xprism_amt, TokenType,
       OrdersType
<1>3. PICK m : m = xprism_to_mint(a)
  OBVIOUS
<1>4. /\ UNCHANGED orderVars
      /\ prism_balance' = prism_balance + a /\ xprism_supply' = xprism_supply + m
  BY <1>3 DEF mint_xprism
<1>5. m \in Nat /\ m <= a /\ (prism_amt # 0 => m * prism_amt <= a * xprism_amt)
  <2>1. CASE prism_amt = 0
    BY <1>3, <2>1 DEF xprism_to_mint
  <2>2. CASE prism_amt # 0
    <3>1. a * xprism_amt \in Nat /\ m = (a * xprism_amt) \div prism_amt
          /\ a * xprism_amt <= a * prism_amt
      BY <1>2, <1>3, <2>2 DEF xprism_to_mint
    <3>2. QED BY <1>2, <2>2, <3>1, DivFacts, DivMono
  <2>3. QED BY <2>1, <2>2
<1>6. prism_amt' = prism_amt + a /\ xprism_amt' = xprism_amt + m
  BY <1>1, <1>4, <1>5 DEF prism_amt, xprism_amt, orderVars, TokenType, OrdersType
<1>7. prism_balance' >= prism_balance
  BY <1>1, <1>4 DEF TokenType
<1>8. PrismCustody'
  BY <1>4, <1>7, PromisesKept DEF ExchangeInv
<1>9. OrdersWorthClaiming'
  <2>1. prism_amt' >= xprism_amt' /\ xprism_amt' >= 0
    BY <1>2, <1>5, <1>6
  <2>2. orders' = orders
    BY <1>4 DEF orderVars
  <2>3. QED BY <1>2, <2>1, <2>2 DEF OrdersWorthClaiming
<1>10. RateStep
  <2> SUFFICES ASSUME xprism_amt > 0
               PROVE  (prism_amt + a) * xprism_amt >= prism_amt * (xprism_amt + m)
    BY <1>6 DEF RateStep
  <2>1. prism_amt # 0 /\ m * prism_amt <= a * xprism_amt
    BY <1>2, <1>5
  <2>2. /\ (prism_amt + a) * xprism_amt = prism_amt * xprism_amt + a * xprism_amt
        /\ prism_amt * (xprism_amt + m) = prism_amt * xprism_amt + m * prism_amt
    BY <1>2, <1>5
  <2>3. a * xprism_amt \in Nat /\ m * prism_amt \in Nat /\ prism_amt * xprism_amt \in Nat
    BY <1>2, <1>5
  <2>4. QED BY <2>1, <2>2, <2>3
<1>11. QED BY <1>8, <1>9, <1>10 DEF ExchangeInv

\* One user's promises change by as much as the pending amounts.
LEMMA PromisesMove ==
  ASSUME OrdersType, PrismCustody, NEW u \in Users, NEW o, orders' = [orders EXCEPT ![u] = o],
         WholeSum(o).prism \in Nat, WholeSum(o).xprism \in Nat
  PROVE  /\ SumFunctionOnSet(PrismOf', Users)
              = pending_prism - Total(u).prism + WholeSum(o).prism
         /\ SumFunctionOnSet(XprismOf', Users)
              = pending_xprism - Total(u).xprism + WholeSum(o).xprism
<1>1. PrismOf \in [Users -> Nat] /\ XprismOf \in [Users -> Nat]
  BY PromisedNat
<1>2. /\ SumFunctionOnSet(PrismOf, Users) = pending_prism
      /\ SumFunctionOnSet(XprismOf, Users) = pending_xprism
  BY PromisedSums
<1>3. orders'[u] = o /\ \A v \in Users \ {u} : orders'[v] = orders[v]
  BY DEF OrdersType
<1>4. /\ PrismOf' = [PrismOf EXCEPT ![u] = WholeSum(o).prism]
      /\ XprismOf' = [XprismOf EXCEPT ![u] = WholeSum(o).xprism]
  <2>1. \A v \in Users : Total(v)' = IF v = u THEN WholeSum(o) ELSE Total(v)
    BY <1>3 DEF Total, WholeSum
  <2>2. QED BY <2>1 DEF PrismOf, XprismOf
<1>5. PrismOf[u] = Total(u).prism /\ XprismOf[u] = Total(u).xprism
  BY DEF PrismOf, XprismOf
<1>6. \A f \in [Users -> Nat], n \in Nat :
        SumFunctionOnSet([f EXCEPT ![u] = n], Users) = SumFunctionOnSet(f, Users) - f[u] + n
  BY UsersFinite, SumExcept
<1>7. QED BY <1>1, <1>2, <1>4, <1>5, <1>6

LEMMA RedeemExchange ==
  ASSUME TypeInv, XprismCustody, ExchangeInv, NEW u \in Users, NEW a \in Nat \ {0},
         redeem_xprism(u, a)
  PROVE  ExchangeInv' /\ RateStep
<1>1. OrdersType /\ TokenType
  BY TypeParts
<1>2. /\ prism_amt \in Nat /\ xprism_amt \in Nat /\ xprism_amt <= prism_amt /\ xprism_amt > 0
      /\ \A v \in Users : \A t \in DOMAIN orders[v] :
           orders[v][t].prism >= orders[v][t].xprism /\ orders[v][t].xprism > 0
  BY <1>1 DEF ExchangeInv, OrdersWorthClaiming, redeem_xprism, prism_amt, xprism_amt, TokenType,
       OrdersType
<1>3. PICK r : r = (a * prism_amt) \div xprism_amt
  OBVIOUS
<1>4. a <= xprism_amt
  BY PoolFacts DEF redeem_xprism
<1>5. /\ r \in Nat /\ r * xprism_amt <= a * prism_amt /\ a <= r
      /\ r <= prism_amt /\ prism_amt - r >= xprism_amt - a
  BY <1>2, <1>3, <1>4, Exchange
<1> DEFINE e == now + config.redemption_time
           D == DOMAIN orders[u]
           o == WithOrder(orders[u], e, a, r)
<1>6. /\ orders' = [orders EXCEPT ![u] = o] /\ e \notin D
      /\ pending_xprism' = pending_xprism + a /\ pending_prism' = pending_prism + r
      /\ UNCHANGED <<prism_balance, xprism_supply>>
  BY <1>3 DEF redeem_xprism, prism_to_return, WithOrder
<1>7. prism_amt' = prism_amt - r /\ xprism_amt' = xprism_amt - a
  BY <1>1, <1>5, <1>6 DEF prism_amt, xprism_amt, TokenType, OrdersType
<1>8. /\ WholeSum(o).xprism = Total(u).xprism + a /\ WholeSum(o).prism = Total(u).prism + r
      /\ Total(u).xprism \in Nat /\ Total(u).prism \in Nat
  <2>1. IsFiniteSet(D) /\ orders[u] \in [D -> Order]
    BY <1>1 DEF OrdersType
  <2>2. Total(u) = WholeSum(orders[u])
    BY DEF Total, WholeSum
  <2>3. Total(u).xprism \in Nat /\ Total(u).prism \in Nat
    BY <1>1, OrderSumNat DEF Total
  <2> HIDE DEF e
  <2>4. QED BY <1>5, <1>6, <2>1, <2>2, <2>3, OrderAdded
<1>9. PrismCustody'
  <2>1. PrismCustody
    BY DEF ExchangeInv
  <2> HIDE DEF o
  <2>2. WholeSum(o).prism \in Nat /\ WholeSum(o).xprism \in Nat
    BY <1>5, <1>8
  <2>3. /\ SumFunctionOnSet(PrismOf', Users) = pending_prism - Total(u).prism + WholeSum(o).prism
        /\ SumFunctionOnSet(XprismOf', Users)
             = pending_xprism - Total(u).xprism + WholeSum(o).xprism
    BY <1>1, <1>6, <2>1, <2>2, PromisesMove
  <2>4. /\ pending_prism' = SumFunctionOnSet(PrismOf', Users)
        /\ pending_xprism' = SumFunctionOnSet(XprismOf', Users)
    BY <1>1, <1>5, <1>6, <1>8, <2>3 DEF OrdersType
  <2>5. pending_prism' <= prism_balance'
    BY <1>1, <1>5, <1>6 DEF prism_amt, OrdersType, TokenType
  <2>6. QED BY <2>4, <2>5, PromisedSums
<1>10. OrdersWorthClaiming'
  <2>1. prism_amt' >= xprism_amt' /\ xprism_amt' >= 0
    BY <1>2, <1>4, <1>5, <1>7
  <2>2. \A v \in Users : \A t \in DOMAIN orders'[v] :
          orders'[v][t].prism >= orders'[v][t].xprism /\ orders'[v][t].xprism > 0
    <3> SUFFICES ASSUME NEW v \in Users, NEW t \in DOMAIN orders'[v]
                 PROVE  orders'[v][t].prism >= orders'[v][t].xprism /\ orders'[v][t].xprism > 0
      OBVIOUS
    <3>1. CASE v = u
      <4>1. orders'[v] = o
        BY <1>1, <1>6, <3>1 DEF OrdersType
      <4>2. CASE t = e
        BY <1>5, <4>1, <4>2 DEF WithOrder
      <4>3. CASE t # e
        BY <1>2, <4>1, <4>3 DEF WithOrder
      <4>4. QED BY <4>2, <4>3
    <3>2. CASE v # u
      <4>1. orders'[v] = orders[v]
        BY <1>1, <1>6, <3>2 DEF OrdersType
      <4>2. QED BY <1>2, <4>1
    <3>3. QED BY <3>1, <3>2
  <2>3. QED BY <2>1, <2>2 DEF OrdersWorthClaiming
<1>11. RateStep
  <2> SUFFICES (prism_amt - r) * xprism_amt >= prism_amt * (xprism_amt - a)
    BY <1>7 DEF RateStep
  <2>1. /\ (prism_amt - r) * xprism_amt = prism_amt * xprism_amt - r * xprism_amt
        /\ prism_amt * (xprism_amt - a) = prism_amt * xprism_amt - a * prism_amt
    BY <1>2, <1>5
  <2>2. a * prism_amt \in Nat /\ r * xprism_amt \in Nat /\ prism_amt * xprism_amt \in Nat
    BY <1>2, <1>5
  <2>3. QED BY <1>5, <2>1, <2>2
<1>12. QED BY <1>9, <1>10, <1>11 DEF ExchangeInv

LEMMA ClaimExchange ==
  ASSUME TypeInv, ExchangeInv, NEW u \in Users, claim_redeemed_prism(u)
  PROVE  ExchangeInv' /\ RateStep
<1>1. OrdersType /\ TokenType
  BY TypeParts
<1> DEFINE W == WithdrawableOrders(u)
           D == DOMAIN orders[u]
           o == Restrict(orders[u], D \ W)
           x == OrderSum(orders[u], W).xprism
           p == OrderSum(orders[u], W).prism
<1>2. W \subseteq D /\ x \in Nat /\ p \in Nat
  BY <1>1, OrderSumNat DEF WithdrawableOrders
<1>3. /\ orders' = [orders EXCEPT ![u] = o]
      /\ p <= pending_prism /\ p <= prism_balance
      /\ pending_xprism' = pending_xprism - x /\ pending_prism' = pending_prism - p
      /\ xprism_supply' = xprism_supply - x /\ prism_balance' = prism_balance - p
  BY DEF claim_redeemed_prism, compute_withdrawable
<1>4. /\ WholeSum(o).xprism = Total(u).xprism - x /\ WholeSum(o).prism = Total(u).prism - p
      /\ Total(u).xprism \in Nat /\ Total(u).prism \in Nat
      /\ WholeSum(o).xprism \in Nat /\ WholeSum(o).prism \in Nat
  <2>1. IsFiniteSet(D) /\ orders[u] \in [D -> Order]
    BY <1>1 DEF OrdersType
  <2>2. Total(u) = WholeSum(orders[u])
    BY DEF Total, WholeSum
  <2>3. Total(u).xprism \in Nat /\ Total(u).prism \in Nat
    BY <1>1, OrderSumNat DEF Total
  <2>4. WholeSum(o).xprism \in Nat /\ WholeSum(o).prism \in Nat
    <3>1. OrdersType' /\ orders'[u] = o
      BY <1>1, <1>3, ClaimType, TypePartsNext DEF OrdersType
    <3>2. IsFiniteSet(DOMAIN o) /\ o \in [DOMAIN o -> Order]
      BY <3>1 DEF OrdersType
    <3> DEFINE fx == [t \in DOMAIN o |-> o[t].xprism]
               fp == [t \in DOMAIN o |-> o[t].prism]
    <3>3. \A t \in DOMAIN o : fx[t] \in Nat /\ fp[t] \in Nat
      BY <3>2 DEF Order
    <3>4. WholeSum(o).xprism = SumFunctionOnSet(fx, DOMAIN o)
          /\ WholeSum(o).prism = SumFunctionOnSet(fp, DOMAIN o)
      BY DEF WholeSum, OrderSum
    <3> HIDE DEF fx, fp, o
    <3>5. QED BY <3>2, <3>3, <3>4, SumNat
  <2> HIDE DEF W
  <2>5. QED BY <1>2, <2>1, <2>2, <2>3, <2>4, OrdersRemoved
<1> HIDE DEF x, p, W
<1>5. PrismCustody'
  <2>1. PrismCustody
    BY DEF ExchangeInv
  <2> HIDE DEF o
  <2>2. /\ SumFunctionOnSet(PrismOf', Users) = pending_prism - Total(u).prism + WholeSum(o).prism
        /\ SumFunctionOnSet(XprismOf', Users)
             = pending_xprism - Total(u).xprism + WholeSum(o).xprism
    BY <1>1, <1>3, <1>4, <2>1, PromisesMove
  <2>3. /\ pending_prism' = SumFunctionOnSet(PrismOf', Users)
        /\ pending_xprism' = SumFunctionOnSet(XprismOf', Users)
    BY <1>1, <1>2, <1>3, <1>4, <2>2 DEF OrdersType
  <2>4. pending_prism' <= prism_balance'
    BY <1>1, <1>2, <1>3, <2>1 DEF PrismCustody, OrdersType, TokenType
  <2>5. QED BY <2>3, <2>4, PromisedSums
<1>6. prism_amt' = prism_amt /\ xprism_amt' = xprism_amt /\ prism_amt \in Int /\ xprism_amt \in Int
  BY <1>1, <1>2, <1>3 DEF prism_amt, xprism_amt, TokenType, OrdersType
<1>7. OrdersWorthClaiming'
  <2>1. \A v \in Users : DOMAIN orders'[v] \subseteq DOMAIN orders[v]
                         /\ \A t \in DOMAIN orders'[v] : orders'[v][t] = orders[v][t]
    BY <1>1, <1>3 DEF OrdersType, Restrict
  <2>2. QED BY <1>6, <2>1 DEF ExchangeInv, OrdersWorthClaiming
<1>8. RateStep
  BY <1>6 DEF RateStep
<1>9. QED BY <1>5, <1>7, <1>8 DEF ExchangeInv

LEMMA ProductsGrow ==
  ASSUME NEW p \in Nat, NEW q \in Nat, NEW x \in Nat, NEW y \in Nat, p <= q, y <= x
  PROVE  q * x >= p * y
<1>1. PICK d \in Nat, e \in Nat : q = p + d /\ x = y + e
  <2>1. q - p \in Nat /\ q = p + (q - p) /\ x - y \in Nat /\ x = y + (x - y)
    OBVIOUS
  <2>2. QED BY <2>1
<1>2. q * x = p * y + p * e + d * y + d * e
  BY <1>1
<1>3. p * y \in Nat /\ p * e \in Nat /\ d * y \in Nat /\ d * e \in Nat
  BY <1>1
<1>4. QED BY <1>2, <1>3

\* Steps that leave the order book alone, let PRISM only arrive and create no xPRISM.
LEMMA OtherExchange ==
  ASSUME TypeInv, TypeInv', XprismCustody', ExchangeInv, UNCHANGED orderVars,
         prism_balance' >= prism_balance, xprism_supply' <= xprism_supply
  PROVE  ExchangeInv' /\ RateStep
<1>1. OrdersType /\ TokenType /\ OrdersType' /\ TokenType'
  BY TypeParts, TypePartsNext
<1>2. PrismCustody'
  BY PromisesKept DEF ExchangeInv
<1>3. xprism_amt' \in Nat
  <2>1. BankType' /\ PollType'
    BY TypePartsNext
  <2>2. CustodySum' /\ BalanceInSupply' /\ Staked' \in Nat /\ Proposed' \in Nat
    BY <2>1, CustodyPartsNext, SumsNatNext
  <2>3. QED BY <1>1, <2>2 DEF CustodySum, BalanceInSupply, xprism_amt, TokenType, OrdersType
<1>4. /\ xprism_amt \in Nat /\ prism_amt \in Nat /\ prism_amt' \in Nat
      /\ xprism_amt' <= xprism_amt /\ prism_amt <= prism_amt' /\ xprism_amt <= prism_amt
  <2>1. prism_amt >= xprism_amt /\ xprism_amt >= 0
    BY DEF ExchangeInv, OrdersWorthClaiming
  <2>2. xprism_amt \in Int /\ prism_amt \in Int /\ prism_amt' \in Int
        /\ xprism_amt' <= xprism_amt /\ prism_amt <= prism_amt'
    BY <1>1 DEF prism_amt, xprism_amt, TokenType, OrdersType, orderVars
  <2>3. QED BY <2>1, <2>2
<1>5. OrdersWorthClaiming'
  <2>1. prism_amt' >= xprism_amt' /\ xprism_amt' >= 0
    BY <1>3, <1>4
  <2>2. QED BY <2>1 DEF ExchangeInv, OrdersWorthClaiming, orderVars
<1>6. RateStep
  BY <1>3, <1>4, ProductsGrow DEF RateStep
<1>7. QED BY <1>2, <1>5, <1>6 DEF ExchangeInv

LEMMA ExchangeStep ==
  ASSUME TypeInv, TypeInv', XprismCustody, XprismCustody', ExchangeInv, [Next]_vars
  PROVE  ExchangeInv' /\ RateStep
<1>1. ASSUME NEW a \in MintAmounts, mint_xprism(a) PROVE ExchangeInv' /\ RateStep
  BY <1>1, MintExchange, GovAssumption
<1>2. ASSUME NEW u \in Users, NEW a \in RedeemAmounts, redeem_xprism(u, a)
      PROVE  ExchangeInv' /\ RateStep
  BY <1>2, RedeemExchange, GovAssumption
<1>3. ASSUME NEW u \in Users, claim_redeemed_prism(u) PROVE ExchangeInv' /\ RateStep
  BY <1>3, ClaimExchange
<1>4. TokenType /\ PollType
  BY TypeParts
<1>5. ASSUME UNCHANGED <<orderVars, prism_balance, xprism_supply>>
      PROVE  ExchangeInv' /\ RateStep
  BY <1>4, <1>5, OtherExchange DEF TokenType
<1>6. ASSUME NEW p \in DOMAIN poll, end_poll(p) PROVE ExchangeInv' /\ RateStep
  <2>1. poll[p].deposit_amount \in Nat
    BY <1>4, ProposedNat
  <2>2. UNCHANGED <<orderVars, prism_balance>> /\ xprism_supply' <= xprism_supply
    BY <1>4, <1>6, <2>1 DEF end_poll, deposit_paid, TokenType
  <2>3. QED BY <1>4, <2>2, OtherExchange DEF TokenType
<1>7. ASSUME NEW a \in FeeAmounts, PrismArrives(a) PROVE ExchangeInv' /\ RateStep
  BY <1>4, <1>7, OtherExchange, GovAssumption DEF PrismArrives, TokenType
<1>8. ASSUME NEW a \in BurnAmounts, HolderBurns(a) PROVE ExchangeInv' /\ RateStep
  BY <1>4, <1>8, OtherExchange, GovAssumption DEF HolderBurns, TokenType
<1>9. CASE \/ \E u \in Users, a \in StakeAmounts : stake_voting_tokens(u, a)
           \/ \E u \in Users, a \in WithdrawAmounts : withdraw_voting_tokens(u, a)
           \/ \E u \in Users : withdraw_voting_tokens(u, deposit[u] - user_locked_balance(u))
           \/ \E a \in DepositAmounts, e \in ExecuteMsgs : create_poll(a, e)
           \/ \E p \in DOMAIN poll : execute_poll(p)
           \/ SubmessageSucceeds
           \/ SubmessageExecutesPoll
           \/ failed_poll
           \/ \E u \in Users, p \in DOMAIN poll, v \in VoteOption, a \in VoteAmounts :
                cast_vote(u, p, v, a)
           \/ \E p \in DOMAIN poll : snapshot_poll(p)
           \/ \E o \in Owners, c \in ConfigChoices : OwnerUpdatesConfig(o, c)
           \/ \E c \in ConfigChoices : SubmessageUpdatesConfig(c)
           \/ EndBlock
           \/ \E a \in GiftAmounts : XprismArrives(a)
           \/ UNCHANGED vars
  <2>1. UNCHANGED <<orderVars, prism_balance, xprism_supply>>
    BY <1>9, ZenonT(40) DEF stake_voting_tokens, withdraw_voting_tokens, create_poll, execute_poll,
         MarkExecuted, SubmessageSucceeds, SubmessageExecutesPoll, failed_poll, cast_vote,
         snapshot_poll, OwnerUpdatesConfig, SubmessageUpdatesConfig, EndBlock, XprismArrives,
         vars, tokenVars
  <2>2. QED BY <1>5, <2>1
<1>10. QED
  BY <1>1, <1>2, <1>3, <1>6, <1>7, <1>8, <1>9 DEF Next

LEMMA ExchangeInvariant == Spec => []ExchangeInv
<1>1. TypeInv /\ TypeInv' /\ XprismCustody /\ XprismCustody' /\ ExchangeInv /\ [Next]_vars
        => ExchangeInv'
  BY ExchangeStep
<1>2. QED BY <1>1, ExchangeInit, TypeInvariant, CustodyInvariant, PTL DEF Spec

\* The recorded promises are the open orders, and the contract holds at least their PRISM.
THEOREM RedemptionsPayable == Spec => []PrismCustody
<1>1. ExchangeInv => PrismCustody
  BY DEF ExchangeInv
<1>2. QED BY <1>1, ExchangeInvariant, PTL

\* The pool never holds less PRISM than xPRISM, so every order is worth at least its
\* xPRISM and none is a transfer of zero that would block the claim.
THEOREM RedemptionsWorthClaiming == Spec => []OrdersWorthClaiming
<1>1. ExchangeInv => OrdersWorthClaiming
  BY DEF ExchangeInv
<1>2. QED BY <1>1, ExchangeInvariant, PTL

\* Whatever the holders, the voters and the fees do, the PRISM behind one xPRISM of the
\* pool never falls: rounding favours those who stay.
THEOREM XprismOnlyAppreciates == Spec => RateNeverFalls
<1>1. TypeInv /\ TypeInv' /\ XprismCustody /\ XprismCustody' /\ ExchangeInv /\ [Next]_vars
        => [RateStep]_vars
  BY ExchangeStep
<1>2. QED
  BY <1>1, TypeInvariant, CustodyInvariant, ExchangeInvariant, PTL
  DEF Spec, RateNeverFalls, RateStep

-----------------------------------------------------------------------------
(***************************************************************************)
(* Votes.  Besides VotesBacked, the locks and the voters' lists name only  *)
(* polls that exist, so that a new poll starts without votes.              *)
(***************************************************************************)
LocksNamePolls ==
  /\ \A u \in Users : \A l \in locked_balance[u] : l.poll_id \in DOMAIN poll
  /\ \A p \in 1..MaxPolls : p \notin DOMAIN poll => poll_voter[p] = {}

VotesInv == VotesBacked /\ LocksNamePolls

\* The locks of a user on one option of a poll, and the weight of a set of locks.
LocksOn(u, p, o) == {k \in locked_balance[u] : k.poll_id = p /\ k.vote = o}
Weight(L) == SumFunction([l \in L |-> l.balance])

LEMMA VotesForIs == \A p, o : VotesFor(p, o) = [u \in Users |-> Weight(LocksOn(u, p, o))]
  BY DEF VotesFor, Weight, LocksOn

LEMMA WeightFacts ==
  ASSUME NEW L, IsFiniteSet(L), \A l \in L : l.balance \in Nat
  PROVE  /\ Weight(L) \in Nat
         /\ \A k : k \notin L /\ k.balance \in Nat => Weight(L \cup {k}) = Weight(L) + k.balance
         /\ L = {} => Weight(L) = 0
<1> DEFINE f == [l \in L |-> l.balance]
<1>1. (\A l \in L : f[l] \in Nat) /\ DOMAIN f = L
  OBVIOUS
<1>2. Weight(L) = SumFunctionOnSet(f, L)
  BY <1>1 DEF Weight, SumFunction
<1>3. ASSUME NEW k, k \notin L, k.balance \in Nat
      PROVE  Weight(L \cup {k}) = Weight(L) + k.balance
  <2> DEFINE h == [l \in L \cup {k} |-> l.balance]
  <2>1. DOMAIN h = L \cup {k} /\ h[k] = k.balance /\ \A l \in L : f[l] \in Nat /\ h[l] = f[l]
    BY <1>1
  <2>2. Weight(L \cup {k}) = SumFunctionOnSet(h, L \cup {k})
    BY <2>1 DEF Weight, SumFunction
  <2> HIDE DEF h, f
  <2>3. h[k] \in Nat /\ \A l \in L : f[l] \in Nat /\ h[l] = f[l]
    BY <1>3, <2>1
  <2>4. SumFunctionOnSet(h, L \cup {k}) = SumFunctionOnSet(f, L) + h[k]
    BY <1>3, <2>3, SumExtend, ZenonT(40)
  <2>5. QED BY <1>2, <2>1, <2>2, <2>4
<1> HIDE DEF f
<1>4. Weight(L) \in Nat
  BY <1>1, <1>2, SumNat
<1>5. L = {} => Weight(L) = 0
  BY <1>2, SumPick, FS_EmptySet
<1>6. QED BY <1>3, <1>4, <1>5

LEMMA VotesForNat ==
  ASSUME BankType
  PROVE  \A p, o : VotesFor(p, o) \in [Users -> Nat]
<1> SUFFICES ASSUME NEW p, NEW o PROVE VotesFor(p, o) \in [Users -> Nat]
  OBVIOUS
<1>1. \A u \in Users : Weight(LocksOn(u, p, o)) \in Nat
  <2> SUFFICES ASSUME NEW u \in Users PROVE Weight(LocksOn(u, p, o)) \in Nat
    OBVIOUS
  <2>1. IsFiniteSet(LocksOn(u, p, o)) /\ LocksOn(u, p, o) \subseteq Lock
    BY FS_Subset DEF BankType, LocksFinite, LocksOn
  <2>2. \A l \in LocksOn(u, p, o) : l.balance \in Nat
    BY <2>1 DEF Lock
  <2>3. QED BY <2>1, <2>2, WeightFacts
<1>2. QED BY <1>1, VotesForIs

LEMMA VotesInit == Init => VotesInv
  BY DEF Init, VotesInv, VotesBacked, LocksNamePolls, InProgress

\* Steps that write neither locks nor voters nor the votes of a poll that stays open.
LEMMA VotesKept ==
  ASSUME VotesInv, UNCHANGED <<locked_balance, poll_voter>>, DOMAIN poll' = DOMAIN poll,
         \A p \in InProgress' : p \in InProgress /\ poll'[p].votes = poll[p].votes,
         \A u \in Users : deposit[u] \in Nat /\ deposit'[u] \in Nat /\ deposit'[u] >= deposit[u],
         BankType
  PROVE  VotesInv'
<1>1. \A p, o : VotesFor(p, o)' = VotesFor(p, o)
  BY DEF VotesFor
<1>2. LocksNamePolls'
  BY DEF VotesInv, LocksNamePolls
<1>3. VotesBacked'
  <2> SUFFICES ASSUME NEW p \in InProgress'
               PROVE  /\ \A o \in VoteOption :
                           poll'[p].votes[o] = SumFunctionOnSet(VotesFor(p, o)', Users)
                      /\ \A u \in Users : \A l \in locked_balance'[u] :
                           l.poll_id = p => l.balance <= deposit'[u]
                      /\ \A u \in Users : \A l, m \in locked_balance'[u] :
                           l.poll_id = p /\ m.poll_id = p => l = m
                      /\ \A u \in Users : u \in poll_voter'[p]
                           <=> \E l \in locked_balance'[u] : l.poll_id = p
    BY DEF VotesBacked
  <2>1. p \in InProgress
    OBVIOUS
  <2>2. \A o \in VoteOption : poll'[p].votes[o] = SumFunctionOnSet(VotesFor(p, o)', Users)
    BY <1>1, <2>1 DEF VotesInv, VotesBacked
  <2>3. \A u \in Users : \A l \in locked_balance'[u] : l.poll_id = p => l.balance <= deposit'[u]
    <3>1. \A u \in Users : \A l \in locked_balance[u] :
            l.poll_id = p => l.balance <= deposit[u] /\ l.balance \in Nat
      BY <2>1 DEF VotesInv, VotesBacked, BankType, Lock
    <3>2. QED BY <3>1
  <2>4. /\ \A u \in Users : u \in poll_voter'[p] <=> \E l \in locked_balance'[u] : l.poll_id = p
        /\ \A u \in Users : \A l, m \in locked_balance'[u] :
             l.poll_id = p /\ m.poll_id = p => l = m
    BY <2>1 DEF VotesInv, VotesBacked
  <2>5. QED BY <2>2, <2>3, <2>4
<1>4. QED BY <1>2, <1>3 DEF VotesInv

LEMMA CreateVotes ==
  ASSUME TypeInv, VotesInv, NEW a \in Nat, NEW e, create_poll(a, e) PROVE VotesInv'
<1>1. BankType /\ PollType
  BY TypeParts
<1>2. PollAdded(a) /\ UNCHANGED <<deposit, locked_balance, poll_voter>>
      /\ poll'[last_poll_id].votes = [o \in VoteOption |-> 0] /\ last_poll_id \in 1..MaxPolls
  <2>1. PollAdded(a)
    BY CreateAdds
  <2>2. last_poll_id \in 1..MaxPolls
    BY <1>1, GovAssumption DEF create_poll, PollType
  <2>3. QED BY <2>1, <2>2 DEF create_poll, bankVars
<1>3. \A p, o : VotesFor(p, o)' = VotesFor(p, o)
  BY <1>2 DEF VotesFor
<1>4. LocksNamePolls'
  BY <1>2 DEF VotesInv, LocksNamePolls, PollAdded
<1>5. VotesBacked'
  <2> SUFFICES ASSUME NEW p \in InProgress'
               PROVE  /\ \A o \in VoteOption :
                           poll'[p].votes[o] = SumFunctionOnSet(VotesFor(p, o)', Users)
                      /\ \A u \in Users : \A l \in locked_balance'[u] :
                           l.poll_id = p => l.balance <= deposit'[u]
                      /\ \A u \in Users : \A l, m \in locked_balance'[u] :
                           l.poll_id = p /\ m.poll_id = p => l = m
                      /\ \A u \in Users : u \in poll_voter'[p]
                           <=> \E l \in locked_balance'[u] : l.poll_id = p
    BY DEF VotesBacked
  <2>1. CASE p = last_poll_id
    <3>1. \A u \in Users : (\A l \in locked_balance[u] : l.poll_id # p)
      BY <1>2, <2>1 DEF VotesInv, LocksNamePolls, PollAdded
    <3>2. poll_voter[p] = {}
      BY <1>2, <2>1 DEF VotesInv, LocksNamePolls, PollAdded
    <3>3. ASSUME NEW o \in VoteOption PROVE SumFunctionOnSet(VotesFor(p, o), Users) = 0
      <4>1. \A u \in Users : LocksOn(u, p, o) = {}
        BY <3>1 DEF LocksOn
      <4>2. \A u \in Users : VotesFor(p, o)[u] = 0
        BY <4>1, VotesForIs, WeightFacts, FS_EmptySet
      <4>3. QED BY <4>2, UsersFinite, SumZero
    <3>4. \A o \in VoteOption : poll'[p].votes[o] = 0
      BY <1>2, <2>1
    <3>5. QED BY <1>2, <1>3, <3>1, <3>2, <3>3, <3>4
  <2>2. CASE p # last_poll_id
    <3>1. p \in InProgress /\ poll'[p] = poll[p]
      BY <1>2, <2>2 DEF InProgress, PollAdded
    <3>2. QED BY <1>2, <1>3, <3>1 DEF VotesInv, VotesBacked
  <2>3. QED BY <2>1, <2>2
<1>6. QED BY <1>4, <1>5 DEF VotesInv

LEMMA CastVotes ==
  ASSUME TypeInv, VotesInv, NEW u \in Users, NEW p \in DOMAIN poll, NEW v \in VoteOption,
         NEW a \in Nat, cast_vote(u, p, v, a)
  PROVE  VotesInv'
<1>1. BankType /\ PollType /\ PollsKept /\ poll[p] \in Poll /\ p \in 1..MaxPolls
  BY TypeParts, VoteKeeps, PollIds
<1> DEFINE k == [poll_id |-> p, vote |-> v, balance |-> a]
<1>2. /\ locked_balance' = [locked_balance EXCEPT ![u] = @ \cup {k}]
      /\ poll_voter' = [poll_voter EXCEPT ![p] = @ \cup {u}]
      /\ UNCHANGED deposit /\ a <= deposit[u] /\ u \notin poll_voter[p]
      /\ p \in InProgress
  BY DEF cast_vote, HasVoted, InProgress
<1>3. k.poll_id = p /\ k.vote = v /\ k.balance = a
  OBVIOUS
<1>4. /\ \A q \in DOMAIN poll \ {p} : poll'[q] = poll[q]
      /\ poll'[p].votes = [poll[p].votes EXCEPT ![v] = @ + a]
      /\ poll[p].votes \in [VoteOption -> Nat]
  BY <1>1 DEF cast_vote, Poll
<1> HIDE DEF k
<1>5. InProgress' = InProgress
  BY <1>1 DEF PollsKept, InProgress
<1>6. /\ locked_balance'[u] = locked_balance[u] \cup {k}
      /\ \A x \in Users \ {u} : locked_balance'[x] = locked_balance[x]
      /\ poll_voter'[p] = poll_voter[p] \cup {u}
      /\ \A q \in (1..MaxPolls) \ {p} : poll_voter'[q] = poll_voter[q]
  BY <1>1, <1>2 DEF BankType
<1>7. \A l \in locked_balance[u] : l.poll_id # p
  BY <1>2 DEF VotesInv, VotesBacked
<1>8. LocksNamePolls'
  BY <1>1, <1>3, <1>6 DEF VotesInv, LocksNamePolls, PollsKept
<1>9. ASSUME NEW q \in InProgress, NEW o \in VoteOption
      PROVE  poll'[q].votes[o] = SumFunctionOnSet(VotesFor(q, o)', Users)
  <2>1. poll[q].votes[o] = SumFunctionOnSet(VotesFor(q, o), Users)
    BY <1>9 DEF VotesInv, VotesBacked
  <2>2. \A x \in Users \ {u} : LocksOn(x, q, o)' = LocksOn(x, q, o)
    BY <1>6 DEF LocksOn
  <2>3. CASE q = p /\ o = v
    <3>1. LocksOn(u, q, o) = {} /\ LocksOn(u, q, o)' = {} \cup {k}
      BY <1>3, <1>6, <1>7, <2>3 DEF LocksOn
    <3>2. Weight(LocksOn(u, q, o)) = 0 /\ Weight(LocksOn(u, q, o)') = a
      <4>1. Weight({}) = 0 /\ Weight({} \cup {k}) = Weight({}) + a
        BY <1>3, WeightFacts, FS_EmptySet
      <4>2. QED BY <3>1, <4>1
    <3>3. VotesFor(q, o)' = [VotesFor(q, o) EXCEPT ![u] = a] /\ VotesFor(q, o)[u] = 0
      BY <2>2, <3>2 DEF VotesFor, Weight, LocksOn
    <3>4. VotesFor(q, o) \in [Users -> Nat]
      BY <1>1, VotesForNat
    <3>5. SumFunctionOnSet(VotesFor(q, o)', Users)
            = SumFunctionOnSet(VotesFor(q, o), Users) - 0 + a
      <4>1. \A f \in [Users -> Nat] :
              SumFunctionOnSet([f EXCEPT ![u] = a], Users) = SumFunctionOnSet(f, Users) - f[u] + a
        BY UsersFinite, SumExcept, ZenonT(40)
      <4>2. QED BY <3>3, <3>4, <4>1
    <3>6. poll'[q].votes[o] = poll[q].votes[o] + a /\ poll[q].votes[o] \in Nat
      BY <1>4, <2>3
    <3>7. QED BY <2>1, <3>5, <3>6
  <2>4. CASE q # p \/ o # v
    <3>1. LocksOn(u, q, o)' = LocksOn(u, q, o)
      BY <1>3, <1>6, <2>4 DEF LocksOn
    <3>2. VotesFor(q, o)' = VotesFor(q, o)
      BY <2>2, <3>1 DEF VotesFor, LocksOn
    <3>3. poll'[q].votes[o] = poll[q].votes[o]
      BY <1>4, <1>9, <2>4 DEF InProgress
    <3>4. QED BY <2>1, <3>2, <3>3
  <2>5. QED BY <2>3, <2>4
<1>10. ASSUME NEW q \in InProgress, NEW x \in Users
       PROVE  /\ \A l \in locked_balance'[x] : l.poll_id = q => l.balance <= deposit'[x]
              /\ \A l, m \in locked_balance'[x] : l.poll_id = q /\ m.poll_id = q => l = m
              /\ x \in poll_voter'[q] <=> \E l \in locked_balance'[x] : l.poll_id = q
  <2>1. /\ \A l \in locked_balance[x] : l.poll_id = q => l.balance <= deposit[x]
        /\ \A l, m \in locked_balance[x] : l.poll_id = q /\ m.poll_id = q => l = m
        /\ x \in poll_voter[q] <=> \E l \in locked_balance[x] : l.poll_id = q
    BY <1>10 DEF VotesInv, VotesBacked
  <2>2. q \in 1..MaxPolls
    BY <1>1, <1>10, PollIds DEF InProgress
  <2>3. \A l \in locked_balance'[x] : l.poll_id = q => l.balance <= deposit'[x]
    <3>1. CASE x = u
      BY <1>2, <1>3, <1>6, <2>1, <3>1
    <3>2. CASE x # u
      BY <1>2, <1>6, <2>1, <3>2
    <3>3. QED BY <3>1, <3>2
  <2>4. x \in poll_voter'[q] <=> \E l \in locked_balance'[x] : l.poll_id = q
    <3>1. CASE x = u
      <4>1. (\E l \in locked_balance'[x] : l.poll_id = q)
              <=> (q = p \/ \E l \in locked_balance[x] : l.poll_id = q)
        BY <1>3, <1>6, <3>1
      <4>2. x \in poll_voter'[q] <=> (q = p \/ x \in poll_voter[q])
        BY <1>6, <2>2, <3>1
      <4>3. QED BY <2>1, <4>1, <4>2
    <3>2. CASE x # u
      <4>1. locked_balance'[x] = locked_balance[x]
        BY <1>6, <3>2
      <4>2. x \in poll_voter'[q] <=> x \in poll_voter[q]
        BY <1>6, <2>2, <3>2
      <4>3. QED BY <2>1, <4>1, <4>2
    <3>3. QED BY <3>1, <3>2
  <2>5. \A l, m \in locked_balance'[x] : l.poll_id = q /\ m.poll_id = q => l = m
    <3>1. CASE x = u
      BY <1>3, <1>6, <1>7, <2>1, <3>1
    <3>2. CASE x # u
      BY <1>6, <2>1, <3>2
    <3>3. QED BY <3>1, <3>2
  <2>6. QED BY <2>3, <2>4, <2>5
<1>11. VotesBacked'
  BY <1>5, <1>9, <1>10 DEF VotesBacked
<1>12. QED BY <1>8, <1>11 DEF VotesInv

LEMMA WithdrawVotes ==
  ASSUME TypeInv, VotesInv, NEW u \in Users, NEW a \in Int, withdraw_voting_tokens(u, a)
  PROVE  VotesInv'
<1>1. BankType /\ PollType
  BY TypeParts
<1>2. /\ a <= deposit[u] - user_locked_balance(u) /\ a > 0
      /\ deposit' = [deposit EXCEPT ![u] = @ - a]
      /\ locked_balance' = [locked_balance EXCEPT ![u] = LiveLocks(u)]
      /\ poll_voter' = [p \in DOMAIN poll_voter |->
                      IF \E l \in locked_balance[u] \ LiveLocks(u) : l.poll_id = p
                      THEN poll_voter[p] \ {u} ELSE poll_voter[p]]
      /\ poll' = poll
  BY DEF withdraw_voting_tokens, pollVars
<1>3. /\ user_locked_balance(u) \in Nat /\ deposit[u] \in Nat
      /\ \A l \in LiveLocks(u) : l.balance <= user_locked_balance(u) /\ l.balance \in Nat
      /\ LiveLocks(u) \subseteq locked_balance[u]
  BY <1>1, LockedBalance DEF BankType, Lock
<1>4. /\ locked_balance'[u] = LiveLocks(u) /\ deposit'[u] = deposit[u] - a
      /\ \A x \in Users \ {u} : locked_balance'[x] = locked_balance[x] /\ deposit'[x] = deposit[x]
      /\ InProgress' = InProgress
  BY <1>1, <1>2 DEF BankType, InProgress
<1>5. \A p \in InProgress : \A l \in locked_balance[u] : l.poll_id = p => l \in LiveLocks(u)
  BY DEF InProgress, LiveLocks
<1>6. \A p \in InProgress : poll_voter'[p] = poll_voter[p]
  <2>1. \A p \in InProgress : p \in DOMAIN poll_voter
    BY <1>1, PollIds DEF InProgress, BankType
  <2>2. QED BY <1>2, <1>5, <2>1
<1>7. LocksNamePolls'
  <2>1. \A x \in Users : \A l \in locked_balance'[x] : l.poll_id \in DOMAIN poll'
    <3>1. \A x \in Users : locked_balance'[x] \subseteq locked_balance[x]
      BY <1>3, <1>4
    <3>2. QED BY <1>2, <3>1 DEF VotesInv, LocksNamePolls
  <2>2. \A p \in 1..MaxPolls : p \notin DOMAIN poll' => poll_voter'[p] = {}
    <3>1. \A p \in 1..MaxPolls : poll_voter'[p] \subseteq poll_voter[p]
      BY <1>1, <1>2 DEF BankType
    <3>2. QED BY <1>2, <3>1 DEF VotesInv, LocksNamePolls
  <2>3. QED BY <2>1, <2>2 DEF LocksNamePolls
<1>8. ASSUME NEW p \in InProgress, NEW o \in VoteOption
      PROVE  poll'[p].votes[o] = SumFunctionOnSet(VotesFor(p, o)', Users)
  <2>1. \A x \in Users : LocksOn(x, p, o)' = LocksOn(x, p, o)
    BY <1>3, <1>4, <1>5 DEF LocksOn
  <2>2. VotesFor(p, o)' = VotesFor(p, o)
    BY <2>1 DEF VotesFor, LocksOn
  <2>3. QED BY <1>2, <2>2 DEF VotesInv, VotesBacked
<1>9. ASSUME NEW p \in InProgress, NEW x \in Users
      PROVE  /\ \A l \in locked_balance'[x] : l.poll_id = p => l.balance <= deposit'[x]
             /\ \A l, m \in locked_balance'[x] : l.poll_id = p /\ m.poll_id = p => l = m
             /\ x \in poll_voter'[p] <=> \E l \in locked_balance'[x] : l.poll_id = p
  <2>1. /\ \A l \in locked_balance[x] : l.poll_id = p => l.balance <= deposit[x]
        /\ \A l, m \in locked_balance[x] : l.poll_id = p /\ m.poll_id = p => l = m
        /\ x \in poll_voter[p] <=> \E l \in locked_balance[x] : l.poll_id = p
    BY <1>9 DEF VotesInv, VotesBacked
  <2>2. CASE x = u
    <3>1. \A l \in locked_balance'[x] : l.poll_id = p => l.balance <= deposit'[x]
      BY <1>2, <1>3, <1>4, <2>2
    <3>2. (\E l \in locked_balance'[x] : l.poll_id = p) <=> \E l \in locked_balance[x] : l.poll_id = p
      BY <1>3, <1>4, <1>5, <2>2
    <3>3. \A l, m \in locked_balance'[x] : l.poll_id = p /\ m.poll_id = p => l = m
      BY <1>3, <1>4, <2>1, <2>2
    <3>4. QED BY <1>6, <2>1, <3>1, <3>2, <3>3
  <2>3. CASE x # u
    BY <1>4, <1>6, <2>1, <2>3
  <2>4. QED BY <2>2, <2>3
<1>10. VotesBacked'
  BY <1>4, <1>8, <1>9 DEF VotesBacked
<1>11. QED BY <1>7, <1>10 DEF VotesInv

LEMMA VotesStep == ASSUME TypeInv, PollInv, VotesInv, [Next]_vars PROVE VotesInv'
<1>1. BankType /\ PollType
  BY TypeParts
<1>2. \A u \in Users : deposit[u] \in Nat
  BY <1>1 DEF BankType
<1>3. ASSUME UNCHANGED <<bankVars, poll_voter>>, DOMAIN poll' = DOMAIN poll,
             \A p \in InProgress' : p \in InProgress /\ poll'[p].votes = poll[p].votes
      PROVE  VotesInv'
  <2>1. UNCHANGED <<locked_balance, poll_voter>>
        /\ \A u \in Users : deposit[u] \in Nat /\ deposit'[u] \in Nat /\ deposit'[u] >= deposit[u]
    BY <1>2, <1>3 DEF bankVars
  <2>2. QED BY <1>1, <1>3, <2>1, VotesKept
<1>4. ASSUME NEW p \in DOMAIN poll, NEW s, NEW t, t # "InProgress", PollMoved(p, s, t),
             UNCHANGED <<bankVars, poll_voter>>
      PROVE  VotesInv'
  <2>1. DOMAIN poll' = DOMAIN poll
        /\ \A q \in InProgress' : q \in InProgress /\ poll'[q].votes = poll[q].votes
    BY <1>4 DEF PollMoved, InProgress
  <2>2. QED BY <1>3, <1>4, <2>1
<1>5. ASSUME NEW u \in Users, NEW a \in Nat, stake_voting_tokens(u, a) PROVE VotesInv'
  <2>1. UNCHANGED <<locked_balance, poll_voter, poll>>
        /\ \A x \in Users : deposit[x] \in Nat /\ deposit'[x] \in Nat /\ deposit'[x] >= deposit[x]
    BY <1>1, <1>5 DEF stake_voting_tokens, pollVars, BankType
  <2>2. DOMAIN poll' = DOMAIN poll
        /\ \A p \in InProgress' : p \in InProgress /\ poll'[p].votes = poll[p].votes
    BY <2>1 DEF InProgress
  <2>3. QED BY <1>1, <2>1, <2>2, VotesKept
<1>6. ASSUME NEW u \in Users, NEW a \in WithdrawAmounts, withdraw_voting_tokens(u, a)
      PROVE  VotesInv'
  <2>1. a \in Int
    BY GovAssumption
  <2>2. QED BY <1>6, <2>1, WithdrawVotes
<1>7. ASSUME NEW u \in Users, withdraw_voting_tokens(u, deposit[u] - user_locked_balance(u))
      PROVE  VotesInv'
  <2>1. deposit[u] - user_locked_balance(u) \in Int
    BY <1>1, <1>2, LockedBalance
  <2>2. QED BY <1>7, <2>1, WithdrawVotes
<1>8. ASSUME NEW a \in Nat, NEW e, create_poll(a, e) PROVE VotesInv'
  BY <1>8, CreateVotes
<1>9. ASSUME NEW p \in DOMAIN poll, end_poll(p) PROVE VotesInv'
  <2>1. UNCHANGED <<bankVars, poll_voter>>
    BY <1>9 DEF end_poll
  <2>2. PICK t \in {"Passed", "Rejected"} : PollMoved(p, "InProgress", t)
    BY <1>9, EndPollMoves
  <2>3. QED BY <1>4, <2>1, <2>2
<1>10. ASSUME NEW p \in DOMAIN poll, MarkExecuted(p) PROVE VotesInv'
  <2>1. UNCHANGED <<bankVars, poll_voter>>
    BY <1>10 DEF MarkExecuted
  <2>2. QED BY <1>4, <1>10, <2>1, MarkExecutedMoves
<1>11. CASE failed_poll
  <2>1. UNCHANGED <<bankVars, poll_voter>>
    BY <1>11 DEF failed_poll
  <2>2. QED BY <1>4, <1>11, <2>1, FailedMoves
<1>12. ASSUME NEW u \in Users, NEW p \in DOMAIN poll, NEW v \in VoteOption, NEW a \in Nat,
              cast_vote(u, p, v, a)
       PROVE  VotesInv'
  BY <1>12, CastVotes
<1>13. ASSUME NEW p \in DOMAIN poll, snapshot_poll(p) PROVE VotesInv'
  <2>1. DOMAIN poll' = DOMAIN poll
        /\ \A q \in DOMAIN poll : poll'[q].votes = poll[q].votes /\ poll'[q].status = poll[q].status
    <3>1. \A q \in DOMAIN poll : poll[q] \in Poll
      BY <1>1, PollIds
    <3>2. QED BY <1>13, <3>1 DEF snapshot_poll, Poll
  <2>2. QED BY <1>3, <1>13, <2>1 DEF snapshot_poll, InProgress
<1>14. CASE \/ \E a \in MintAmounts : mint_xprism(a)
            \/ \E u \in Users, a \in RedeemAmounts : redeem_xprism(u, a)
            \/ \E u \in Users : claim_redeemed_prism(u)
            \/ SubmessageSucceeds
            \/ \E o \in Owners, c \in ConfigChoices : OwnerUpdatesConfig(o, c)
            \/ \E c \in ConfigChoices : SubmessageUpdatesConfig(c)
            \/ EndBlock
            \/ \E a \in FeeAmounts : PrismArrives(a)
            \/ \E a \in GiftAmounts : XprismArrives(a)
            \/ \E a \in BurnAmounts : HolderBurns(a)
            \/ UNCHANGED vars
  <2>1. UNCHANGED <<bankVars, poll_voter, poll>>
    BY <1>14 DEF mint_xprism, redeem_xprism, claim_redeemed_prism, SubmessageSucceeds,
         OwnerUpdatesConfig, SubmessageUpdatesConfig, EndBlock, PrismArrives, XprismArrives,
         HolderBurns, vars, pollVars
  <2>2. QED BY <1>3, <2>1 DEF InProgress
<1>15. QED
  BY <1>5, <1>6, <1>7, <1>8, <1>9, <1>10, <1>11, <1>12, <1>13, <1>14, GovAssumption
  DEF Next, execute_poll, SubmessageExecutesPoll

\* The tally of an open poll is what its voters still have locked, each within the voter's
\* deposit and one lock per voter and poll, however staking, voting and withdrawing
\* interleave (cast_vote and withdraw_voting_tokens in polls.rs and voting.rs).
THEOREM VotesStayBacked == Spec => []VotesBacked
<1>1. TypeInv /\ PollInv /\ VotesInv /\ [Next]_vars => VotesInv'
  BY VotesStep
<1>2. VotesInv => VotesBacked
  BY DEF VotesInv
<1>3. QED BY <1>1, <1>2, VotesInit, TypeInvariant, PollInvariant, PTL DEF Spec

-----------------------------------------------------------------------------
(***************************************************************************)
(* Redemptions implement RedemptionQueue: a redemption places an order, a  *)
(* claim pays a user's oldest mature orders, and every other step leaves   *)
(* the queue as it is, whatever it does to the contract's other PRISM.     *)
(***************************************************************************)
Queue == [k \in OpenOrders |-> orders[k[1]][k[2]].prism]

LEMMA OpenOrdersAre ==
  \A u, t : <<u, t>> \in OpenOrders <=> u \in Users /\ t \in DOMAIN orders[u]
  BY DEF OpenOrders

LEMMA OpenOrdersPairs == \A k \in OpenOrders : k = <<k[1], k[2]>>
  BY DEF OpenOrders

\* The instance's copies of the library's operators are the library's.
LEMMA QueueOperators ==
  /\ \A f, S : Redemptions!SumFunctionOnSet(f, S) = SumFunctionOnSet(f, S)
  /\ \A f, S : Redemptions!Restrict(f, S) = Restrict(f, S)
  BY DEF Redemptions!SumFunctionOnSet, SumFunctionOnSet, Redemptions!FoldFunctionOnSet,
       FoldFunctionOnSet, Redemptions!MapThenFoldSet, MapThenFoldSet,
       Redemptions!Restrict, Restrict

LEMMA QueueNext ==
  ASSUME NEW S, S = OpenOrders \ OpenOrders',
         \/ Redemptions!Collect(S)
         \/ \E k \in OpenOrders' \ OpenOrders : Redemptions!Place(k[1], k[2], Queue'[k], S)
         \/ \E c \in Users : Redemptions!Pay(c, S)
  PROVE  Redemptions!Next
<1>1. DOMAIN Queue = OpenOrders /\ DOMAIN Queue' = OpenOrders'
  BY DEF Queue
<1>2. S = DOMAIN Queue \ DOMAIN Queue' /\ Redemptions!Placed = OpenOrders' \ OpenOrders
  BY <1>1 DEF Redemptions!Placed, Queue
<1>3. Redemptions!Next
        <=> \/ Redemptions!Collect(DOMAIN Queue \ DOMAIN Queue')
            \/ \E k \in Redemptions!Placed :
                 Redemptions!Place(k[1], k[2], Queue'[k], DOMAIN Queue \ DOMAIN Queue')
            \/ \E c \in Users : Redemptions!Pay(c, DOMAIN Queue \ DOMAIN Queue')
  BY Zenon DEF Redemptions!Next, Queue
<1>4. CASE Redemptions!Collect(S)
  BY <1>2, <1>3, <1>4, Zenon DEF Redemptions!Collect, Redemptions!Leaving, Redemptions!Left,
    Redemptions!Collected
<1>5. CASE \E k \in OpenOrders' \ OpenOrders : Redemptions!Place(k[1], k[2], Queue'[k], S)
  BY <1>2, <1>3, <1>5, ZenonT(40) DEF Redemptions!Place, Redemptions!Leaving, Redemptions!Left,
    Redemptions!Collected
<1>6. CASE \E c \in Users : Redemptions!Pay(c, S)
  BY <1>2, <1>3, <1>6, Zenon DEF Redemptions!Pay, Redemptions!Leaving, Redemptions!Left,
    Redemptions!Collected
<1>7. QED BY <1>4, <1>5, <1>6

\* A step without effect on the orders.
LEMMA QueueIdles ==
  ASSUME UNCHANGED orderVars, prism_balance' \in Nat, pending_prism <= prism_balance'
  PROVE  Redemptions!Next
<1>1. Queue' = Queue /\ OpenOrders' = OpenOrders /\ pending_prism' = pending_prism
  BY DEF Queue, OpenOrders, orderVars
<1>2. Redemptions!Leaving({})
  BY DEF Redemptions!Leaving
<1>3. Queue = Redemptions!Left({})
  BY QueueOperators DEF Redemptions!Left, Restrict, Queue
<1>4. \A c : Redemptions!Collected(c, {}) = 0
  <2>1. \A c : {k \in {} : k[1] = c} = {}
    OBVIOUS
  <2>2. \A f : SumFunctionOnSet(f, {}) = 0
    BY SumPick, FS_EmptySet
  <2>3. QED BY <2>1, <2>2, QueueOperators DEF Redemptions!Collected
<1>5. Redemptions!Collect({})
  BY <1>1, <1>2, <1>3, <1>4 DEF Redemptions!Collect, Queue
<1>6. PICK S : S = OpenOrders \ OpenOrders' /\ S = {}
  BY <1>1
<1>7. QED BY <1>5, <1>6, QueueNext

LEMMA RedeemPlaces ==
  ASSUME TypeInv, TypeInv', PrismCustody', NEW u \in Users, NEW a \in Nat, redeem_xprism(u, a)
  PROVE  Redemptions!Next
<1>1. OrdersType /\ OrdersType' /\ TokenType'
  BY TypeParts, TypePartsNext
<1> DEFINE e == now + config.redemption_time
           r == prism_to_return(a)
<1>2. /\ orders' = [orders EXCEPT ![u] = WithOrder(orders[u], e, a, r)]
      /\ e \notin DOMAIN orders[u] /\ pending_prism' = pending_prism + r
  BY DEF redeem_xprism, WithOrder
<1> HIDE DEF e, r
<1>3. /\ orders'[u] = WithOrder(orders[u], e, a, r)
      /\ \A v \in Users \ {u} : orders'[v] = orders[v]
  BY <1>1, <1>2 DEF OrdersType
<1>4. PICK k : k = <<u, e>>
  OBVIOUS
<1>5. k[1] = u /\ k[2] = e /\ <<k[1], k[2]>> = k
  BY <1>4
<1>6. k \notin OpenOrders /\ OpenOrders' = OpenOrders \cup {k}
  <2>1. k \notin OpenOrders
    BY <1>2, <1>4 DEF OpenOrders
  <2>2. DOMAIN orders'[u] = DOMAIN orders[u] \cup {e}
    BY <1>3 DEF WithOrder
  <2>3. ASSUME NEW j PROVE j \in OpenOrders' <=> j \in OpenOrders \/ j = k
    <3>1. j \in OpenOrders' <=> \E v \in Users : \E t \in DOMAIN orders'[v] : j = <<v, t>>
      BY DEF OpenOrders
    <3>2. j \in OpenOrders <=> \E v \in Users : \E t \in DOMAIN orders[v] : j = <<v, t>>
      BY DEF OpenOrders
    <3>3. QED BY <1>3, <1>4, <2>2, <3>1, <3>2
  <2>4. QED BY <2>1, <2>3
<1>7. Queue'[k] = r /\ \A j \in OpenOrders : Queue'[j] = Queue[j]
  <2>1. Queue'[k] = orders'[u][e].prism
    BY <1>4, <1>6 DEF Queue
  <2>2. ASSUME NEW j \in OpenOrders PROVE Queue'[j] = Queue[j]
    <3>1. PICK v, t : v \in Users /\ t \in DOMAIN orders[v] /\ j = <<v, t>>
      BY DEF OpenOrders
    <3>2. Queue[j] = orders[v][t].prism /\ Queue'[j] = orders'[v][t].prism
      BY <1>6, <3>1 DEF Queue
    <3>3. orders'[v][t] = orders[v][t]
      BY <1>2, <1>3, <3>1 DEF WithOrder
    <3>4. QED BY <3>2, <3>3
  <2>3. QED BY <1>3, <2>1, <2>2 DEF WithOrder
<1>8. r \in Nat
  <2>1. orders'[u][e].prism = r /\ e \in DOMAIN orders'[u]
    BY <1>3 DEF WithOrder
  <2>2. QED BY <1>1, <2>1 DEF OrdersType, Order
<1>9. Queue' = [j \in OpenOrders \cup {k} |-> IF j = k THEN r ELSE Queue[j]]
  <2>1. Queue' = [j \in OpenOrders \cup {k} |-> Queue'[j]]
    BY <1>6 DEF Queue
  <2>2. \A j \in OpenOrders \cup {k} : Queue'[j] = IF j = k THEN r ELSE Queue[j]
    BY <1>6, <1>7
  <2>3. QED BY <2>1, <2>2
<1>10. PICK S : S = OpenOrders \ OpenOrders' /\ S = {}
  BY <1>6
<1>11. Redemptions!Leaving(S)
  BY <1>10 DEF Redemptions!Leaving
<1>12. DOMAIN Redemptions!Left(S) = OpenOrders
  BY <1>10, QueueOperators DEF Redemptions!Left, Restrict
<1>13. \A c : Redemptions!Collected(c, S) = 0
  <2>1. \A c : {j \in S : j[1] = c} = {}
    BY <1>10
  <2>2. \A f : SumFunctionOnSet(f, {}) = 0
    BY SumPick, FS_EmptySet
  <2>3. QED BY <2>1, <2>2, QueueOperators DEF Redemptions!Collected
<1>14. prism_balance' \in Nat /\ prism_balance' >= pending_prism + r
  BY <1>1, <1>2 DEF TokenType, PrismCustody
<1>15. Redemptions!Place(k[1], k[2], Queue'[k], S)
  <2>1. k[1] \in Users /\ Queue'[k] \in Nat /\ <<k[1], k[2]>> \notin DOMAIN Queue
    BY <1>5, <1>6, <1>7, <1>8 DEF Queue
  <2>2. Queue' = [j \in DOMAIN Redemptions!Left(S) \cup {<<k[1], k[2]>>} |->
                    IF j = <<k[1], k[2]>> THEN Queue'[k] ELSE Queue[j]]
    BY <1>5, <1>7, <1>9, <1>12
  <2>3. [d \in Users |-> 0] = [d \in Users |-> [c \in Users |-> 0][d] + Redemptions!Collected(d, S)]
    BY <1>13
  <2>4. pending_prism' = pending_prism + Queue'[k] /\ prism_balance' >= pending_prism + Queue'[k]
    BY <1>2, <1>7, <1>14
  <2>5. QED BY <1>11, <1>14, <2>1, <2>2, <2>3, <2>4 DEF Redemptions!Place, Queue
<1>16. QED BY <1>6, <1>10, <1>15, QueueNext

\* compute_withdrawable takes a prefix of the user's mature orders.
LEMMA WithdrawablePrefix ==
  ASSUME OrdersType, NEW u \in Users, NEW t \in WithdrawableOrders(u), NEW s \in DOMAIN orders[u],
         s < t, now \in Nat
  PROVE  s \in WithdrawableOrders(u)
<1> DEFINE Before(x) == {y \in DOMAIN orders[u] : y < x}
<1>1. IsFiniteSet(DOMAIN orders[u]) /\ DOMAIN orders[u] \subseteq Nat
      /\ t \in DOMAIN orders[u] /\ t <= now /\ Cardinality(Before(t)) < MAX_ORDER_WITHDRAW_PER_TX
  BY DEF OrdersType, WithdrawableOrders
<1>2. s <= now
  BY <1>1
<1>3. Before(s) \subseteq Before(t) /\ Before(t) \subseteq DOMAIN orders[u]
  BY <1>1
<1>4. IsFiniteSet(Before(t)) /\ IsFiniteSet(Before(s))
      /\ Cardinality(Before(s)) <= Cardinality(Before(t))
  <2>1. IsFiniteSet(Before(t))
    BY <1>1, <1>3, FS_Subset
  <2>2. QED BY <1>3, <2>1, FS_Subset
<1>5. Cardinality(Before(s)) \in Nat /\ Cardinality(Before(t)) \in Nat
  BY <1>4, FS_CardinalityType
<1>6. Cardinality(Before(s)) < MAX_ORDER_WITHDRAW_PER_TX
  <2>1. MAX_ORDER_WITHDRAW_PER_TX \in Nat
    BY GovAssumption
  <2>2. QED BY <1>1, <1>4, <1>5, <2>1
<1>7. QED BY <1>2, <1>6 DEF WithdrawableOrders

LEMMA ClaimPays ==
  ASSUME TypeInv, NEW u \in Users, claim_redeemed_prism(u)
  PROVE  Redemptions!Next
<1>1. OrdersType /\ TokenType
  BY TypeParts
<1> DEFINE W == WithdrawableOrders(u)
           p == OrderSum(orders[u], W).prism
<1>2. /\ W \subseteq DOMAIN orders[u] /\ \A t \in W : t <= now
      /\ p > 0 /\ pending_prism' = pending_prism - p /\ prism_balance' = prism_balance - p
      /\ orders' = [orders EXCEPT ![u] = Restrict(@, DOMAIN @ \ W)]
  BY DEF claim_redeemed_prism, compute_withdrawable, WithdrawableOrders
<1>3. /\ \A t \in W, s \in DOMAIN orders[u] : s < t => s \in W
      /\ IsFiniteSet(W)
  BY <1>1, <1>2, WithdrawablePrefix, FS_Subset DEF TokenType, OrdersType
<1>4. p = SumFunctionOnSet([t \in DOMAIN orders[u] |-> orders[u][t].prism], W)
  BY DEF OrderSum
<1> HIDE DEF W, p
<1>5. DOMAIN orders'[u] = DOMAIN orders[u] \ W
      /\ (\A t \in DOMAIN orders'[u] : orders'[u][t] = orders[u][t])
      /\ \A v \in Users \ {u} : orders'[v] = orders[v]
  BY <1>1, <1>2 DEF OrdersType, Restrict
<1>6. PICK S : S = {<<u, t>> : t \in W}
  OBVIOUS
<1>7. /\ \A k \in S : k[1] = u /\ k[2] \in W /\ k \in OpenOrders
      /\ \A t \in W : <<u, t>> \in S
  BY <1>2, <1>6 DEF OpenOrders
<1>8. OpenOrders' = OpenOrders \ S /\ S = OpenOrders \ OpenOrders'
  <2>1. ASSUME NEW j PROVE j \in OpenOrders' <=> j \in OpenOrders /\ j \notin S
    <3>1. j \in OpenOrders' <=> \E v \in Users : \E t \in DOMAIN orders'[v] : j = <<v, t>>
      BY DEF OpenOrders
    <3>2. j \in OpenOrders <=> \E v \in Users : \E t \in DOMAIN orders[v] : j = <<v, t>>
      BY DEF OpenOrders
    <3>3. j \in S <=> \E t \in W : j = <<u, t>>
      BY <1>6
    <3>4. QED BY <1>5, <3>1, <3>2, <3>3
  <2>2. QED BY <1>7, <2>1
<1>9. \A j \in OpenOrders' : Queue'[j] = Queue[j]
  <2> SUFFICES ASSUME NEW j \in OpenOrders' PROVE Queue'[j] = Queue[j]
    OBVIOUS
  <2>1. PICK v, t : v \in Users /\ t \in DOMAIN orders'[v] /\ j = <<v, t>>
    BY DEF OpenOrders
  <2>2. Queue[j] = orders[v][t].prism /\ Queue'[j] = orders'[v][t].prism
    BY <1>8, <2>1 DEF Queue
  <2>3. QED BY <1>5, <2>1, <2>2
<1>10. Queue' = Redemptions!Left(S)
  <2>1. Queue' = [j \in OpenOrders' |-> Queue'[j]]
    BY DEF Queue
  <2>2. Queue' = [j \in OpenOrders \ S |-> Queue[j]]
    BY <1>8, <1>9, <2>1
  <2>3. Redemptions!Left(S) = [j \in OpenOrders \ S |-> Queue[j]]
    BY QueueOperators DEF Redemptions!Left, Restrict, Queue
  <2>4. QED BY <2>2, <2>3
<1>11. Redemptions!Leaving(S)
  <2>1. S \subseteq OpenOrders \cap {k \in OpenOrders : k[2] <= now}
    BY <1>2, <1>7
  <2>2. ASSUME NEW k \in S, NEW j \in OpenOrders, j[1] = k[1], j[2] < k[2] PROVE j \in S
    <3>1. PICK v, s : v \in Users /\ s \in DOMAIN orders[v] /\ j = <<v, s>>
      BY DEF OpenOrders
    <3>2. v = u /\ s \in DOMAIN orders[u] /\ k[2] \in W /\ s < k[2]
      BY <1>7, <2>2, <3>1
    <3>3. QED BY <1>3, <1>7, <3>1, <3>2
  <2>3. QED BY <2>1, <2>2 DEF Redemptions!Leaving
<1>12. Redemptions!Collected(u, S) = p /\ p \in Nat
  <2>1. {k \in S : k[1] = u} = S
    BY <1>7
  <2> DEFINE h == [t \in DOMAIN orders[u] |-> orders[u][t].prism]
  <2>2. \A t \in W : Queue[<<u, t>>] \in Nat /\ h[t] = Queue[<<u, t>>]
    <3>1. \A t \in W : <<u, t>> \in OpenOrders
      BY <1>2, OpenOrdersAre
    <3>2. QED BY <1>1, <1>2, <3>1 DEF Queue, OrdersType, Order
  <2>3. Redemptions!Collected(u, S) = SumFunctionOnSet(Queue, S)
    BY <2>1, QueueOperators DEF Redemptions!Collected, Queue
  <2> HIDE DEF h
  <2>4. SumFunctionOnSet(Queue, S) = SumFunctionOnSet(h, W)
    <3>1. IsFiniteSet(W)
      BY <1>3
    <3>2. PICK q : q = Queue
      OBVIOUS
    <3>3. /\ \A k \in S : k[2] \in W /\ q[k] = h[k[2]]
          /\ \A j, k \in S : j[2] = k[2] => j = k
          /\ \A t \in W : h[t] \in Nat /\ \E k \in S : k[2] = t
      <4>1. \A k \in S : \E t \in W : k = <<u, t>>
        BY <1>6
      <4>2. \A t \in W : <<u, t>> \in S
        BY <1>6
      <4>3. \A t \in W : q[<<u, t>>] \in Nat /\ h[t] = q[<<u, t>>]
        BY <2>2, <3>2
      <4>4. \A k \in S : k = <<u, k[2]>> /\ k[2] \in W
        BY <4>1
      <4>5. \A t \in W : <<u, t>>[2] = t
        OBVIOUS
      <4>6. \A k \in S : k[2] \in W /\ q[k] = h[k[2]]
        BY <4>3, <4>4
      <4>7. \A j, k \in S : j[2] = k[2] => j = k
        BY <4>4
      <4>8. QED BY <4>2, <4>3, <4>5, <4>6, <4>7, Zenon
    <3>4. SumFunctionOnSet(q, S) = SumFunctionOnSet(h, W)
      BY <3>1, <3>3, SumBySecond
    <3>5. QED BY <3>2, <3>4
  <2>5. \A t \in W : h[t] \in Nat
    BY <2>2
  <2>6. SumFunctionOnSet(h, W) \in Nat
    BY <1>3, <2>5, SumNat
  <2>7. QED BY <1>4, <1>6, <2>3, <2>4, <2>6 DEF h
<1>13. Redemptions!Pay(u, S)
  <2>1. [c \in Users |-> 0][u] + Redemptions!Collected(u, S) = p
    BY <1>12
  <2>2. [c \in Users |-> 0] = [[c \in Users |-> 0] EXCEPT ![u] = 0]
    OBVIOUS
  <2>3. \A k \in S : k[1] = u
    BY <1>7
  <2>4. QED BY <1>2, <1>10, <1>11, <2>1, <2>2, <2>3 DEF Redemptions!Pay, Queue
<1>14. QED BY <1>8, <1>13, QueueNext

LEMMA QueueInit == Init => Redemptions!Init
<1> SUFFICES ASSUME Init PROVE Redemptions!Init
  OBVIOUS
<1>1. OpenOrders = {}
  BY DEF Init, OpenOrders
<1>2. Queue = [k \in {} |-> 0]
  BY <1>1 DEF Queue
<1>3. QED BY <1>2 DEF Redemptions!Init, Init, Queue

LEMMA QueueStep ==
  ASSUME TypeInv, TypeInv', ExchangeInv', [Next]_vars
  PROVE  [Redemptions!Next]_(Redemptions!queue)
<1>1. TokenType' /\ PrismCustody'
  BY TypePartsNext DEF ExchangeInv
<1>2. ASSUME UNCHANGED orderVars PROVE Redemptions!Next
  BY <1>1, <1>2, QueueIdles DEF TokenType, PrismCustody, orderVars
<1>3. ASSUME NEW u \in Users, NEW a \in RedeemAmounts, redeem_xprism(u, a)
      PROVE  Redemptions!Next
  BY <1>1, <1>3, RedeemPlaces, GovAssumption
<1>4. ASSUME NEW u \in Users, claim_redeemed_prism(u) PROVE Redemptions!Next
  BY <1>4, ClaimPays
<1>5. CASE \/ \E a \in MintAmounts : mint_xprism(a)
           \/ \E u \in Users, a \in StakeAmounts : stake_voting_tokens(u, a)
           \/ \E u \in Users, a \in WithdrawAmounts : withdraw_voting_tokens(u, a)
           \/ \E u \in Users : withdraw_voting_tokens(u, deposit[u] - user_locked_balance(u))
           \/ \E a \in DepositAmounts, e \in ExecuteMsgs : create_poll(a, e)
           \/ \E p \in DOMAIN poll : end_poll(p)
           \/ \E p \in DOMAIN poll : execute_poll(p)
           \/ SubmessageSucceeds
           \/ SubmessageExecutesPoll
           \/ failed_poll
  BY <1>2, <1>5 DEF mint_xprism, stake_voting_tokens, withdraw_voting_tokens, create_poll,
    end_poll, execute_poll, MarkExecuted, SubmessageSucceeds, SubmessageExecutesPoll, failed_poll
<1>6. CASE \/ \E u \in Users, p \in DOMAIN poll, v \in VoteOption, a \in VoteAmounts :
                cast_vote(u, p, v, a)
           \/ \E p \in DOMAIN poll : snapshot_poll(p)
           \/ \E o \in Owners, c \in ConfigChoices : OwnerUpdatesConfig(o, c)
           \/ \E c \in ConfigChoices : SubmessageUpdatesConfig(c)
           \/ EndBlock
           \/ \E a \in FeeAmounts : PrismArrives(a)
           \/ \E a \in GiftAmounts : XprismArrives(a)
           \/ \E a \in BurnAmounts : HolderBurns(a)
           \/ UNCHANGED vars
  BY <1>2, <1>6, ZenonT(40) DEF cast_vote, snapshot_poll, OwnerUpdatesConfig, SubmessageUpdatesConfig,
    EndBlock, PrismArrives, XprismArrives, HolderBurns, vars
<1>7. QED BY <1>3, <1>4, <1>5, <1>6 DEF Next

\* The delayed payout of redeemed xPRISM is a redemption queue: an order keeps the PRISM
\* fixed when it was placed and is paid once, in full, to its owner, when mature and after
\* the owner's older ones; no mint, fee, poll or vote touches the PRISM set aside.
THEOREM RedemptionsImplementQueue == Spec => ImplementsQueue
<1>1. TypeInv /\ TypeInv' /\ ExchangeInv' /\ [Next]_vars
        => [Redemptions!Next]_(Redemptions!queue)
  BY QueueStep
<1>2. QED
  BY <1>1, QueueInit, TypeInvariant, ExchangeInvariant, PTL
  DEF Spec, ImplementsQueue, Redemptions!Spec
=============================================================================
