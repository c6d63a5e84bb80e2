--------------------------------- MODULE Gov ---------------------------------
(***************************************************************************)
(* contracts/prism-gov: PRISM is exchanged for xPRISM and, through orders  *)
(* that mature after the redemption time, back; xPRISM is staked to vote   *)
(* on polls; the message of a passed poll is executed as a sub-message     *)
(* whose failure comes back to the contract as a reply.                    *)
(*                                                                         *)
(* A transaction is atomic, so a handler is one action.  The exception is  *)
(* ExecutePoll: its sub-message may call ExecutePoll again before the      *)
(* reply, so the sub-message and the reply are steps of their own, and no  *)
(* other transaction starts while `executing` holds a poll.  A failing     *)
(* sub-message is rolled back: it changes nothing but what the reply does. *)
(*                                                                         *)
(* xPRISM moves freely between holders, so it is kept as totals: what      *)
(* exists and what the contract holds.                                     *)
(***************************************************************************)
EXTENDS Decimals, FiniteSets, FiniteSetsExt, Functions

CONSTANTS
  Users,                      \* addresses that redeem, stake, propose and vote
  Owners,                     \* outside addresses that may ever own the contract
  GOV,                        \* the contract's own address
  InitConfig,                 \* the configuration instantiate stores
  ConfigChoices,              \* the updates an owner may ask for, by field
  ExecuteMsgs,                \* the messages a poll may carry
  MAX_ORDER_WITHDRAW_PER_TX,  \* xprism.rs
  MAX_POLL_VOTES_PER_USER     \* polls.rs

CONSTANTS                     \* bounds of a model and the inputs it draws from
  MaxTime, MaxSupply, MaxPrism, MaxPolls,
  MintAmounts, RedeemAmounts, StakeAmounts, WithdrawAmounts, DepositAmounts,
  VoteAmounts, FeeAmounts, GiftAmounts, BurnAmounts

\* poll_gas_limit is left out: a sub-message may fail whatever the limit is.
Config == [owner: Owners \cup {GOV}, quorum: Nat, threshold: Nat,
           voting_period: Nat, effective_delay: Nat, proposal_deposit: Nat,
           snapshot_period: Nat, redemption_time: Nat]

\* validate_quorum and validate_threshold
validate_quorum(c) == c.quorum <= ONE
validate_threshold(c) == c.threshold <= ONE

PollStatus == {"InProgress", "Passed", "Rejected", "Executed", "Failed"}
VoteOption == {"Yes", "No", "Abstain"}

\* A poll carries no message, one for another contract (which leaves the
\* contract's tokens alone), UpdateConfig or ExecutePoll of poll_id.
ExecuteData == [msg: {"none", "other", "update_config", "execute_poll"}, poll_id: Nat]

NoSnapshot == -1

\* The creator is left out: the refund goes to one of the holders.
Poll == [status: PollStatus, votes: [VoteOption -> Nat],
         end_time: Nat, execute_data: ExecuteData, deposit_amount: Nat,
         supply_snapshot: Nat \cup {NoSnapshot},
         required_quorum: Nat, required_threshold: Nat]
Order == [xprism: Nat, prism: Nat]

ASSUME GovAssumption ==
  /\ IsFiniteSet(Users) /\ GOV \notin Owners
  /\ InitConfig \in Config
  /\ validate_quorum(InitConfig) /\ validate_threshold(InitConfig)
  /\ \A c \in ConfigChoices :
       [f \in DOMAIN InitConfig |-> IF f \in DOMAIN c THEN c[f] ELSE InitConfig[f]] \in Config
  /\ ExecuteMsgs \subseteq ExecuteData
  /\ MAX_ORDER_WITHDRAW_PER_TX \in Nat \ {0}
  /\ MAX_POLL_VOTES_PER_USER \in Nat \ {0}
  /\ MaxTime \in Nat /\ MaxSupply \in Nat /\ MaxPrism \in Nat /\ MaxPolls \in Nat
  /\ MintAmounts \subseteq Nat \ {0} /\ RedeemAmounts \subseteq Nat \ {0}
  /\ StakeAmounts \subseteq Nat \ {0} /\ WithdrawAmounts \subseteq Nat \ {0}
  /\ DepositAmounts \subseteq Nat \ {0} /\ VoteAmounts \subseteq Nat
  /\ FeeAmounts \subseteq Nat \ {0} /\ GiftAmounts \subseteq Nat \ {0}
  /\ BurnAmounts \subseteq Nat \ {0}

VARIABLES
  config,
  \* WITHDRAW_ORDERS (by user and maturity) and TOTAL_PENDING_WITHDRAW
  orders, pending_xprism, pending_prism,
  \* bank: per user, the staked deposit and its locked_balance entries
  deposit, locked_balance,
  \* poll, poll_indexer, poll_voter, last_poll_id, tmp_poll_id
  poll, poll_indexer, poll_voter, last_poll_id, tmp_poll_id,
  \* the poll whose sub-message is being dispatched, 0 between transactions
  executing,
  \* the tokens: the contract's PRISM, the xPRISM there is, the contract's
  \* xPRISM and how much of it was sent by plain transfers; the block time
  prism_balance, xprism_supply, xprism_balance, gifts, now

orderVars == <<orders, pending_xprism, pending_prism>>
bankVars  == <<deposit, locked_balance>>
pollVars  == <<poll, poll_indexer, last_poll_id>>
execVars  == <<tmp_poll_id, executing>>
tokenVars == <<prism_balance, xprism_supply, xprism_balance, gifts>>
vars == <<config, orderVars, bankVars, pollVars, poll_voter, execVars, tokenVars, now>>

-----------------------------------------------------------------------------
\* instantiate and set_xprism_token
Init ==
  /\ config = InitConfig
  /\ orders = [u \in Users |-> [t \in {} |-> 0]]
  /\ pending_xprism = 0 /\ pending_prism = 0
  /\ deposit = [u \in Users |-> 0]
  /\ locked_balance = [u \in Users |-> {}]
  /\ poll = [p \in {} |-> 0]
  /\ poll_indexer = [s \in PollStatus |-> {}]
  /\ poll_voter = [p \in 1..MaxPolls |-> {}]
  /\ last_poll_id = 1
  /\ tmp_poll_id = 0
  /\ executing = 0
  /\ prism_balance = 0 /\ xprism_supply = 0 /\ xprism_balance = 0 /\ gifts = 0
  /\ now = 0

Idle == executing = 0

\* The xPRISM in the hands of holders.
circulating == xprism_supply - xprism_balance

-----------------------------------------------------------------------------
(***************************************************************************)
(* xprism.rs.  Pending redemptions have left the pool on both sides.       *)
(***************************************************************************)
\* Mutant: the PRISM promised to redeemers still counts.
prism_amt_with_pending == prism_balance

prism_amt == prism_balance - pending_prism

\* Mutant: the xPRISM that waits to be burnt still counts.
xprism_amt_with_pending == xprism_supply

xprism_amt == xprism_supply - pending_xprism

\* Mutant: the minted amount is rounded up.
xprism_to_mint_rounded_up(amount) ==
  IF prism_amt = 0 THEN amount
  ELSE (amount * xprism_amt + prism_amt - 1) \div prism_amt

xprism_to_mint(amount) ==
  IF prism_amt = 0 THEN amount ELSE (amount * xprism_amt) \div prism_amt

prism_to_return(amount) == (amount * prism_amt) \div xprism_amt

\* MintXprism, sent with PRISM; cw20 refuses to mint zero
mint_xprism(amount) ==
  LET minted == xprism_to_mint(amount)
  IN  /\ Idle
      /\ prism_amt >= 0 /\ xprism_amt >= 0
      /\ minted > 0
      /\ prism_balance + amount <= MaxPrism /\ xprism_supply + minted <= MaxSupply
      /\ prism_balance' = prism_balance + amount
      /\ xprism_supply' = xprism_supply + minted
      /\ UNCHANGED <<config, orderVars, bankVars, pollVars, poll_voter, execVars,
                     xprism_balance, gifts, now>>

\* RedeemXprism, sent with xPRISM: at most one order per user and maturity
redeem_xprism(u, amount) ==
  LET end_time == now + config.redemption_time
      returned == prism_to_return(amount)
  IN  /\ Idle
      /\ amount <= circulating
      /\ prism_amt >= 0 /\ xprism_amt > 0
      /\ end_time \notin DOMAIN orders[u]
      /\ orders' = [orders EXCEPT ![u] =
                      [t \in DOMAIN @ \cup {end_time} |->
                         IF t = end_time THEN [xprism |-> amount, prism |-> returned]
                         ELSE @[t]]]
      /\ pending_xprism' = pending_xprism + amount
      /\ pending_prism' = pending_prism + returned
      /\ xprism_balance' = xprism_balance + amount
      /\ UNCHANGED <<config, bankVars, pollVars, poll_voter, execVars,
                     prism_balance, xprism_supply, gifts, now>>

\* Mutant: an order matures one second early.
WithdrawableOrders_early(u) == {t \in DOMAIN orders[u] : t <= now + 1}

\* compute_withdrawable: a prefix of the user's orders, the oldest first
WithdrawableOrders(u) ==
  {t \in DOMAIN orders[u] :
     /\ t <= now
     /\ Cardinality({s \in DOMAIN orders[u] : s < t}) < MAX_ORDER_WITHDRAW_PER_TX}

OrderSum(os, ts) ==
  [xprism |-> SumFunctionOnSet([t \in DOMAIN os |-> os[t].xprism], ts),
   prism  |-> SumFunctionOnSet([t \in DOMAIN os |-> os[t].prism], ts)]

compute_withdrawable(u) == OrderSum(orders[u], WithdrawableOrders(u))

\* ClaimRedeemedXprism: burns the xPRISM and pays the PRISM, neither may be zero
claim_redeemed_prism(u) ==
  LET w == compute_withdrawable(u)
  IN  /\ Idle
      /\ w.xprism > 0 /\ w.prism > 0
      /\ w.xprism <= pending_xprism /\ w.prism <= pending_prism
      /\ w.xprism <= xprism_balance /\ w.prism <= prism_balance
      /\ orders' = [orders EXCEPT ![u] = Restrict(@, DOMAIN @ \ WithdrawableOrders(u))]
      /\ pending_xprism' = pending_xprism - w.xprism
      /\ pending_prism' = pending_prism - w.prism
      /\ xprism_supply' = xprism_supply - w.xprism
      /\ xprism_balance' = xprism_balance - w.xprism
      /\ prism_balance' = prism_balance - w.prism
      /\ UNCHANGED <<config, bankVars, pollVars, poll_voter, execVars, gifts, now>>

-----------------------------------------------------------------------------
(***************************************************************************)
(* voting.rs                                                               *)
(***************************************************************************)
stake_voting_tokens(u, amount) ==
  /\ Idle
  /\ amount <= circulating
  /\ deposit' = [deposit EXCEPT ![u] = @ + amount]
  /\ xprism_balance' = xprism_balance + amount
  /\ UNCHANGED <<config, orderVars, locked_balance, pollVars, poll_voter, execVars,
                 prism_balance, xprism_supply, gifts, now>>

\* The entries compute_locked_balance keeps; it drops those of decided polls.
LiveLocks(u) == {l \in locked_balance[u] : poll[l.poll_id].status = "InProgress"}

\* the largest amount locked in a poll that is in progress
user_locked_balance(u) == Max({l.balance : l \in LiveLocks(u)} \cup {0})

\* WithdrawVotingTokens of an amount or, without one, of all that is unlocked
withdraw_voting_tokens(u, withdraw_amount) ==
  /\ Idle
  /\ withdraw_amount > 0
  /\ withdraw_amount <= deposit[u] - user_locked_balance(u)
  /\ withdraw_amount <= xprism_balance
  /\ deposit' = [deposit EXCEPT ![u] = @ - withdraw_amount]
  /\ locked_balance' = [locked_balance EXCEPT ![u] = LiveLocks(u)]
  /\ poll_voter' = [p \in DOMAIN poll_voter |->
                      IF \E l \in locked_balance[u] \ LiveLocks(u) : l.poll_id = p
                      THEN poll_voter[p] \ {u} ELSE poll_voter[p]]
  /\ xprism_balance' = xprism_balance - withdraw_amount
  /\ UNCHANGED <<config, orderVars, pollVars, execVars,
                 prism_balance, xprism_supply, gifts, now>>

-----------------------------------------------------------------------------
(***************************************************************************)
(* polls.rs                                                                *)
(***************************************************************************)
\* CreatePoll, sent with the deposit
create_poll(deposit_amount, execute_data) ==
  /\ Idle
  /\ deposit_amount <= circulating
  /\ deposit_amount >= config.proposal_deposit
  /\ last_poll_id <= MaxPolls
  /\ poll' = [p \in DOMAIN poll \cup {last_poll_id} |->
                IF p = last_poll_id
                THEN [status |-> "InProgress",
                      votes |-> [o \in VoteOption |-> 0],
                      end_time |-> now + config.voting_period,
                      execute_data |-> execute_data,
                      deposit_amount |-> deposit_amount,
                      supply_snapshot |-> NoSnapshot,
                      required_quorum |-> config.quorum,
                      required_threshold |-> config.threshold]
                ELSE poll[p]]
  /\ poll_indexer' = [poll_indexer EXCEPT !["InProgress"] = @ \cup {last_poll_id}]
  /\ last_poll_id' = last_poll_id + 1
  /\ xprism_balance' = xprism_balance + deposit_amount
  /\ UNCHANGED <<config, orderVars, bankVars, poll_voter, execVars,
                 prism_balance, xprism_supply, gifts, now>>

tallied_weight(p) == poll[p].votes["Yes"] + poll[p].votes["No"] + poll[p].votes["Abstain"]

\* Mutant: a poll without a snapshot cannot be ended.
CanEnd_with_snapshot(p) ==
  /\ poll[p].status = "InProgress" /\ poll[p].end_time <= now
  /\ poll[p].supply_snapshot # NoSnapshot

CanEnd(p) == poll[p].status = "InProgress" /\ poll[p].end_time <= now

\* the supply a poll is measured against: its snapshot or today's
total_supply(p) ==
  IF poll[p].supply_snapshot = NoSnapshot THEN xprism_supply
  ELSE poll[p].supply_snapshot

QuorumReached(p) ==
  /\ tallied_weight(p) # 0
  /\ (IF total_supply(p) = 0 THEN 0 ELSE from_ratio(tallied_weight(p), total_supply(p)))
       >= poll[p].required_quorum

ThresholdReached(p) ==
  LET yes == poll[p].votes["Yes"]
  IN  yes # 0 /\ from_ratio(yes, yes + poll[p].votes["No"]) > poll[p].required_threshold

\* Mutant: below the quorum the deposit stays in the contract.
deposit_paid_with_quorum(p) == IF QuorumReached(p) THEN poll[p].deposit_amount ELSE 0

deposit_paid(p) == poll[p].deposit_amount

\* EndPoll, open to anyone: below the quorum the deposit is burnt, otherwise
\* it goes back to its creator, a holder
end_poll(p) ==
  LET status == IF QuorumReached(p) /\ ThresholdReached(p) THEN "Passed" ELSE "Rejected"
  IN  /\ Idle
      /\ CanEnd(p)
      /\ deposit_paid(p) <= xprism_balance
      /\ poll' = [poll EXCEPT ![p].status = status, ![p].supply_snapshot = total_supply(p)]
      /\ poll_indexer' = [poll_indexer EXCEPT !["InProgress"] = @ \ {p},
                                              ![status] = @ \cup {p}]
      /\ xprism_balance' = xprism_balance - deposit_paid(p)
      /\ xprism_supply' = IF QuorumReached(p) THEN xprism_supply
                          ELSE xprism_supply - deposit_paid(p)
      /\ UNCHANGED <<config, orderVars, bankVars, last_poll_id, poll_voter, execVars,
                     prism_balance, gifts, now>>

CanExecute(p) ==
  /\ poll[p].status = "Passed"
  /\ poll[p].end_time + config.effective_delay <= now
  /\ poll[p].execute_data.msg # "none"

\* Mutant: an id that is already stored is not overwritten.
store_tmp_poll_id_once(p) == tmp_poll_id' = IF tmp_poll_id = 0 THEN p ELSE tmp_poll_id

store_tmp_poll_id(p) == tmp_poll_id' = p

MarkExecuted(p) ==
  /\ CanExecute(p)
  /\ poll' = [poll EXCEPT ![p].status = "Executed"]
  /\ poll_indexer' = [poll_indexer EXCEPT !["Passed"] = @ \ {p}, !["Executed"] = @ \cup {p}]
  /\ store_tmp_poll_id(p)
  /\ executing' = p
  /\ UNCHANGED <<config, orderVars, bankVars, last_poll_id, poll_voter, tokenVars, now>>

\* ExecutePoll, open to anyone
execute_poll(p) == Idle /\ MarkExecuted(p)

Message == poll[executing].execute_data

\* The sub-message succeeds.  There is no reply, and an outer sub-message that
\* got here succeeds as well: the transaction is over.
SubmessageSucceeds ==
  /\ ~Idle
  /\ Message.msg = "other"
  /\ executing' = 0
  /\ UNCHANGED <<config, orderVars, bankVars, pollVars, poll_voter, tmp_poll_id,
                 tokenVars, now>>

\* The sub-message is ExecutePoll of another poll, which dispatches its own.
SubmessageExecutesPoll ==
  /\ ~Idle
  /\ Message.msg = "execute_poll"
  /\ Message.poll_id \in DOMAIN poll
  /\ MarkExecuted(Message.poll_id)

\* Mutant: the poll is left in the index of the executed ones.
failed_index_kept(q) == [poll_indexer EXCEPT !["Failed"] = @ \cup {q}]

failed_index(q) ==
  [poll_indexer EXCEPT !["Executed"] = @ \ {q}, !["Failed"] = @ \cup {q}]

\* reply and failed_poll: the sub-message failed, for want of gas if for
\* nothing else, and the poll whose id is stored is marked
failed_poll ==
  LET q == tmp_poll_id
  IN  /\ ~Idle
      /\ poll' = [poll EXCEPT ![q].status = "Failed"]
      /\ poll_indexer' = failed_index(q)
      /\ executing' = 0
      /\ UNCHANGED <<config, orderVars, bankVars, last_poll_id, poll_voter, tmp_poll_id,
                     tokenVars, now>>

\* Mutant: nobody is refused a second vote.
HasVoted_never(u, p) == FALSE

HasVoted(u, p) == u \in poll_voter[p]

snapshot_at_vote(p) ==
  IF /\ poll[p].end_time - now < config.snapshot_period
     /\ poll[p].supply_snapshot = NoSnapshot
  THEN xprism_supply ELSE poll[p].supply_snapshot

cast_vote(u, p, vote, amount) ==
  /\ Idle
  /\ poll[p].status = "InProgress" /\ now <= poll[p].end_time
  /\ ~HasVoted(u, p)
  /\ amount <= deposit[u]
  /\ Cardinality(locked_balance[u]) < MAX_POLL_VOTES_PER_USER
  /\ poll' = [poll EXCEPT ![p].votes[vote] = @ + amount,
                          ![p].supply_snapshot = snapshot_at_vote(p)]
  /\ locked_balance' = [locked_balance EXCEPT ![u] =
                          @ \cup {[poll_id |-> p, vote |-> vote, balance |-> amount]}]
  /\ poll_voter' = [poll_voter EXCEPT ![p] = @ \cup {u}]
  /\ UNCHANGED <<config, orderVars, deposit, poll_indexer, last_poll_id, execVars,
                 tokenVars, now>>

\* SnapshotPoll, open to anyone; past the end the subtraction panics
snapshot_poll(p) ==
  /\ Idle
  /\ poll[p].status = "InProgress"
  /\ now <= poll[p].end_time /\ poll[p].end_time - now <= config.snapshot_period
  /\ poll[p].supply_snapshot = NoSnapshot
  /\ poll' = [poll EXCEPT ![p].supply_snapshot = xprism_supply]
  /\ UNCHANGED <<config, orderVars, bankVars, poll_indexer, last_poll_id, poll_voter,
                 execVars, tokenVars, now>>

-----------------------------------------------------------------------------
\* update_config: the fields an update names are replaced
Updated(update) ==
  [f \in DOMAIN config |-> IF f \in DOMAIN update THEN update[f] ELSE config[f]]

\* Mutant: the quorum and the threshold are not validated.
update_config_unchecked(sender, update) ==
  /\ config.owner = sender
  /\ config' = Updated(update)

update_config(sender, update) ==
  /\ config.owner = sender
  /\ validate_quorum(Updated(update)) /\ validate_threshold(Updated(update))
  /\ config' = Updated(update)

OwnerUpdatesConfig(sender, update) ==
  /\ Idle
  /\ update_config(sender, update)
  /\ UNCHANGED <<orderVars, bankVars, pollVars, poll_voter, execVars, tokenVars, now>>

\* The sub-message of a poll is UpdateConfig: the contract owns itself.
SubmessageUpdatesConfig(update) ==
  /\ ~Idle
  /\ Message.msg = "update_config"
  /\ update_config(GOV, update)
  /\ executing' = 0
  /\ UNCHANGED <<orderVars, bankVars, pollVars, poll_voter, tmp_poll_id, tokenVars, now>>

-----------------------------------------------------------------------------
(***************************************************************************)
(* What the chain and the token holders do.                                *)
(***************************************************************************)
EndBlock ==
  /\ Idle /\ now < MaxTime
  /\ now' = now + 1
  /\ UNCHANGED <<config, orderVars, bankVars, pollVars, poll_voter, execVars, tokenVars>>

\* The collector, or anyone, transfers PRISM: the fees that back xPRISM.
PrismArrives(amount) ==
  /\ Idle /\ prism_balance + amount <= MaxPrism
  /\ prism_balance' = prism_balance + amount
  /\ UNCHANGED <<config, orderVars, bankVars, pollVars, poll_voter, execVars,
                 xprism_supply, xprism_balance, gifts, now>>

\* A holder transfers xPRISM to the contract without a hook.
XprismArrives(amount) ==
  /\ Idle /\ amount <= circulating
  /\ xprism_balance' = xprism_balance + amount
  /\ gifts' = gifts + amount
  /\ UNCHANGED <<config, orderVars, bankVars, pollVars, poll_voter, execVars,
                 prism_balance, xprism_supply, now>>

HolderBurns(amount) ==
  /\ Idle /\ amount <= circulating
  /\ xprism_supply' = xprism_supply - amount
  /\ UNCHANGED <<config, orderVars, bankVars, pollVars, poll_voter, execVars,
                 prism_balance, xprism_balance, gifts, now>>

Next ==
  \/ \E a \in MintAmounts : mint_xprism(a)
  \/ \E u \in Users, a \in RedeemAmounts : redeem_xprism(u, a)
  \/ \E u \in Users : claim_redeemed_prism(u)
  \/ \E u \in Users, a \in StakeAmounts : stake_voting_tokens(u, a)
  \/ \E u \in Users, a \in WithdrawAmounts : withdraw_voting_tokens(u, a)
  \/ \E u \in Users : withdraw_voting_tokens(u, deposit[u] - user_locked_balance(u))
  \/ \E a \in DepositAmounts, e \in ExecuteMsgs : create_poll(a, e)
  \/ \E p \in DOMAIN poll : end_poll(p)
  \/ \E p \in DOMAIN poll : execute_poll(p)
  \/ SubmessageSucceeds
  \/ SubmessageExecutesPoll
  \/ failed_poll
  \/ \E u \in Users, p \in DOMAIN poll, v \in VoteOption, a \in VoteAmounts :
       cast_vote(u, p, v, a)
  \/ \E p \in DOMAIN poll : snapshot_poll(p)
  \/ \E o \in Owners, c \in ConfigChoices : OwnerUpdatesConfig(o, c)
  \/ \E c \in ConfigChoices : SubmessageUpdatesConfig(c)
  \/ EndBlock
  \/ \E a \in FeeAmounts : PrismArrives(a)
  \/ \E a \in GiftAmounts : XprismArrives(a)
  \/ \E a \in BurnAmounts : HolderBurns(a)

Spec == Init /\ [][Next]_vars

\* Blocks keep coming and a transaction that started ends; someone ends every
\* poll that may be ended (the message is open to anyone and the creator's
\* deposit is at stake).
EndPollOf(p) == p \in DOMAIN poll /\ end_poll(p)
Dispatch ==
  \/ SubmessageSucceeds \/ SubmessageExecutesPoll \/ failed_poll
  \/ \E c \in ConfigChoices : SubmessageUpdatesConfig(c)

Fairness ==
  /\ WF_vars(EndBlock)
  /\ WF_vars(Dispatch)
  /\ \A p \in 1..MaxPolls : WF_vars(EndPollOf(p))

FairSpec == Spec /\ Fairness

-----------------------------------------------------------------------------
Lock == [poll_id: 1..MaxPolls, vote: VoteOption, balance: Nat]

\* Every variable keeps its type, and the stored quorum and threshold stay
\* ratios: validate_quorum and validate_threshold guard every path that writes
\* them, that of a poll that governs the contract itself included.
TypeOK ==
  /\ config \in Config /\ validate_quorum(config) /\ validate_threshold(config)
  /\ DOMAIN orders = Users
  /\ \A u \in Users : /\ IsFiniteSet(DOMAIN orders[u]) /\ DOMAIN orders[u] \subseteq Nat
                      /\ orders[u] \in [DOMAIN orders[u] -> Order]
  /\ pending_xprism \in Nat /\ pending_prism \in Nat
  /\ deposit \in [Users -> Nat]
  /\ locked_balance \in [Users -> SUBSET Lock]
  /\ last_poll_id \in 1..(MaxPolls + 1)
  /\ poll \in [1..(last_poll_id - 1) -> Poll]
  /\ poll_indexer \in [PollStatus -> SUBSET (1..MaxPolls)]
  /\ poll_voter \in [1..MaxPolls -> SUBSET Users]
  /\ tmp_poll_id \in {0} \cup DOMAIN poll /\ executing \in {0} \cup DOMAIN poll
  /\ prism_balance \in Nat /\ xprism_supply \in Nat /\ xprism_balance \in Nat
  /\ gifts \in Nat /\ now \in Nat

Total(u) == OrderSum(orders[u], DOMAIN orders[u])

\* The PRISM promised to redeemers is there: TOTAL_PENDING_WITHDRAW is the sum
\* of the open orders on both sides, and the contract holds at least its PRISM,
\* so that no claim can fail for want of it.
PrismCustody ==
  /\ pending_prism = SumFunctionOnSet([u \in Users |-> Total(u).prism], Users)
  /\ pending_xprism = SumFunctionOnSet([u \in Users |-> Total(u).xprism], Users)
  /\ pending_prism <= prism_balance

InProgress == {p \in DOMAIN poll : poll[p].status = "InProgress"}

\* The contract's xPRISM is exactly what it owes: the voting deposits, the
\* deposits of the undecided polls, the xPRISM of the open redemptions and what
\* was given to it.  Nothing is paid twice and nothing is stranded, whichever
\* way a poll ends.
XprismCustody ==
  /\ xprism_balance = SumFunctionOnSet(deposit, Users) + pending_xprism + gifts
       + SumFunctionOnSet([p \in DOMAIN poll |-> poll[p].deposit_amount], InProgress)
  /\ xprism_balance <= xprism_supply

\* A redemption is worth at least its xPRISM, because the pool never holds less
\* PRISM than xPRISM: so no matured order is worth zero, which cw20 would refuse
\* to transfer, and the claim of the orders behind it goes through.
OrdersWorthClaiming ==
  /\ prism_amt >= xprism_amt /\ xprism_amt >= 0
  /\ \A u \in Users : \A t \in DOMAIN orders[u] :
       orders[u][t].prism >= orders[u][t].xprism /\ orders[u][t].xprism > 0

\* "the xPRISM is constantly appreciating": no mint, redemption, claim, burn or
\* poll lowers the PRISM behind one xPRISM for those who stay.
RateNeverFalls ==
  [][(xprism_amt > 0 /\ xprism_amt' > 0)
       => prism_amt' * xprism_amt >= prism_amt * xprism_amt']_vars

OpenOrders == UNION {{<<u, t>> : t \in DOMAIN orders[u]} : u \in Users}

Redemptions == INSTANCE RedemptionQueue WITH
  Claimants <- Users,
  orders    <- [k \in OpenOrders |-> orders[k[1]][k[2]].prism],
  ready     <- [u \in Users |-> 0],
  mature    <- {k \in OpenOrders : k[2] <= now},
  promised  <- pending_prism,
  balance   <- prism_balance

\* Redemptions implement the queue: the PRISM of an order is fixed when it is placed,
\* an order is paid once, in full, to its owner, not before it matures and not before
\* the owner's older ones, and nothing else touches the PRISM set aside for it.
ImplementsQueue == Redemptions!Spec

VotesFor(p, o) ==
  [u \in Users |->
     SumFunction([l \in {k \in locked_balance[u] : k.poll_id = p /\ k.vote = o} |-> l.balance])]

\* The tally of a poll in progress is the sum of the votes its voters still
\* have locked, each within the voter's deposit and at most one per voter and poll
\* (cast_vote), so a staked xPRISM counts once: it cannot be withdrawn, or staked by
\* another voter, before the poll is decided.
VotesBacked ==
  \A p \in InProgress :
    /\ \A o \in VoteOption : poll[p].votes[o] = SumFunctionOnSet(VotesFor(p, o), Users)
    /\ \A u \in Users : \A l \in locked_balance[u] :
         l.poll_id = p => l.balance <= deposit[u]
    /\ \A u \in Users : \A l, m \in locked_balance[u] :
         l.poll_id = p /\ m.poll_id = p => l = m
    /\ \A u \in Users : u \in poll_voter[p] <=> \E l \in locked_balance[u] : l.poll_id = p

\* The index lists each poll once, under its own status, after every path
\* through execution, failure and reply.
IndexerAgrees ==
  \A s \in PollStatus : poll_indexer[s] = {p \in DOMAIN poll : poll[p].status = s}

\* A poll is decided once and not before its end, executed once and not before
\* the delay, and marked failed only by the failure of its own sub-message, even
\* when polls execute polls; what was decided stays decided.
PollLifecycle ==
  [][\A p \in DOMAIN poll :
       LET s == poll[p].status
           t == poll'[p].status
       IN  t # s => \/ s = "InProgress" /\ t \in {"Passed", "Rejected"}
                       /\ poll[p].end_time <= now
                    \/ s = "Passed" /\ t = "Executed"
                       /\ poll[p].end_time + config.effective_delay <= now
                    \/ s = "Executed" /\ t = "Failed" /\ executing = p]_vars

Undecided(p) == p \in DOMAIN poll /\ poll[p].status = "InProgress" /\ poll[p].end_time <= MaxTime

\* Every poll whose end comes is decided: nothing, not the payment of its deposit
\* and not a missing snapshot, keeps EndPoll from succeeding for ever.
EveryPollDecided == \A p \in 1..MaxPolls : Undecided(p) ~> ~Undecided(p)
=============================================================================
