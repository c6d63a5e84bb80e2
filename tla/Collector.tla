------------------------------ MODULE Collector ------------------------------
(***************************************************************************)
(* contracts/prism-collector: protocol fees, and assets that others send,  *)
(* are converted through Prismswap or, by way of the base denom, Astroport.*)
(* A call turns into messages that the chain dispatches one by one; an     *)
(* Astroport swap brings base denom to the collector itself, and a hook at *)
(* the end of the messages swaps what the balance has grown by.            *)
(*                                                                         *)
(* Within a transaction each message is a step, since the hook reads the   *)
(* balance the others leave.  A failure of any message, the swaps and      *)
(* transfers of other contracts included, undoes the transaction.          *)
(***************************************************************************)
EXTENDS Integers, Sequences, FiniteSets

CONSTANTS
  Assets, Natives,       \* all assets, and those that are native coins
  base_denom, prism_token,
  SELF,                  \* the collector
  distribution_contract, \* gov
  Receivers,             \* whom a conversion may be sent to
  PrismswapPairs,        \* the pairs Prismswap may come to have: sets of two assets
  AstroportAssets        \* the assets Astroport may come to pair with the base denom

CONSTANTS                \* bounds of a model and the inputs it draws from
  MaxBalance, MaxLength, Amounts, Outputs, SwapFees, DestAssets

ASSUME CollectorAssumption ==
  /\ IsFiniteSet(Assets) /\ Natives \subseteq Assets
  /\ base_denom \in Natives /\ prism_token \in Assets \ Natives
  /\ distribution_contract # SELF /\ distribution_contract \notin Receivers
  /\ PrismswapPairs \subseteq {p \in SUBSET Assets : Cardinality(p) = 2}
  /\ AstroportAssets \subseteq Assets \ {base_denom}
  /\ MaxBalance \in Nat /\ MaxLength \in Nat
  /\ Amounts \subseteq Nat /\ Outputs \subseteq Nat \ {0} /\ SwapFees \subseteq Nat
  /\ DestAssets \subseteq Assets

VARIABLES
  prismswap, astroport,  \* the pairs there are
  balance,               \* the collector's tokens
  messages,              \* those of the transaction that are still to be dispatched
  \* for the properties: the transaction, its assets and funds, the balance before
  \* it, the Prismswap fees that came in during it and whether it has had a hook
  tx

vars == <<prismswap, astroport, balance, messages, tx>>

Zero  == [a \in Assets |-> 0]
NoTx  == [kind |-> "none", assets |-> <<>>, funds |-> Zero, receiver |-> SELF,
          dest |-> prism_token, before |-> Zero, fees |-> Zero, hooked |-> FALSE]
Idle  == tx.kind = "none"

Init ==
  /\ prismswap = {} /\ astroport = {}
  /\ balance = Zero
  /\ messages = <<>> /\ tx = NoTx

-----------------------------------------------------------------------------
\* get_swap_route.  An asset that Prismswap pairs with PRISM is not looked for on
\* Astroport, though there may be no pair from PRISM on.
get_swap_route(offer, dest) ==
  CASE {offer, dest} \in prismswap -> "direct"
    [] {offer, dest} \notin prismswap /\ {offer, prism_token} \in prismswap ->
         IF {dest, prism_token} \in prismswap THEN "router" ELSE "none"
    [] OTHER -> IF offer \in astroport THEN "astroport" ELSE "none"

\* the elements of a list at the given positions, in order
At(list, positions) ==
  LET nth(n) == CHOOSE i \in positions : Cardinality({j \in positions : j <= i}) = n
  IN  [n \in 1..Cardinality(positions) |-> list[nth(n)]]

NonZero(assets) == At(assets, {i \in DOMAIN assets : assets[i].amount > 0})
NoDuplicates(assets) == \A i, j \in DOMAIN assets : assets[i].info = assets[j].info => i = j

\* get_swap_msgs: the messages, those of assets there is a route for
swap_type(asset, dest) == IF asset = dest THEN "transfer" ELSE get_swap_route(asset, dest)

Routable(assets, dest) ==
  /\ NoDuplicates(assets)
  /\ \A i \in DOMAIN NonZero(assets) : swap_type(NonZero(assets)[i].info, dest) # "none"

swap_msgs(assets, dest) ==
  [i \in DOMAIN NonZero(assets) |->
     [type |-> swap_type(NonZero(assets)[i].info, dest),
      asset |-> NonZero(assets)[i].info, amount |-> NonZero(assets)[i].amount]]

need_hook(assets, dest) ==
  \E i \in DOMAIN NonZero(assets) : swap_type(NonZero(assets)[i].info, dest) = "astroport"

\* BaseSwapHook, with prev_base_balance
hook_msg(prev) == [type |-> "hook", asset |-> base_denom, amount |-> prev]

Hook(assets, dest, prev) == IF need_hook(assets, dest) THEN <<hook_msg(prev)>> ELSE <<>>

transfer_from_msgs(assets) ==
  LET cw20 == At(assets, {i \in DOMAIN assets :
                            assets[i].amount > 0 /\ assets[i].info \notin Natives})
  IN  [i \in DOMAIN cw20 |->
         [type |-> "transfer_from", asset |-> cw20[i].info, amount |-> cw20[i].amount]]

AmountOf(assets, a) ==
  IF \E i \in DOMAIN assets : assets[i].info = a
  THEN assets[CHOOSE i \in DOMAIN assets : assets[i].info = a].amount ELSE 0

\* Mutant: what was sent counts as the collector's.
original_base_balance_with_input(assets, funds) == balance[base_denom] + funds[base_denom]

\* the balance, which already has what was sent, without the part to convert
original_base_balance(assets, funds) ==
  balance[base_denom] + funds[base_denom] - AmountOf(assets, base_denom)

\* ConvertAndSend, with native funds.  The receiver may be the collector.
convert_and_send(assets, funds, receiver, dest) ==
  /\ Idle
  /\ Routable(assets, dest)
  /\ \A i \in DOMAIN NonZero(assets) :
       LET x == NonZero(assets)[i]
       IN  x.info \in Natives => funds[x.info] = x.amount
  /\ balance' = [a \in Assets |-> balance[a] + funds[a]]
  /\ messages' = transfer_from_msgs(assets) \o swap_msgs(assets, dest)
                   \o Hook(assets, dest, original_base_balance(assets, funds))
  /\ tx' = [NoTx EXCEPT !.kind = "convert", !.assets = assets, !.funds = funds,
                        !.receiver = receiver, !.dest = dest, !.before = balance]
  /\ UNCHANGED <<prismswap, astroport>>

\* Mutant: the base denom already there is left out.
distribute_prev_base_balance_kept == balance[base_denom]

distribute_prev_base_balance == 0

\* Distribute, open to anyone: the balances of the listed assets, as PRISM, to gov
distribute(asset_infos) ==
  LET assets == [i \in DOMAIN asset_infos |->
                   [info |-> asset_infos[i], amount |-> balance[asset_infos[i]]]]
  IN  /\ Idle
      /\ Routable(assets, prism_token)
      /\ messages' = swap_msgs(assets, prism_token)
                       \o Hook(assets, prism_token, distribute_prev_base_balance)
      /\ tx' = [NoTx EXCEPT !.kind = "distribute", !.assets = assets, !.before = balance,
                            !.receiver = distribution_contract]
      /\ UNCHANGED <<prismswap, astroport, balance>>

-----------------------------------------------------------------------------
(***************************************************************************)
(* The messages                                                            *)
(***************************************************************************)
Msg == Head(messages)
Dispatching(type) == messages # <<>> /\ Msg.type = type

Changed(a, amount) == [balance EXCEPT ![a] = @ + amount]

\* What goes to the receiver comes back when that is the collector.
Sent(b, a, amount) == IF tx.receiver = SELF THEN [b EXCEPT ![a] = @ + amount] ELSE b

TransferFrom ==
  /\ Dispatching("transfer_from")
  /\ balance' = Changed(Msg.asset, Msg.amount)
  /\ messages' = Tail(messages)
  /\ UNCHANGED <<prismswap, astroport, tx>>

Transfer ==
  /\ Dispatching("transfer")
  /\ Msg.amount <= balance[Msg.asset]
  /\ balance' = Sent(Changed(Msg.asset, - Msg.amount), Msg.asset, Msg.amount)
  /\ messages' = Tail(messages)
  /\ UNCHANGED <<prismswap, astroport, tx>>

\* get_prism_direct_swap_msg and get_prism_router_swap_msg.  A Prismswap pair sends its
\* fee, in the asset that is asked of it, to the collector.
PrismSwap(out, fee) ==
  LET asked == IF Msg.type = "router" THEN {prism_token, tx.dest} ELSE {tx.dest}
      Fee(a) == IF a \in asked THEN fee ELSE 0
      after == Sent(Changed(Msg.asset, - Msg.amount), tx.dest, out)
  IN  /\ Dispatching("direct") \/ Dispatching("router")
      /\ Msg.amount <= balance[Msg.asset]
      /\ balance' = [a \in Assets |-> after[a] + Fee(a)]
      /\ tx' = [tx EXCEPT !.fees = [a \in Assets |-> @[a] + Fee(a)]]
      /\ messages' = Tail(messages)
      /\ UNCHANGED <<prismswap, astroport>>

\* get_astro_direct_swap_msg: what it brings comes here
AstroSwap(out) ==
  /\ Dispatching("astroport")
  /\ Msg.amount <= balance[Msg.asset]
  /\ balance' = [Changed(Msg.asset, - Msg.amount) EXCEPT ![base_denom] = @ + out]
  /\ messages' = Tail(messages)
  /\ UNCHANGED <<prismswap, astroport, tx>>

\* a missing route and another hook are errors
base_swap_hook ==
  LET swap_amount == balance[base_denom] - Msg.amount
      base_asset  == <<[info |-> base_denom, amount |-> swap_amount]>>
  IN  /\ Dispatching("hook")
      /\ swap_amount >= 0
      /\ Routable(base_asset, tx.dest) /\ ~ need_hook(base_asset, tx.dest)
      /\ messages' = swap_msgs(base_asset, tx.dest) \o Tail(messages)
      /\ tx' = [tx EXCEPT !.hooked = TRUE]
      /\ UNCHANGED <<prismswap, astroport, balance>>

Done == ~ Idle /\ messages = <<>>

Commit ==
  /\ Done
  /\ tx' = NoTx
  /\ UNCHANGED <<prismswap, astroport, balance, messages>>

Revert ==
  /\ messages # <<>>
  /\ balance' = tx.before
  /\ messages' = <<>>
  /\ tx' = NoTx
  /\ UNCHANGED <<prismswap, astroport>>

-----------------------------------------------------------------------------
\* Fees, and tokens sent by mistake, arrive.
FeesArrive(a) ==
  /\ Idle /\ balance[a] < MaxBalance
  /\ balance' = [balance EXCEPT ![a] = @ + 1]
  /\ UNCHANGED <<prismswap, astroport, messages, tx>>

PairCreated ==
  /\ Idle
  /\ \/ /\ \E p \in PrismswapPairs \ prismswap : prismswap' = prismswap \cup {p}
        /\ astroport' = astroport
     \/ /\ \E a \in AstroportAssets \ astroport : astroport' = astroport \cup {a}
        /\ prismswap' = prismswap
  /\ UNCHANGED <<balance, messages, tx>>

\* The bound leaves balances room for what a transaction may add.
Bounded == \A a \in Assets : balance[a] <= MaxBalance

AssetLists == UNION {[1..n -> [info: Assets, amount: Amounts]] : n \in 1..MaxLength}
InfoLists  == UNION {[1..n -> Assets] : n \in 1..MaxLength}
Funds      == {f \in [Assets -> Amounts \cup {0}] : \A a \in Assets \ Natives : f[a] = 0}

Next ==
  \/ /\ Bounded
     /\ \E assets \in AssetLists, funds \in Funds, r \in Receivers, dest \in DestAssets :
          convert_and_send(assets, funds, r, dest)
  \/ Bounded /\ \E infos \in InfoLists : distribute(infos)
  \/ TransferFrom
  \/ Transfer
  \/ \E out \in Outputs, fee \in SwapFees : PrismSwap(out, fee)
  \/ \E out \in Outputs : AstroSwap(out)
  \/ base_swap_hook
  \/ Commit
  \/ Revert
  \/ \E a \in Assets : FeesArrive(a)
  \/ PairCreated

Spec == Init /\ [][Next]_vars

-----------------------------------------------------------------------------
\* What was sent with a conversion and is not among the assets to convert.
Unlisted(a) == IF a \in Natives THEN tx.funds[a] - AmountOf(tx.assets, a) ELSE 0

\* "This will prevent our original balance from being used inside the hook"
\* (convert_and_send): a conversion for somebody else, whatever its assets, routes and
\* funds, spends nothing the collector had and leaves nothing of the assets behind; what
\* stays is what was sent beyond them and Prismswap's fees, but for those the hook took
\* along.
ConvertKeepsOwn ==
  (Done /\ tx.kind = "convert" /\ tx.receiver # SELF) =>
    \A a \in Assets :
      LET own == tx.before[a] + Unlisted(a)
      IN  /\ own <= balance[a] /\ balance[a] <= own + tx.fees[a]
          /\ a # base_denom \/ ~ tx.hooked => balance[a] = own + tx.fees[a]

\* "we want that swapped and sent directly to the distribution contract" (distribute):
\* all of the listed assets, and all base denom if a hook was needed, is gone, through
\* one route or the other, but for the fees of these very swaps; the rest is untouched.
DistributeSendsAll ==
  (Done /\ tx.kind = "distribute") =>
    \A a \in Assets :
      balance[a] = tx.fees[a]
        + IF \/ \E i \in DOMAIN tx.assets : tx.assets[i].info = a
             \/ a = base_denom /\ tx.hooked
          THEN 0 ELSE tx.before[a]
=============================================================================
