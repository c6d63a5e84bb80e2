--------------------------- MODULE RedemptionQueue ---------------------------
(***************************************************************************)
(* What the delayed withdrawals of prism-gov (PRISM for redeemed xPRISM)   *)
(* and of prism-lp-staking (unbonded LP tokens) promise, whatever else the *)
(* contracts do with the same tokens: an order keeps its amount, leaves    *)
(* the queue once, when it is mature and after the claimant's older ones,  *)
(* and is then paid in full, to the claimant, from tokens set aside for it.*)
(***************************************************************************)
EXTENDS Integers, FiniteSets, Functions

CONSTANT Claimants

VARIABLES
  orders,     \* the amounts of the open orders, by <<claimant, key>>
  ready,      \* by claimant, what has left the queue and is not yet paid
  mature,     \* the orders that may leave: time and the owners decide
  promised,   \* what the contract records as promised to all claimants
  balance     \* its tokens

queue == <<orders, ready, promised, balance>>

Init ==
  /\ orders = [k \in {} |-> 0]
  /\ ready = [c \in Claimants |-> 0]
  /\ promised = 0
  /\ balance \in Nat

\* Orders that may leave in one step.
Leaving(S) ==
  /\ S \subseteq DOMAIN orders \cap mature
  /\ \A k \in S, j \in DOMAIN orders : j[1] = k[1] /\ j[2] < k[2] => j \in S

Left(S) == Restrict(orders, DOMAIN orders \ S)
Collected(c, S) == SumFunctionOnSet(orders, {k \in S : k[1] = c})

\* Orders leave the queue.  The contract's other tokens come and go.
Collect(S) ==
  /\ Leaving(S)
  /\ orders' = Left(S)
  /\ ready' = [c \in Claimants |-> ready[c] + Collected(c, S)]
  /\ promised' = promised
  /\ balance' \in Nat /\ balance' >= promised

\* An order is placed; mature ones may leave on the way.
Place(c, key, amount, S) ==
  /\ Leaving(S)
  /\ c \in Claimants /\ amount \in Nat
  /\ <<c, key>> \notin DOMAIN orders
  /\ orders' = [k \in DOMAIN Left(S) \cup {<<c, key>>} |->
                  IF k = <<c, key>> THEN amount ELSE orders[k]]
  /\ ready' = [d \in Claimants |-> ready[d] + Collected(d, S)]
  /\ promised' = promised + amount
  /\ balance' \in Nat /\ balance' >= promised + amount

\* A claimant is paid all that is ready.
Pay(c, S) ==
  LET amount == ready[c] + Collected(c, S)
  IN  /\ Leaving(S) /\ \A k \in S : k[1] = c
      /\ amount > 0
      /\ orders' = Left(S)
      /\ ready' = [ready EXCEPT ![c] = 0]
      /\ promised' = promised - amount
      /\ balance' = balance - amount

Placed == DOMAIN orders' \ DOMAIN orders

\* A step of the queue; which orders come and go is read off the step.
Next ==
  LET S == DOMAIN orders \ DOMAIN orders'
  IN  \/ Collect(S)
      \/ \E k \in Placed : Place(k[1], k[2], orders'[k], S)
      \/ \E c \in Claimants : Pay(c, S)

Spec == Init /\ [][Next]_queue

-----------------------------------------------------------------------------
Sum(f) == SumFunctionOnSet(f, DOMAIN f)

\* What is promised is the sum of the open orders and of what is ready, and the tokens
\* are there: whoever claims last is still paid.
Backed == promised = Sum(orders) + Sum(ready) /\ promised <= balance
=============================================================================
