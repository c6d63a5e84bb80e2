----------------------------- MODULE QueueProofs -----------------------------
(***************************************************************************)
(* What a contract that implements RedemptionQueue can rely on: what is    *)
(* promised is the sum of what is owed to the claimants, and it is there.  *)
(***************************************************************************)
EXTENDS RedemptionQueue, Arithmetic

Typed ==
  /\ IsFiniteSet(DOMAIN orders)
  /\ \A k \in DOMAIN orders : k[1] \in Claimants /\ orders[k] \in Nat
  /\ ready \in [Claimants -> Nat]
  /\ promised \in Nat /\ balance \in Nat

QueueInv == Typed /\ Backed

\* What leaves the queue in a step is a natural for every claimant, and is to the sum
\* of the orders what is missing from it afterwards.
LEMMA LeavingSums ==
  ASSUME IsFiniteSet(Claimants), Typed, NEW S, Leaving(S)
  PROVE  /\ \A c \in Claimants : Collected(c, S) \in Nat
         /\ IsFiniteSet(S) /\ IsFiniteSet(DOMAIN orders \ S)
         /\ SumFunctionOnSet(orders, S) \in Nat
         /\ SumFunctionOnSet(orders, DOMAIN orders \ S) \in Nat
         /\ Sum(orders) = SumFunctionOnSet(orders, S)
                            + SumFunctionOnSet(orders, DOMAIN orders \ S)
<1>1. S \subseteq DOMAIN orders
  BY DEF Leaving
<1>2. \A s \in SUBSET (DOMAIN orders) :
        IsFiniteSet(s) /\ SumFunctionOnSet(orders, s) \in Nat
  BY FS_Subset, SumNat DEF Typed
<1>3. \A c \in Claimants : Collected(c, S) \in Nat
  BY <1>1, <1>2 DEF Collected
<1>4. Sum(orders) = SumFunctionOnSet(orders, S) + SumFunctionOnSet(orders, DOMAIN orders \ S)
  BY <1>1, SumSplit DEF Typed, Sum
<1>5. QED BY <1>1, <1>2, <1>3, <1>4

\* The orders that stay in the queue have the sum they had.
LEMMA LeftSum ==
  ASSUME Typed, NEW S
  PROVE  Sum(Left(S)) = SumFunctionOnSet(orders, DOMAIN orders \ S)
<1>1. DOMAIN Left(S) = DOMAIN orders \ S
  BY DEF Left, Restrict
<1>2. \A k \in DOMAIN orders \ S : orders[k] \in Nat /\ Left(S)[k] = orders[k]
  BY DEF Left, Restrict, Typed
<1>3. IsFiniteSet(DOMAIN orders \ S)
  BY FS_Subset DEF Typed
<1>4. QED BY <1>1, <1>2, <1>3, SumEqual DEF Sum

\* Orders that leave unpaid raise what is ready by their sum.
LEMMA ReadyGrows ==
  ASSUME IsFiniteSet(Claimants), Typed, NEW S, Leaving(S),
         ready' = [c \in Claimants |-> ready[c] + Collected(c, S)]
  PROVE  /\ ready' \in [Claimants -> Nat]
         /\ Sum(ready)' = Sum(ready) + SumFunctionOnSet(orders, S)
         /\ Sum(ready) \in Nat
<1>1. \A c \in Claimants : Collected(c, S) \in Nat
  BY LeavingSums
<1>2. ready' \in [Claimants -> Nat] /\ ready \in [Claimants -> Nat]
  BY <1>1 DEF Typed
<1> DEFINE g == [c \in Claimants |-> SumFunctionOnSet(orders, {k \in S : k[1] = c})]
<1>3. \A c \in Claimants : ready[c] \in Nat /\ g[c] \in Nat /\ ready'[c] = ready[c] + g[c]
  BY <1>1, <1>2 DEF Collected
<1>4. SumFunctionOnSet(g, Claimants) = SumFunctionOnSet(orders, S)
  <2>1. \A k \in S : orders[k] \in Nat /\ k[1] \in Claimants
    BY DEF Leaving, Typed
  <2>2. IsFiniteSet(S)
    BY LeavingSums
  <2>3. QED BY <2>1, <2>2, SumByOwner
<1> HIDE DEF g
<1>5. SumFunctionOnSet(ready', Claimants)
        = SumFunctionOnSet(ready, Claimants) + SumFunctionOnSet(g, Claimants)
  BY <1>3, SumAdd
<1>6. SumFunctionOnSet(ready, Claimants) \in Nat
  BY <1>3, SumNat
<1>7. DOMAIN ready = Claimants /\ DOMAIN ready' = Claimants
  BY <1>2
<1>8. QED BY <1>2, <1>4, <1>5, <1>6, <1>7 DEF Sum

LEMMA CollectInv ==
  ASSUME IsFiniteSet(Claimants), QueueInv, NEW S, Collect(S)
  PROVE  QueueInv'
<1>1. Typed /\ Leaving(S)
  BY DEF QueueInv, Collect
<1>2. /\ ready' \in [Claimants -> Nat]
      /\ Sum(ready)' = Sum(ready) + SumFunctionOnSet(orders, S)
      /\ Sum(ready) \in Nat
  BY <1>1, ReadyGrows DEF Collect
<1>3. Sum(orders)' = SumFunctionOnSet(orders, DOMAIN orders \ S)
  BY <1>1, LeftSum DEF Collect, Sum
<1>4. Typed'
  <2>1. DOMAIN orders' = DOMAIN orders \ S
        /\ \A k \in DOMAIN orders \ S : orders'[k] = orders[k]
    BY DEF Collect, Left, Restrict
  <2>2. IsFiniteSet(DOMAIN orders')
    BY <1>1, <2>1, LeavingSums
  <2>3. promised' \in Nat /\ balance' \in Nat
    BY <1>1 DEF Collect, Typed
  <2>4. QED BY <1>1, <1>2, <2>1, <2>2, <2>3 DEF Typed
<1>5. Backed'
  BY <1>1, <1>2, <1>3, LeavingSums DEF Collect, QueueInv, Backed, Typed
<1>6. QED BY <1>4, <1>5 DEF QueueInv

LEMMA PlaceInv ==
  ASSUME IsFiniteSet(Claimants), QueueInv, NEW S, NEW c, NEW key, NEW amount,
         Place(c, key, amount, S)
  PROVE  QueueInv'
<1>1. Typed /\ Leaving(S) /\ c \in Claimants /\ amount \in Nat
  BY DEF QueueInv, Place
<1> DEFINE k == <<c, key>>
<1> DEFINE R == DOMAIN orders \ S
<1>2. /\ ready' \in [Claimants -> Nat]
      /\ Sum(ready)' = Sum(ready) + SumFunctionOnSet(orders, S)
      /\ Sum(ready) \in Nat
  BY <1>1, ReadyGrows DEF Place
<1>3. DOMAIN orders' = R \cup {k} /\ k \notin R /\ orders'[k] = amount
      /\ \A j \in R : orders'[j] = orders[j]
  BY DEF Place, Left, Restrict
<1>4. IsFiniteSet(R) /\ IsFiniteSet(R \cup {k})
  BY <1>1, LeavingSums, FS_AddElement
<1>5. \A j \in R : orders[j] \in Nat
  BY <1>1 DEF Typed
<1>6. Typed'
  <2>1. k[1] = c
    OBVIOUS
  <2>2. promised' \in Nat /\ balance' \in Nat
    BY <1>1 DEF Place, Typed
  <2>3. QED BY <1>1, <1>2, <1>3, <1>4, <1>5, <2>1, <2>2 DEF Typed
<1>7. Sum(orders)' = amount + SumFunctionOnSet(orders, R)
  <2> HIDE DEF R, k
  <2>1. \A j \in R \cup {k} : orders'[j] \in Nat
    BY <1>1, <1>3, <1>5
  <2>2. SumFunctionOnSet(orders', R \cup {k})
          = orders'[k] + SumFunctionOnSet(orders', (R \cup {k}) \ {k})
    BY <1>4, <2>1, SumRemove
  <2>3. (R \cup {k}) \ {k} = R
    BY <1>3
  <2>4. SumFunctionOnSet(orders', R) = SumFunctionOnSet(orders, R)
    BY <1>3, <1>4, <1>5, SumEqual
  <2>5. QED BY <1>3, <2>2, <2>3, <2>4 DEF Sum
<1>8. Backed'
  <2>1. promised' = promised + amount /\ balance' >= promised + amount
    BY DEF Place
  <2>2. Sum(orders) = SumFunctionOnSet(orders, S) + SumFunctionOnSet(orders, R)
        /\ SumFunctionOnSet(orders, S) \in Nat /\ SumFunctionOnSet(orders, R) \in Nat
    BY <1>1, LeavingSums
  <2>3. promised = Sum(orders) + Sum(ready)
    BY DEF QueueInv, Backed
  <2> HIDE DEF R
  <2>4. promised' = Sum(orders)' + Sum(ready)'
    BY <1>1, <1>2, <1>7, <2>1, <2>2, <2>3
  <2>5. QED BY <2>1, <2>4 DEF Backed
<1>9. QED BY <1>6, <1>8 DEF QueueInv

LEMMA PayInv ==
  ASSUME IsFiniteSet(Claimants), QueueInv, NEW S, NEW c \in Claimants, Pay(c, S)
  PROVE  QueueInv'
<1>1. Typed /\ Leaving(S) /\ \A k \in S : k[1] = c
  BY DEF QueueInv, Pay
<1>2. Collected(c, S) = SumFunctionOnSet(orders, S) /\ Collected(c, S) \in Nat
  <2>1. {k \in S : k[1] = c} = S
    BY <1>1
  <2>2. QED BY <1>1, <2>1, LeavingSums DEF Collected
<1>3. ready \in [Claimants -> Nat] /\ ready' = [ready EXCEPT ![c] = 0]
  BY <1>1 DEF Typed, Pay
<1>4. ready' \in [Claimants -> Nat] /\ DOMAIN ready = Claimants /\ DOMAIN ready' = Claimants
  BY <1>3
<1>5. Sum(ready)' = Sum(ready) - ready[c] /\ Sum(ready) \in Nat /\ ready[c] <= Sum(ready)
  <2>1. \A d \in Claimants : ready[d] \in Nat /\ ready'[d] \in Nat
    BY <1>3, <1>4
  <2>2. \A d \in Claimants \ {c} : ready'[d] = ready[d]
    BY <1>3
  <2>3. SumFunctionOnSet(ready', Claimants)
          = SumFunctionOnSet(ready, Claimants) - ready[c] + ready'[c]
    BY <2>1, <2>2, SumUpdate
  <2>4. SumFunctionOnSet(ready, Claimants) \in Nat
        /\ SumFunctionOnSet(ready', Claimants) \in Nat
    BY <2>1, SumNat
  <2>5. ready'[c] = 0 /\ ready[c] \in Nat
    BY <1>3
  <2>6. QED BY <1>4, <2>3, <2>4, <2>5 DEF Sum
<1>6. Sum(orders)' = SumFunctionOnSet(orders, DOMAIN orders \ S)
  BY <1>1, LeftSum DEF Pay, Sum
<1>7. /\ Sum(orders) = SumFunctionOnSet(orders, S) + SumFunctionOnSet(orders, DOMAIN orders \ S)
      /\ SumFunctionOnSet(orders, S) \in Nat
      /\ SumFunctionOnSet(orders, DOMAIN orders \ S) \in Nat
  BY <1>1, LeavingSums
<1>8. /\ promised' = promised - (ready[c] + Collected(c, S))
      /\ balance' = balance - (ready[c] + Collected(c, S))
      /\ promised \in Nat /\ balance \in Nat /\ ready[c] \in Nat
  BY <1>1, <1>3 DEF Pay, Typed
<1>9. promised = Sum(orders) + Sum(ready) /\ promised <= balance
  BY DEF QueueInv, Backed
<1>10. /\ promised' = Sum(orders)' + Sum(ready)'
       /\ promised' <= balance' /\ promised' \in Nat /\ balance' \in Nat
  BY <1>2, <1>5, <1>6, <1>7, <1>8, <1>9
<1>11. Typed'
  <2>1. DOMAIN orders' = DOMAIN orders \ S
        /\ \A k \in DOMAIN orders \ S : orders'[k] = orders[k]
    BY DEF Pay, Left, Restrict
  <2>2. IsFiniteSet(DOMAIN orders')
    BY <1>1, <2>1, LeavingSums
  <2>3. QED BY <1>1, <1>4, <1>10, <2>1, <2>2 DEF Typed
<1>12. QED BY <1>10, <1>11 DEF QueueInv, Backed

\* In a contract whose withdrawals implement the queue (redemptions of prism-gov, unbond
\* orders of prism-lp-staking) the recorded promises are what is owed, to the last unit,
\* and never exceed the tokens, for any number of claimants and orders.
THEOREM QueueBacked == ASSUME IsFiniteSet(Claimants) PROVE Spec => []Backed
<1>1. Init => QueueInv
  <2> SUFFICES ASSUME Init PROVE QueueInv
    OBVIOUS
  <2>1. DOMAIN orders = {} /\ DOMAIN ready = Claimants /\ ready \in [Claimants -> Nat]
        /\ \A c \in Claimants : ready[c] = 0
    BY DEF Init
  <2>2. Sum(orders) = 0
    BY <2>1, SumPick, FS_EmptySet DEF Sum
  <2>3. Sum(ready) = 0
    BY <2>1, SumZero DEF Sum
  <2>4. Typed
    BY <2>1, FS_EmptySet DEF Typed, Init
  <2>5. QED BY <2>2, <2>3, <2>4 DEF Init, QueueInv, Backed
<1>2. QueueInv /\ [Next]_queue => QueueInv'
  <2> SUFFICES ASSUME QueueInv, [Next]_queue PROVE QueueInv'
    OBVIOUS
  <2>1. CASE Next
    BY <2>1, CollectInv, PlaceInv, PayInv DEF Next
  <2>2. CASE UNCHANGED queue
    BY <2>2 DEF queue, QueueInv, Typed, Backed, Sum
  <2>3. QED BY <2>1, <2>2
<1>3. QueueInv => Backed
  BY DEF QueueInv
<1>4. QED BY <1>1, <1>2, <1>3, PTL DEF Spec
=============================================================================
