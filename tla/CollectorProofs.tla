--------------------------- MODULE CollectorProofs ---------------------------
(***************************************************************************)
(* Proofs about Collector, for any assets, pairs, lists, amounts, swap     *)
(* outcomes and fees: a conversion for others keeps the collector's own    *)
(* tokens and nothing of theirs, and a distribution sends everything.      *)
(***************************************************************************)
EXTENDS Collector, FiniteSetTheorems, SequenceTheorems, TLAPS

(***************************************************************************)
(* Selecting positions of a list.  The number of positions up to i is a    *)
(* bijection between the positions and 1..their number, so that what At    *)
(* returns has each selected element once.                                 *)
(***************************************************************************)
Rank(P, i) == Cardinality({j \in P : j <= i})

LEMMA RankBijective ==
  ASSUME NEW P, IsFiniteSet(P), P \subseteq Nat
  PROVE  /\ \A i \in P : Rank(P, i) \in 1..Cardinality(P)
         /\ \A i, j \in P : Rank(P, i) = Rank(P, j) => i = j
         /\ \A n \in 1..Cardinality(P) : \E i \in P : Rank(P, i) = n
<1>0. Cardinality(P) \in Nat
  BY FS_CardinalityType
<1>1. ASSUME NEW i \in P
      PROVE  /\ IsFiniteSet({j \in P : j <= i}) /\ Rank(P, i) \in Nat
             /\ Rank(P, i) <= Cardinality(P) /\ Rank(P, i) # 0
  <2>1. {j \in P : j <= i} \in SUBSET P
    OBVIOUS
  <2>2. IsFiniteSet({j \in P : j <= i}) /\ Rank(P, i) <= Cardinality(P)
    BY <2>1, FS_Subset DEF Rank
  <2>3. Rank(P, i) \in Nat
    BY <2>2, FS_CardinalityType DEF Rank
  <2>4. i \in {j \in P : j <= i}
    OBVIOUS
  <2>5. Rank(P, i) # 0
    BY <2>2, <2>4, FS_EmptySet DEF Rank
  <2>6. QED BY <2>2, <2>3, <2>5
<1>2. ASSUME NEW i \in P PROVE Rank(P, i) \in 1..Cardinality(P)
  <2>1. PICK r \in Nat : r = Rank(P, i) /\ r <= Cardinality(P) /\ r # 0
    BY <1>1
  <2>2. QED BY <1>0, <2>1
<1>3. ASSUME NEW i \in P, NEW j \in P, i < j PROVE Rank(P, i) # Rank(P, j)
  <2>1. PICK S : S = {k \in P : k <= j}
    OBVIOUS
  <2>2. PICK T : T = {k \in P : k <= i}
    OBVIOUS
  <2>3. T \in SUBSET S /\ j \in S /\ j \notin T
    <3>1. i \in Nat /\ j \in Nat /\ \A k \in P : k \in Nat
      OBVIOUS
    <3>2. j <= j /\ ~(j <= i) /\ \A k \in P : k <= i => k <= j
      BY <1>3, <3>1
    <3>3. QED BY <2>1, <2>2, <3>2
  <2>4. IsFiniteSet(S)
    BY <1>1, <2>1
  <2>5. Cardinality(S) # Cardinality(T)
    BY <2>3, <2>4, FS_Subset
  <2>6. QED BY <2>1, <2>2, <2>5 DEF Rank
<1>4. \A i, j \in P : Rank(P, i) = Rank(P, j) => i = j
  <2>1. SUFFICES ASSUME NEW i \in P, NEW j \in P, i # j PROVE Rank(P, i) # Rank(P, j)
    OBVIOUS
  <2>2. i < j \/ j < i
    BY <2>1
  <2>3. QED BY <1>3, <2>2
<1>5. PICK f : f = [i \in P |-> Rank(P, i)]
  OBVIOUS
<1>6. f \in Injection(P, 1..Cardinality(P))
  BY <1>2, <1>4, <1>5 DEF Injection, IsInjective
<1>7. IsFiniteSet(1..Cardinality(P)) /\ Cardinality(1..Cardinality(P)) = Cardinality(P)
  <2>1. PICK n \in Nat : n = Cardinality(P)
    BY <1>0
  <2>2. IsFiniteSet(1..n) /\ Cardinality(1..n) = IF 1 > n THEN 0 ELSE n - 1 + 1
    BY FS_Interval
  <2>3. Cardinality(1..n) = n
    BY <2>2
  <2>4. QED BY <2>1, <2>2, <2>3
<1>8. f \in Surjection(P, 1..Cardinality(P))
  BY <1>6, <1>7, FS_Injection
<1>9. \A n \in 1..Cardinality(P) : \E i \in P : Rank(P, i) = n
  BY <1>5, <1>8 DEF Surjection
<1>10. QED BY <1>2, <1>4, <1>9

\* At(list, P) goes through the selected positions, each once.
LEMMA AtFacts ==
  ASSUME NEW X, NEW list \in Seq(X), NEW P, P \subseteq DOMAIN list
  PROVE  /\ At(list, P) \in Seq(X)
         /\ \A n \in DOMAIN At(list, P) : \E i \in P : At(list, P)[n] = list[i]
         /\ \A i \in P : \E n \in DOMAIN At(list, P) : At(list, P)[n] = list[i]
         /\ \A m, n \in DOMAIN At(list, P) :
              m # n => \E i, j \in P : i # j /\ At(list, P)[m] = list[i] /\ At(list, P)[n] = list[j]
<1>0. DOMAIN list = 1..Len(list) /\ Len(list) \in Nat
  OBVIOUS
<1>1. IsFiniteSet(P) /\ P \subseteq Nat
  <2>1. IsFiniteSet(1..Len(list))
    BY <1>0, FS_Interval
  <2>2. P \in SUBSET (1..Len(list))
    BY <1>0
  <2>3. IsFiniteSet(P)
    BY <2>1, <2>2, FS_Subset
  <2>4. QED BY <1>0, <2>3
<1>2. PICK c \in Nat : c = Cardinality(P)
  BY <1>1, FS_CardinalityType
<1>3. PICK r : r = [i \in P |-> Rank(P, i)]
  OBVIOUS
<1>4. /\ \A i \in P : r[i] \in 1..c
      /\ \A i, j \in P : r[i] = r[j] => i = j
      /\ \A n \in 1..c : \E i \in P : r[i] = n
  BY <1>1, <1>2, <1>3, RankBijective
<1>5. PICK p : p = [n \in 1..c |-> CHOOSE i \in P : r[i] = n]
  OBVIOUS
<1>6. \A n \in 1..c : p[n] \in P /\ r[p[n]] = n
  BY <1>4, <1>5
<1>7. At(list, P) = [n \in 1..c |-> list[p[n]]]
  <2>1. \A n \in 1..c : p[n] = CHOOSE i \in P : Cardinality({j \in P : j <= i}) = n
    <3>1. TAKE n \in 1..c
    <3>2. \A i \in P : r[i] = n <=> Cardinality({j \in P : j <= i}) = n
      BY <1>3 DEF Rank
    <3>3. (CHOOSE i \in P : r[i] = n) = CHOOSE i \in P : Cardinality({j \in P : j <= i}) = n
      BY <3>2
    <3>4. QED BY <1>5, <3>3
  <2>2. At(list, P) = [n \in 1..Cardinality(P) |->
                         list[CHOOSE i \in P : Cardinality({j \in P : j <= i}) = n]]
    BY DEF At
  <2>3. QED BY <1>2, <2>1, <2>2
<1>8. \A n \in 1..c : list[p[n]] \in X
  BY <1>0, <1>6
<1>9. At(list, P) \in Seq(X) /\ DOMAIN At(list, P) = 1..c
  BY <1>7, <1>8
<1>10. \A i \in P : r[i] \in 1..c /\ p[r[i]] = i
  BY <1>4, <1>6
<1>11. \A m, n \in 1..c : m # n => p[m] # p[n]
  BY <1>6
<1>12. PICK s : s = At(list, P)
  OBVIOUS
<1>13. s \in Seq(X) /\ DOMAIN s = 1..c /\ \A n \in 1..c : p[n] \in P /\ s[n] = list[p[n]]
  BY <1>6, <1>7, <1>9, <1>12
<1>14. /\ \A n \in DOMAIN s : \E i \in P : s[n] = list[i]
       /\ \A i \in P : \E n \in DOMAIN s : s[n] = list[i]
       /\ \A m, n \in DOMAIN s : m # n => \E i, j \in P : i # j /\ s[m] = list[i] /\ s[n] = list[j]
  <2>1. \A n \in DOMAIN s : \E i \in P : s[n] = list[i]
    BY <1>13
  <2>2. ASSUME NEW i \in P PROVE \E n \in DOMAIN s : s[n] = list[i]
    BY <1>10, <1>13
  <2>3. ASSUME NEW m \in DOMAIN s, NEW n \in DOMAIN s, m # n
        PROVE  \E i, j \in P : i # j /\ s[m] = list[i] /\ s[n] = list[j]
    <3>1. p[m] # p[n] /\ p[m] \in P /\ p[n] \in P /\ s[m] = list[p[m]] /\ s[n] = list[p[n]]
      BY <1>11, <1>13, <2>3
    <3>2. QED BY <3>1
  <2>4. QED BY <2>1, <2>2, <2>3
<1>15. QED BY <1>12, <1>13, <1>14

-----------------------------------------------------------------------------
(***************************************************************************)
(* Lists of messages.  f is what the messages of the types C move of each  *)
(* asset, no two of them the same one.                                     *)
(***************************************************************************)
Outward == {"transfer", "direct", "router", "astroport"}
Inward  == {"transfer_from"}
Asset   == [info: Assets, amount: Nat]
Message == [type: Outward \cup Inward \cup {"hook"}, asset: Assets, amount: Int]

Carry(m, C, f) ==
  /\ \A i, j \in DOMAIN m : m[i].type \in C /\ m[j].type \in C /\ m[i].asset = m[j].asset => i = j
  /\ \A i \in DOMAIN m : m[i].type \in C => f[m[i].asset] = m[i].amount
  /\ \A a \in Assets : (\A i \in DOMAIN m : m[i].type \in C => m[i].asset # a) => f[a] = 0

LEMMA CarryEmpty ==
  ASSUME NEW C, NEW f, Carry(<<>>, C, f)
  PROVE  \A a \in Assets : f[a] = 0
  BY DEF Carry

LEMMA CarryTail ==
  ASSUME NEW m \in Seq(Message), m # <<>>, NEW C, NEW f \in [Assets -> Nat], Carry(m, C, f)
  PROVE  /\ Head(m).type \notin C => Carry(Tail(m), C, f)
         /\ Head(m).type \in C => /\ f[Head(m).asset] = Head(m).amount
                                  /\ Carry(Tail(m), C, [f EXCEPT ![Head(m).asset] = 0])
<1>1. PICK n \in Nat : n = Len(m) /\ n > 0
  OBVIOUS
<1>2. PICK t : t = Tail(m)
  OBVIOUS
<1>3. /\ DOMAIN m = 1..n /\ DOMAIN t = 1..(n - 1) /\ Head(m) = m[1]
      /\ \A i \in 1..(n - 1) : t[i] = m[i + 1]
  BY <1>1, <1>2
<1>4. \A i \in 1..n : m[i].asset \in Assets
  <2>1. \A i \in 1..n : m[i] \in Message
    BY <1>1, <1>3
  <2>2. QED BY <2>1 DEF Message
<1>5. \A i \in 1..(n - 1) : i + 1 \in 1..n /\ i + 1 # 1
  BY <1>1
<1>6. \A k \in 1..n : k = 1 \/ (k - 1 \in 1..(n - 1) /\ t[k - 1] = m[k])
  BY <1>1, <1>3
<1>7. \A i, j \in DOMAIN t : t[i].type \in C /\ t[j].type \in C /\ t[i].asset = t[j].asset => i = j
  <2>1. SUFFICES ASSUME NEW i \in 1..(n - 1), NEW j \in 1..(n - 1), m[i + 1].type \in C,
                        m[j + 1].type \in C, m[i + 1].asset = m[j + 1].asset
                 PROVE  i = j
    BY <1>3, SMTT(30)
  <2>2. i + 1 = j + 1
    BY <1>3, <1>5, <2>1 DEF Carry
  <2>3. QED BY <2>2
<1>8. \A i \in DOMAIN t : t[i].type \in C => f[t[i].asset] = t[i].amount
  <2>1. SUFFICES ASSUME NEW i \in 1..(n - 1), m[i + 1].type \in C
                 PROVE  f[m[i + 1].asset] = m[i + 1].amount
    BY <1>3
  <2>2. i + 1 \in DOMAIN m
    BY <1>3, <1>5
  <2>3. QED BY <2>1, <2>2 DEF Carry
<1>9. CASE Head(m).type \notin C
  <2>3. ASSUME NEW a \in Assets, \A i \in DOMAIN t : t[i].type \in C => t[i].asset # a
        PROVE  f[a] = 0
    <3>1. \A k \in DOMAIN m : m[k].type \in C => m[k].asset # a
      BY <1>3, <1>6, <1>9, <2>3
    <3>2. QED BY <3>1 DEF Carry
  <2>4. QED BY <1>2, <1>9, <1>7, <1>8, <2>3 DEF Carry
<1>10. CASE Head(m).type \in C
  <2> DEFINE g == [f EXCEPT ![Head(m).asset] = 0]
  <2>0. f[Head(m).asset] = Head(m).amount
    BY <1>1, <1>3, <1>10 DEF Carry
  <2>2. \A i \in DOMAIN t : t[i].type \in C => g[t[i].asset] = t[i].amount
    <3>1. TAKE i \in DOMAIN t
    <3>2. HAVE t[i].type \in C
    <3>3. t[i].asset # Head(m).asset
      BY <1>1, <1>3, <1>5, <1>10, <3>2, SMTT(30) DEF Carry
    <3>4. f[t[i].asset] = t[i].amount
      BY <1>8, <3>2
    <3>5. QED BY <1>3, <1>4, <1>5, <3>3, <3>4
  <2>3. ASSUME NEW a \in Assets, \A i \in DOMAIN t : t[i].type \in C => t[i].asset # a
        PROVE  g[a] = 0
    <3>1. CASE a = Head(m).asset
      BY <3>1
    <3>2. CASE a # Head(m).asset
      <4>1. \A k \in DOMAIN m : m[k].type \in C => m[k].asset # a
        BY <1>3, <1>6, <2>3, <3>2
      <4>2. f[a] = 0
        BY <4>1 DEF Carry
      <4>3. QED BY <3>2, <4>2
    <3>3. QED BY <3>1, <3>2
  <2> HIDE DEF g
  <2>4. Carry(t, C, g)
    BY <1>7, <2>2, <2>3 DEF Carry
  <2>5. QED BY <1>2, <1>10, <2>0, <2>4 DEF g
<1>11. QED BY <1>9, <1>10

\* The elements of a concatenation.
LEMMA ConcatFacts ==
  ASSUME NEW s \in Seq(Message), NEW t \in Seq(Message)
  PROVE  /\ s \o t \in Seq(Message) /\ Len(s \o t) = Len(s) + Len(t)
         /\ DOMAIN (s \o t) = 1..(Len(s) + Len(t))
         /\ Len(s) \in Nat /\ DOMAIN s = 1..Len(s) /\ Len(t) \in Nat /\ DOMAIN t = 1..Len(t)
         /\ \A i \in DOMAIN s : (s \o t)[i] = s[i]
         /\ \A i \in DOMAIN t : (s \o t)[Len(s) + i] = t[i]
  OBVIOUS

\* Messages of other types add nothing to what is carried.
LEMMA CarryConcat ==
  ASSUME NEW s \in Seq(Message), NEW t \in Seq(Message), NEW C, NEW f
  PROVE  /\ Carry(s, C, f) /\ (\A i \in DOMAIN t : t[i].type \notin C) => Carry(s \o t, C, f)
         /\ Carry(t, C, f) /\ (\A i \in DOMAIN s : s[i].type \notin C) => Carry(s \o t, C, f)
<1>1. PICK k \in Nat, n \in Nat : k = Len(s) /\ n = Len(t)
  OBVIOUS
<1>2. PICK m : m = s \o t
  OBVIOUS
<1>3. /\ DOMAIN m = 1..(k + n) /\ DOMAIN s = 1..k /\ DOMAIN t = 1..n
      /\ \A i \in 1..k : m[i] = s[i]
      /\ \A i \in 1..n : m[k + i] = t[i]
  BY <1>1, <1>2, ConcatFacts
<1>4. \A i \in 1..(k + n) : i \in 1..k \/ (i - k \in 1..n /\ k + (i - k) = i)
  OBVIOUS
<1>5. \A i \in 1..k : i \in 1..(k + n)
  OBVIOUS
<1>6. \A i \in 1..n : k + i \in 1..(k + n)
  OBVIOUS
<1>7. ASSUME Carry(s, C, f), \A i \in DOMAIN t : t[i].type \notin C PROVE Carry(m, C, f)
  <2>1. \A i \in DOMAIN m : m[i].type \in C => i \in 1..k /\ m[i] = s[i]
    BY <1>3, <1>4, <1>7
  <2>2. QED BY <1>3, <1>5, <1>7, <2>1 DEF Carry
<1>8. ASSUME Carry(t, C, f), \A i \in DOMAIN s : s[i].type \notin C PROVE Carry(m, C, f)
  <2>1. \A i \in DOMAIN m : m[i].type \in C =>
          i - k \in 1..n /\ m[i] = t[i - k] /\ k + (i - k) = i
    BY <1>3, <1>4, <1>8
  <2>2. \A i, j \in DOMAIN m : m[i].type \in C /\ m[j].type \in C /\ m[i].asset = m[j].asset => i = j
    <3>1. SUFFICES ASSUME NEW i \in DOMAIN m, NEW j \in DOMAIN m, m[i].type \in C,
                          m[j].type \in C, m[i].asset = m[j].asset
                   PROVE  i = j
      OBVIOUS
    <3>2. i - k = j - k
      BY <1>3, <1>8, <2>1, <3>1 DEF Carry
    <3>3. QED BY <2>1, <3>1, <3>2
  <2>3. \A i \in DOMAIN m : m[i].type \in C => f[m[i].asset] = m[i].amount
    BY <1>3, <1>8, <2>1 DEF Carry
  <2>4. ASSUME NEW a \in Assets, \A i \in DOMAIN m : m[i].type \in C => m[i].asset # a
        PROVE  f[a] = 0
    <3>1. \A i \in DOMAIN t : t[i].type \in C => t[i].asset # a
      BY <1>3, <1>6, <2>4
    <3>2. QED BY <1>8, <3>1 DEF Carry
  <2>5. QED BY <2>2, <2>3, <2>4 DEF Carry
<1>9. QED BY <1>2, <1>7, <1>8

-----------------------------------------------------------------------------
(***************************************************************************)
(* What the lists of a call carry                                          *)
(***************************************************************************)
LEMMA AmountFacts ==
  ASSUME NEW assets \in Seq(Asset), NoDuplicates(assets)
  PROVE  /\ \A i \in DOMAIN assets : /\ assets[i].info \in Assets /\ assets[i].amount \in Nat
                                     /\ AmountOf(assets, assets[i].info) = assets[i].amount
         /\ \A a \in Assets : (\A i \in DOMAIN assets : assets[i].info # a) => AmountOf(assets, a) = 0
         /\ \A a \in Assets : AmountOf(assets, a) \in Nat
<1>1. \A i \in DOMAIN assets : assets[i] \in Asset
  OBVIOUS
<1>2. \A i \in DOMAIN assets : assets[i].info \in Assets /\ assets[i].amount \in Nat
  BY <1>1 DEF Asset
<1>3. ASSUME NEW i \in DOMAIN assets PROVE AmountOf(assets, assets[i].info) = assets[i].amount
  <2>1. PICK j : j = CHOOSE k \in DOMAIN assets : assets[k].info = assets[i].info
    OBVIOUS
  <2>2. j \in DOMAIN assets /\ assets[j].info = assets[i].info
    BY <2>1
  <2>3. j = i
    BY <2>2 DEF NoDuplicates
  <2>4. QED BY <2>1, <2>3 DEF AmountOf
<1>4. ASSUME NEW a \in Assets, \A i \in DOMAIN assets : assets[i].info # a PROVE AmountOf(assets, a) = 0
  BY <1>4 DEF AmountOf
<1>5. ASSUME NEW a \in Assets PROVE AmountOf(assets, a) \in Nat
  BY <1>2, <1>3, <1>4
<1>6. QED BY <1>2, <1>3, <1>4, <1>5

LEMMA SelectedCarry ==
  ASSUME NEW assets \in Seq(Asset), NoDuplicates(assets), NEW P, P \subseteq DOMAIN assets,
         NEW C, NEW m, DOMAIN m = DOMAIN At(assets, P),
         \A n \in DOMAIN m : /\ m[n].type \in C /\ m[n].asset = At(assets, P)[n].info
                             /\ m[n].amount = At(assets, P)[n].amount,
         NEW f, \A i \in P : f[assets[i].info] = assets[i].amount,
         \A a \in Assets : (\A i \in P : assets[i].info # a) => f[a] = 0
  PROVE  Carry(m, C, f)
<1>1. PICK s : s = At(assets, P)
  OBVIOUS
<1>2. /\ \A n \in DOMAIN s : \E i \in P : s[n] = assets[i]
      /\ \A i \in P : \E n \in DOMAIN s : s[n] = assets[i]
      /\ \A k, n \in DOMAIN s : k # n => \E i, j \in P : i # j /\ s[k] = assets[i] /\ s[n] = assets[j]
  BY <1>1, AtFacts
<1>3. \A n \in DOMAIN m : n \in DOMAIN s /\ m[n].asset = s[n].info /\ m[n].amount = s[n].amount
  BY <1>1
<1>4. \A i, j \in DOMAIN m : m[i].type \in C /\ m[j].type \in C /\ m[i].asset = m[j].asset => i = j
  <2>1. SUFFICES ASSUME NEW k \in DOMAIN m, NEW n \in DOMAIN m, k # n PROVE m[k].asset # m[n].asset
    OBVIOUS
  <2>2. PICK i \in P, j \in P : i # j /\ s[k] = assets[i] /\ s[n] = assets[j]
    BY <1>2, <1>3, <2>1
  <2>3. assets[i].info # assets[j].info
    BY <2>2 DEF NoDuplicates
  <2>4. QED BY <1>3, <2>2, <2>3
<1>5. \A n \in DOMAIN m : f[m[n].asset] = m[n].amount
  BY <1>2, <1>3
<1>6. ASSUME NEW a \in Assets, \A n \in DOMAIN m : m[n].type \in C => m[n].asset # a PROVE f[a] = 0
  <2>1. \A n \in DOMAIN s : s[n].info # a
    BY <1>1, <1>3, <1>6
  <2>2. \A i \in P : assets[i].info # a
    BY <1>2, <2>1
  <2>3. QED BY <2>2
<1>7. QED BY <1>4, <1>5, <1>6 DEF Carry

\* get_swap_msgs: one message for each asset that is not zero, and a hook where one of
\* them goes through Astroport.
LEMMA SwapMessages ==
  ASSUME NEW assets \in Seq(Asset), NEW dest \in Assets, Routable(assets, dest)
  PROVE  /\ swap_msgs(assets, dest) \in Seq(Message)
         /\ \A n \in DOMAIN swap_msgs(assets, dest) :
              /\ swap_msgs(assets, dest)[n].type \in Outward
              /\ swap_msgs(assets, dest)[n].amount \in Nat
              /\ swap_msgs(assets, dest)[n].type = "astroport" => need_hook(assets, dest)
         /\ Carry(swap_msgs(assets, dest), Outward, [a \in Assets |-> AmountOf(assets, a)])
<1>1. PICK P : P = {i \in DOMAIN assets : assets[i].amount > 0}
  OBVIOUS
<1>2. PICK s : s = NonZero(assets)
  OBVIOUS
<1>3. s = At(assets, P) /\ P \subseteq DOMAIN assets
  BY <1>1, <1>2 DEF NonZero
<1>4. s \in Seq(Asset)
  BY <1>3, AtFacts
<1>5. PICK m : m = swap_msgs(assets, dest)
  OBVIOUS
<1>6. m = [i \in DOMAIN s |-> [type |-> swap_type(s[i].info, dest), asset |-> s[i].info,
                               amount |-> s[i].amount]]
  BY <1>2, <1>5 DEF swap_msgs
<1>7. \A i \in DOMAIN s : s[i] \in Asset /\ swap_type(s[i].info, dest) # "none"
  BY <1>2, <1>4 DEF Routable
<1>8. \A i \in DOMAIN s : swap_type(s[i].info, dest) \in Outward
  <2>1. TAKE i \in DOMAIN s
  <2>2. swap_type(s[i].info, dest) \in Outward \cup {"none"}
    BY DEF swap_type, get_swap_route, Outward
  <2>3. QED BY <1>7, <2>2
<1>9. \A i \in DOMAIN s : m[i] \in Message /\ m[i].amount \in Nat
  BY <1>6, <1>7, <1>8 DEF Message, Asset
<1>10. m \in Seq(Message) /\ DOMAIN m = DOMAIN s
  BY <1>4, <1>6, <1>9
<1>11. \A n \in DOMAIN m : m[n].type = "astroport" => need_hook(assets, dest)
  BY <1>2, <1>6 DEF need_hook
<1>12. PICK f : f = [a \in Assets |-> AmountOf(assets, a)]
  OBVIOUS
<1>13. NoDuplicates(assets)
  BY DEF Routable
<1>14. \A i \in P : f[assets[i].info] = assets[i].amount
  BY <1>3, <1>12, <1>13, AmountFacts
<1>15. ASSUME NEW a \in Assets, \A i \in P : assets[i].info # a PROVE f[a] = 0
  <2>1. CASE \E i \in DOMAIN assets : assets[i].info = a
    <3>1. PICK i \in DOMAIN assets : assets[i].info = a
      BY <2>1
    <3>2. i \notin P /\ assets[i].amount \in Nat /\ AmountOf(assets, a) = assets[i].amount
      BY <1>13, <1>15, <3>1, AmountFacts
    <3>3. assets[i].amount = 0
      BY <1>1, <3>2
    <3>4. QED BY <1>12, <3>2, <3>3
  <2>2. CASE \A i \in DOMAIN assets : assets[i].info # a
    BY <1>12, <1>13, <2>2, AmountFacts
  <2>3. QED BY <2>1, <2>2
<1>16. \A n \in DOMAIN m : /\ m[n].type \in Outward /\ m[n].asset = At(assets, P)[n].info
                           /\ m[n].amount = At(assets, P)[n].amount
  BY <1>3, <1>6, <1>8, <1>10
<1>17. Carry(m, Outward, f)
  BY <1>3, <1>10, <1>13, <1>14, <1>15, <1>16, SelectedCarry
<1>18. QED BY <1>5, <1>8, <1>9, <1>10, <1>11, <1>12, <1>16, <1>17

\* The TransferFrom messages of convert_and_send: one for each cw20 asset that is not zero.
LEMMA TransferFromMessages ==
  ASSUME NEW assets \in Seq(Asset), NoDuplicates(assets)
  PROVE  /\ transfer_from_msgs(assets) \in Seq(Message)
         /\ \A n \in DOMAIN transfer_from_msgs(assets) :
              /\ transfer_from_msgs(assets)[n].type = "transfer_from"
              /\ transfer_from_msgs(assets)[n].amount \in Nat
         /\ Carry(transfer_from_msgs(assets), Inward,
                  [a \in Assets |-> IF a \in Natives THEN 0 ELSE AmountOf(assets, a)])
<1>1. PICK P : P = {i \in DOMAIN assets : assets[i].amount > 0 /\ assets[i].info \notin Natives}
  OBVIOUS
<1>2. PICK s : s = At(assets, P)
  OBVIOUS
<1>3. P \subseteq DOMAIN assets
  BY <1>1
<1>4. s \in Seq(Asset)
  BY <1>2, <1>3, AtFacts
<1>5. PICK m : m = transfer_from_msgs(assets)
  OBVIOUS
<1>6. m = [i \in DOMAIN s |-> [type |-> "transfer_from", asset |-> s[i].info, amount |-> s[i].amount]]
  BY <1>1, <1>2, <1>5 DEF transfer_from_msgs
<1>7. \A i \in DOMAIN s : s[i] \in Asset
  BY <1>4
<1>8. \A i \in DOMAIN s : m[i] \in Message /\ m[i].amount \in Nat
  BY <1>6, <1>7 DEF Message, Asset, Inward
<1>9. m \in Seq(Message) /\ DOMAIN m = DOMAIN s
  BY <1>4, <1>6, <1>8
<1>10. PICK f : f = [a \in Assets |-> IF a \in Natives THEN 0 ELSE AmountOf(assets, a)]
  OBVIOUS
<1>11. \A i \in P : f[assets[i].info] = assets[i].amount
  BY <1>1, <1>10, AmountFacts
<1>12. ASSUME NEW a \in Assets, \A i \in P : assets[i].info # a PROVE f[a] = 0
  <2>1. CASE a \in Natives
    BY <1>10, <2>1
  <2>2. CASE a \notin Natives /\ \E i \in DOMAIN assets : assets[i].info = a
    <3>1. PICK i \in DOMAIN assets : assets[i].info = a
      BY <2>2
    <3>2. i \notin P /\ assets[i].amount \in Nat /\ AmountOf(assets, a) = assets[i].amount
      BY <1>12, <3>1, AmountFacts
    <3>3. assets[i].amount = 0
      BY <1>1, <2>2, <3>1, <3>2
    <3>4. QED BY <1>10, <3>2, <3>3
  <2>3. CASE \A i \in DOMAIN assets : assets[i].info # a
    BY <1>10, <2>3, AmountFacts
  <2>4. QED BY <2>1, <2>2, <2>3
<1>13. \A n \in DOMAIN m : /\ m[n].type \in Inward /\ m[n].asset = At(assets, P)[n].info
                           /\ m[n].amount = At(assets, P)[n].amount
  BY <1>2, <1>6, <1>9 DEF Inward
<1>14. Carry(m, Inward, f)
  BY <1>2, <1>3, <1>9, <1>11, <1>12, <1>13, SelectedCarry
<1>15. QED BY <1>5, <1>6, <1>8, <1>9, <1>10, <1>14

\* m is s and behind it, where one is needed, a hook.
HookBehind(m, s, need, prev) ==
  /\ m \in Seq(Message)
  /\ \A i \in DOMAIN m : \/ m[i].type = "hook" /\ need /\ i = Len(m) /\ m[i].amount = prev
                         \/ i \in DOMAIN s /\ m[i] = s[i]
  /\ (\E i \in DOMAIN m : m[i].type = "hook") <=> need
  /\ \A C, f : Carry(s, C, f) /\ "hook" \notin C => Carry(m, C, f)

LEMMA NoHook ==
  ASSUME NEW prev \in Int, NEW s \in Seq(Message), \A i \in DOMAIN s : s[i].type # "hook"
  PROVE  HookBehind(s \o <<>>, s, FALSE, prev)
<1>1. s \o <<>> = s
  OBVIOUS
<1>2. HookBehind(s, s, FALSE, prev)
  BY DEF HookBehind
<1>3. QED BY <1>1, <1>2

LEMMA WithHook ==
  ASSUME NEW prev \in Int, NEW s \in Seq(Message), \A i \in DOMAIN s : s[i].type # "hook"
  PROVE  HookBehind(s \o <<hook_msg(prev)>>, s, TRUE, prev)
<1>1. hook_msg(prev) \in Message /\ hook_msg(prev).type = "hook" /\ hook_msg(prev).amount = prev
  BY CollectorAssumption DEF hook_msg, Message
<1>2. PICK h : h = <<hook_msg(prev)>>
  OBVIOUS
<1>3. h \in Seq(Message) /\ Len(h) = 1 /\ h[1] = hook_msg(prev) /\ DOMAIN h = {1}
  BY <1>1, <1>2
<1>4. PICK n \in Nat : n = Len(s) /\ DOMAIN s = 1..n
  OBVIOUS
<1>5. PICK m : m = s \o h
  OBVIOUS
<1>6. /\ m \in Seq(Message) /\ Len(m) = n + 1 /\ DOMAIN m = 1..(n + 1)
      /\ (\A i \in 1..n : m[i] = s[i]) /\ m[n + 1] = hook_msg(prev)
  <2>1. /\ m \in Seq(Message) /\ Len(m) = Len(s) + Len(h) /\ DOMAIN m = 1..(Len(s) + Len(h))
        /\ (\A i \in DOMAIN s : m[i] = s[i]) /\ \A i \in DOMAIN h : m[Len(s) + i] = h[i]
    <3>1. h \in Seq(Message)
      BY <1>3
    <3>2. QED BY <1>5, <3>1, ConcatFacts, Zenon
  <2>2. Len(s) = n /\ Len(h) = 1 /\ m[n + 1] = h[1]
    BY <1>3, <1>4, <2>1
  <2>3. QED BY <1>3, <1>4, <2>1, <2>2
<1>7. \A i \in 1..(n + 1) : i \in 1..n \/ i = n + 1
  OBVIOUS
<1>8. n + 1 \in 1..(n + 1)
  OBVIOUS
<1>9. \A C, f : Carry(s, C, f) /\ "hook" \notin C => Carry(m, C, f)
  BY <1>1, <1>3, <1>5, CarryConcat
<1>10. \A i \in DOMAIN m : \/ /\ m[i].type = "hook" /\ i = Len(m) /\ m[i].amount = prev
                           \/ i \in DOMAIN s /\ m[i] = s[i]
  BY <1>1, <1>4, <1>6, <1>7
<1>11. \E i \in DOMAIN m : m[i].type = "hook"
  BY <1>1, <1>6, <1>8
<1>12. HookBehind(m, s, TRUE, prev)
  BY <1>6, <1>9, <1>10, <1>11 DEF HookBehind
<1>13. QED BY <1>2, <1>5, <1>12

LEMMA HookMessages ==
  ASSUME NEW assets, NEW dest, NEW prev \in Int, NEW s \in Seq(Message),
         \A i \in DOMAIN s : s[i].type # "hook"
  PROVE  HookBehind(s \o Hook(assets, dest, prev), s, need_hook(assets, dest), prev)
<1>1. need_hook(assets, dest) \in BOOLEAN
  BY DEF need_hook
<1>2. CASE need_hook(assets, dest) = TRUE
  <2>1. Hook(assets, dest, prev) = <<hook_msg(prev)>>
    BY <1>2 DEF Hook
  <2>2. QED BY <1>2, <2>1, WithHook
<1>3. CASE need_hook(assets, dest) = FALSE
  <2>1. Hook(assets, dest, prev) = <<>>
    BY <1>3 DEF Hook
  <2>2. QED BY <1>3, <2>1, NoHook
<1>4. QED BY <1>1, <1>2, <1>3

-----------------------------------------------------------------------------
(***************************************************************************)
(* The inductive invariant.  Throughout a transaction for others, each     *)
(* token the collector has, less what the messages ahead take out and with *)
(* what they bring in, is its own or a fee of the swaps.  The base denom   *)
(* is the exception: what Astroport has brought and the hook not yet taken *)
(* is somebody else's, and the hook takes the fees that came before it.    *)
(***************************************************************************)
Transaction ==
  [kind: {"none", "convert", "distribute"}, assets: Seq(Asset), funds: [Assets -> Nat],
   receiver: Receivers \cup {SELF, distribution_contract}, dest: Assets,
   before: [Assets -> Nat], fees: [Assets -> Nat], hooked: BOOLEAN]

CollectorTypes ==
  /\ balance \in [Assets -> Nat]
  /\ tx \in Transaction
  /\ NoDuplicates(tx.assets)
  /\ messages \in Seq(Message)
  /\ \A i \in DOMAIN messages : messages[i].type # "hook" => messages[i].amount \in Nat
  /\ Idle => messages = <<>>

Own(a) ==
  IF tx.kind = "convert" THEN tx.before[a] + Unlisted(a)
  ELSE IF \E i \in DOMAIN tx.assets : tx.assets[i].info = a THEN 0 ELSE tx.before[a]

Floor == IF tx.kind = "convert" THEN Own(base_denom) ELSE 0

Hooking == \E i \in DOMAIN messages : messages[i].type = "hook"

HookLast ==
  \A i \in DOMAIN messages :
    /\ messages[i].type = "hook" => i = Len(messages) /\ messages[i].amount = Floor /\ ~ tx.hooked
    /\ messages[i].type = "astroport" => Hooking

DistributePrism ==
  tx.kind = "distribute" =>
    /\ tx.dest = prism_token /\ tx.receiver # SELF
    /\ \A a \in Assets : a # prism_token => tx.fees[a] = 0

Accounted(a, net) ==
  IF a # base_denom \/ ~ (tx.hooked \/ Hooking)
  THEN net = Own(a) + tx.fees[a]
  ELSE tx.hooked => Floor <= net /\ net <= Floor + tx.fees[a]

Balanced ==
  ~ Idle /\ tx.receiver # SELF =>
    \E in, out \in [Assets -> Nat] :
      /\ Carry(messages, Inward, in) /\ Carry(messages, Outward, out)
      /\ \A a \in Assets : Accounted(a, balance[a] + in[a] - out[a])

CollectorInv == CollectorTypes /\ HookLast /\ DistributePrism /\ Balanced

LEMMA TransactionFacts ==
  ASSUME NEW t \in Transaction
  PROVE  /\ t.kind \in {"none", "convert", "distribute"} /\ t.assets \in Seq(Asset)
         /\ t.funds \in [Assets -> Nat] /\ t.dest \in Assets /\ t.before \in [Assets -> Nat]
         /\ t.fees \in [Assets -> Nat] /\ t.hooked \in BOOLEAN
  BY DEF Transaction

LEMMA OwnType ==
  ASSUME CollectorTypes
  PROVE  (\A a \in Assets : Own(a) \in Int) /\ Floor \in Int
<1>1. \A a \in Assets : AmountOf(tx.assets, a) \in Nat
  BY TransactionFacts, AmountFacts DEF CollectorTypes
<1>2. tx.funds \in [Assets -> Nat] /\ tx.before \in [Assets -> Nat]
  BY TransactionFacts DEF CollectorTypes
<1>3. \A a \in Assets : Unlisted(a) \in Int
  BY <1>1, <1>2 DEF Unlisted
<1>4. \A a \in Assets : Own(a) \in Int
  BY <1>2, <1>3 DEF Own
<1>5. QED BY <1>4, CollectorAssumption DEF Floor

\* Own depends on what the call set only.
LEMMA OwnKept ==
  ASSUME tx'.kind = tx.kind, tx'.assets = tx.assets, tx'.funds = tx.funds, tx'.before = tx.before
  PROVE  (\A a \in Assets : Own(a)' = Own(a)) /\ Floor' = Floor
<1>1. \A a \in Assets : Unlisted(a)' = Unlisted(a)
  BY DEF Unlisted
<1>2. \A a \in Assets : Own(a)' = Own(a)
  BY <1>1 DEF Own
<1>3. base_denom \in Assets
  BY CollectorAssumption
<1>4. QED BY <1>2, <1>3 DEF Floor

\* One message that is not a hook is dispatched, and d comes in as fees.
LEMMA Dispatched ==
  ASSUME CollectorInv, messages # <<>>, Msg.type # "hook", NEW d \in [Assets -> Nat],
         messages' = Tail(messages), balance' \in [Assets -> Nat], tx' \in Transaction,
         tx'.kind = tx.kind, tx'.assets = tx.assets, tx'.funds = tx.funds, tx'.before = tx.before,
         tx'.receiver = tx.receiver, tx'.dest = tx.dest, tx'.hooked = tx.hooked,
         \A a \in Assets : tx'.fees[a] = tx.fees[a] + d[a],
         tx.kind = "distribute" => \A a \in Assets : a # prism_token => d[a] = 0,
         tx.receiver # SELF =>
           \A a \in Assets : a # base_denom \/ Msg.type # "astroport" =>
             balance'[a] = balance[a] + d[a]
                           + IF a # Msg.asset THEN 0
                             ELSE IF Msg.type \in Inward THEN Msg.amount ELSE - Msg.amount
  PROVE  CollectorInv'
<1>1. PICK n \in Nat : n = Len(messages) /\ n > 0 /\ DOMAIN messages = 1..n
  BY DEF CollectorInv, CollectorTypes
<1>2. /\ messages' \in Seq(Message) /\ Len(messages') = n - 1 /\ DOMAIN messages' = 1..(n - 1)
      /\ Msg = messages[1] /\ \A i \in 1..(n - 1) : messages'[i] = messages[i + 1]
  BY <1>1 DEF CollectorInv, CollectorTypes, Msg
<1>3. \A i \in 1..(n - 1) : i + 1 \in 1..n
  BY <1>1
<1>4. \A k \in 1..n : k = 1 \/ (k - 1 \in 1..(n - 1) /\ messages'[k - 1] = messages[k])
  BY <1>1, <1>2
<1>5. Hooking' <=> Hooking
  <2>1. ASSUME Hooking PROVE Hooking'
    <3>1. PICK k \in 1..n : messages[k].type = "hook"
      BY <1>1, <2>1 DEF Hooking
    <3>2. k # 1
      BY <1>2, <3>1
    <3>3. k - 1 \in DOMAIN messages' /\ messages'[k - 1].type = "hook"
      BY <1>2, <1>4, <3>1, <3>2
    <3>4. QED BY <3>3 DEF Hooking
  <2>2. ASSUME Hooking' PROVE Hooking
    <3>1. PICK i \in 1..(n - 1) : messages'[i].type = "hook"
      BY <1>2, <2>2 DEF Hooking
    <3>2. i + 1 \in DOMAIN messages /\ messages[i + 1].type = "hook"
      BY <1>1, <1>2, <1>3, <3>1
    <3>3. QED BY <3>2 DEF Hooking
  <2>3. QED BY <2>1, <2>2
<1>6. (\A a \in Assets : Own(a)' = Own(a)) /\ Floor' = Floor
  BY OwnKept
<1>7. CollectorTypes'
  <2>1. NoDuplicates(tx.assets) /\ ~ Idle
    BY DEF CollectorInv, CollectorTypes
  <2>2. NoDuplicates(tx'.assets) /\ ~ Idle'
    BY <2>1 DEF Idle
  <2>3. \A i \in DOMAIN messages' : messages'[i].type # "hook" => messages'[i].amount \in Nat
    BY <1>1, <1>2, <1>3 DEF CollectorInv, CollectorTypes
  <2>4. QED BY <1>2, <2>2, <2>3 DEF CollectorTypes, NoDuplicates
<1>8. HookLast'
  <2>1. ASSUME NEW i \in 1..(n - 1), messages'[i].type = "hook"
        PROVE  i = n - 1 /\ messages'[i].amount = Floor' /\ ~ tx'.hooked
    <3>1. i + 1 \in DOMAIN messages /\ messages[i + 1].type = "hook" /\ messages'[i] = messages[i + 1]
      BY <1>1, <1>2, <1>3, <2>1
    <3>2. i + 1 = n /\ messages[i + 1].amount = Floor /\ ~ tx.hooked
      BY <1>1, <3>1 DEF CollectorInv, HookLast
    <3>3. QED BY <1>6, <3>1, <3>2
  <2>2. ASSUME NEW i \in 1..(n - 1), messages'[i].type = "astroport" PROVE Hooking'
    BY <1>1, <1>2, <1>3, <1>5, <2>2 DEF CollectorInv, HookLast
  <2>3. QED BY <1>2, <2>1, <2>2 DEF HookLast
<1>9. DistributePrism'
  <2>1. SUFFICES ASSUME tx.kind = "distribute" PROVE \A a \in Assets : a # prism_token => tx'.fees[a] = 0
    BY DEF CollectorInv, DistributePrism
  <2>2. QED BY <2>1 DEF CollectorInv, DistributePrism
<1>10. Balanced'
  <2>1. SUFFICES ASSUME ~ Idle, tx.receiver # SELF
        PROVE  \E in, out \in [Assets -> Nat] :
                 /\ Carry(messages', Inward, in) /\ Carry(messages', Outward, out)
                 /\ \A a \in Assets : Accounted(a, balance[a] + in[a] - out[a])'
    BY DEF Balanced, Idle
  <2>2. PICK in \in [Assets -> Nat], out \in [Assets -> Nat] :
          /\ Carry(messages, Inward, in) /\ Carry(messages, Outward, out)
          /\ \A a \in Assets : Accounted(a, balance[a] + in[a] - out[a])
    BY <2>1 DEF CollectorInv, Balanced
  <2>3. /\ messages \in Seq(Message) /\ Msg = Head(messages) /\ Msg.asset \in Assets
        /\ Msg.amount \in Nat /\ Msg.type \in Outward \cup Inward
    <3>0. 1 \in DOMAIN messages /\ messages[1].type # "hook"
      BY <1>1, <1>2
    <3>1. messages \in Seq(Message) /\ messages[1] \in Message /\ messages[1].amount \in Nat
      BY <3>0 DEF CollectorInv, CollectorTypes
    <3>2. QED BY <1>2, <3>1 DEF Message, Msg
  <2>4. ASSUME Msg.type = "astroport" PROVE Hooking /\ ~ tx.hooked
    <3>1. 1 \in DOMAIN messages /\ messages[1].type = "astroport"
      BY <1>1, <1>2, <2>4
    <3>2. Hooking
      BY <3>1 DEF CollectorInv, HookLast
    <3>3. QED BY <3>2 DEF CollectorInv, HookLast, Hooking
  <2>5. \E i2, o2 \in [Assets -> Nat] :
          /\ Carry(messages', Inward, i2) /\ Carry(messages', Outward, o2)
          /\ \A a \in Assets : i2[a] - o2[a] = in[a] - out[a] +
                IF a # Msg.asset THEN 0 ELSE IF Msg.type \in Inward THEN - Msg.amount ELSE Msg.amount
    <3>1. CASE Msg.type \in Inward
      <4>1. PICK i2 : i2 = [in EXCEPT ![Msg.asset] = 0]
        OBVIOUS
      <4>2. Msg.type \notin Outward
        BY <3>1 DEF Inward, Outward
      <4>3. Carry(messages', Inward, i2) /\ in[Msg.asset] = Msg.amount
        BY <2>2, <2>3, <3>1, <4>1, CarryTail
      <4>4. Carry(messages', Outward, out)
        BY <2>2, <2>3, <4>2, CarryTail
      <4>5. /\ i2 \in [Assets -> Nat] /\ i2[Msg.asset] = 0
            /\ \A a \in Assets : a # Msg.asset => i2[a] = in[a]
        BY <2>3, <4>1
      <4>6. \A a \in Assets : i2[a] - out[a] = in[a] - out[a] +
                IF a # Msg.asset THEN 0 ELSE IF Msg.type \in Inward THEN - Msg.amount ELSE Msg.amount
        BY <2>3, <3>1, <4>3, <4>5
      <4>7. QED BY <4>3, <4>4, <4>5, <4>6
    <3>2. CASE Msg.type \in Outward
      <4>1. PICK o2 : o2 = [out EXCEPT ![Msg.asset] = 0]
        OBVIOUS
      <4>2. Msg.type \notin Inward
        BY <3>2 DEF Inward, Outward
      <4>3. Carry(messages', Outward, o2) /\ out[Msg.asset] = Msg.amount
        BY <2>2, <2>3, <3>2, <4>1, CarryTail
      <4>4. Carry(messages', Inward, in)
        BY <2>2, <2>3, <4>2, CarryTail
      <4>5. /\ o2 \in [Assets -> Nat] /\ o2[Msg.asset] = 0
            /\ \A a \in Assets : a # Msg.asset => o2[a] = out[a]
        BY <2>3, <4>1
      <4>6. \A a \in Assets : in[a] - o2[a] = in[a] - out[a] +
                IF a # Msg.asset THEN 0 ELSE IF Msg.type \in Inward THEN - Msg.amount ELSE Msg.amount
        BY <2>3, <4>2, <4>3, <4>5, SMTT(30)
      <4>7. QED BY <4>3, <4>4, <4>5, <4>6
    <3>3. QED BY <2>3, <3>1, <3>2
  <2>6. PICK i2 \in [Assets -> Nat], o2 \in [Assets -> Nat] :
          /\ Carry(messages', Inward, i2) /\ Carry(messages', Outward, o2)
          /\ \A a \in Assets : i2[a] - o2[a] = in[a] - out[a] +
                IF a # Msg.asset THEN 0 ELSE IF Msg.type \in Inward THEN - Msg.amount ELSE Msg.amount
    BY <2>5
  <2>7. ASSUME NEW a \in Assets PROVE Accounted(a, balance[a] + i2[a] - o2[a])'
    <3>1. CASE a = base_denom /\ Msg.type = "astroport"
      BY <1>5, <2>4, <3>1 DEF Accounted
    <3>2. CASE a # base_denom \/ Msg.type # "astroport"
      <4>1. /\ balance[a] \in Nat /\ balance'[a] \in Nat /\ d[a] \in Nat /\ tx.fees[a] \in Nat
            /\ in[a] \in Nat /\ out[a] \in Nat /\ i2[a] \in Nat /\ o2[a] \in Nat
        <5>1. balance \in [Assets -> Nat] /\ tx.fees \in [Assets -> Nat]
          BY TransactionFacts DEF CollectorInv, CollectorTypes
        <5>2. QED BY <5>1
      <4>2. Own(a) \in Int /\ Floor \in Int
        BY OwnType DEF CollectorInv
      <4>3. PICK net \in Int : net = balance[a] + in[a] - out[a]
        BY <4>1
      <4>4. balance'[a] + i2[a] - o2[a] = net + d[a]
        <5>1. PICK c \in Int : c = IF a # Msg.asset THEN 0
                                   ELSE IF Msg.type \in Inward THEN Msg.amount ELSE - Msg.amount
          BY <2>3
        <5>2. balance'[a] = balance[a] + d[a] + c
          BY <2>1, <3>2, <5>1
        <5>3. i2[a] - o2[a] = in[a] - out[a] - c
          <6>1. (IF a # Msg.asset THEN 0 ELSE IF Msg.type \in Inward THEN - Msg.amount ELSE Msg.amount) = - c
            BY <2>3, <5>1
          <6>2. i2[a] - o2[a] = in[a] - out[a] + (- c)
            BY <2>6, <6>1
          <6>3. QED BY <4>1, <6>2
        <5>4. PICK b \in Nat, b2 \in Nat, e \in Nat, x \in Nat, y \in Nat, x2 \in Nat, y2 \in Nat :
                /\ b = balance[a] /\ b2 = balance'[a] /\ e = d[a]
                /\ x = in[a] /\ y = out[a] /\ x2 = i2[a] /\ y2 = o2[a]
          BY <4>1
        <5>5. b2 = b + e + c /\ x2 - y2 = x - y - c /\ net = b + x - y
          BY <4>3, <5>2, <5>3, <5>4
        <5>6. b2 + x2 - y2 = net + e
          BY <5>5
        <5>7. QED BY <5>4, <5>6
      <4>5. Accounted(a, net)
        BY <2>2, <4>3
      <4>6. Own(a)' = Own(a) /\ Floor' = Floor /\ tx'.fees[a] = tx.fees[a] + d[a]
        BY <1>6
      <4>7. CASE a # base_denom \/ ~ (tx.hooked \/ Hooking)
        <5>1. net = Own(a) + tx.fees[a]
          BY <4>5, <4>7 DEF Accounted
        <5>2. net + d[a] = Own(a)' + tx'.fees[a]
          BY <4>1, <4>2, <4>6, <5>1, SMTT(30)
        <5>3. QED BY <1>5, <4>4, <4>7, <5>2 DEF Accounted
      <4>8. CASE ~ (a # base_denom \/ ~ (tx.hooked \/ Hooking))
        <5>1. tx.hooked => Floor <= net /\ net <= Floor + tx.fees[a]
          BY <4>5, <4>8 DEF Accounted
        <5>2. tx.hooked => Floor' <= net + d[a] /\ net + d[a] <= Floor' + tx'.fees[a]
          BY <4>1, <4>2, <4>6, <5>1, SMTT(30)
        <5>3. QED BY <1>5, <4>4, <4>8, <5>2 DEF Accounted
      <4>9. QED BY <4>7, <4>8
    <3>3. QED BY <3>1, <3>2
  <2>8. QED BY <2>6, <2>7
<1>11. QED BY <1>7, <1>8, <1>9, <1>10 DEF CollectorInv

LEMMA HeadFacts ==
  ASSUME CollectorInv, messages # <<>>
  PROVE  /\ balance \in [Assets -> Nat] /\ tx \in Transaction /\ ~ Idle
         /\ Msg.asset \in Assets /\ Msg.amount \in Int
         /\ Msg.type # "hook" => Msg.amount \in Nat
<1>1. messages \in Seq(Message) /\ 1 \in DOMAIN messages /\ Msg = messages[1]
  BY DEF CollectorInv, CollectorTypes, Msg
<1>2. messages[1] \in Message
  BY <1>1
<1>3. Msg.asset \in Assets /\ Msg.amount \in Int
  BY <1>1, <1>2 DEF Message
<1>4. QED BY <1>1, <1>3 DEF CollectorInv, CollectorTypes

\* What is taken out of, and put into, a balance.
LEMMA ChangedFacts ==
  ASSUME NEW b \in [Assets -> Nat], NEW a \in Assets, NEW x \in Int, 0 <= b[a] + x
  PROVE  /\ [b EXCEPT ![a] = @ + x] \in [Assets -> Nat]
         /\ \A c \in Assets : [b EXCEPT ![a] = @ + x][c] = b[c] + IF c = a THEN x ELSE 0
  OBVIOUS

LEMMA SentFacts ==
  ASSUME NEW b \in [Assets -> Nat], NEW a \in Assets, NEW x \in Nat
  PROVE  Sent(b, a, x) \in [Assets -> Nat] /\ (tx.receiver # SELF => Sent(b, a, x) = b)
<1>1. 0 <= b[a] + x
  OBVIOUS
<1>2. [b EXCEPT ![a] = @ + x] \in [Assets -> Nat]
  BY <1>1, ChangedFacts
<1>3. QED BY <1>2 DEF Sent

LEMMA TransferFromStep ==
  ASSUME CollectorInv, TransferFrom
  PROVE  CollectorInv'
<1>1. messages # <<>> /\ Msg.type = "transfer_from" /\ messages' = Tail(messages) /\ tx' = tx
      /\ balance' = [balance EXCEPT ![Msg.asset] = @ + Msg.amount]
  BY DEF TransferFrom, Dispatching, Changed
<1>2. balance \in [Assets -> Nat] /\ tx \in Transaction /\ Msg.asset \in Assets /\ Msg.amount \in Nat
  BY <1>1, HeadFacts
<1>3. 0 <= balance[Msg.asset] + Msg.amount
  BY <1>2
<1>4. /\ balance' \in [Assets -> Nat]
      /\ \A c \in Assets : balance'[c] = balance[c] + IF c = Msg.asset THEN Msg.amount ELSE 0
  BY <1>1, <1>2, <1>3, ChangedFacts
<1>5. PICK d \in [Assets -> Nat] : \A a \in Assets : d[a] = 0
  <2>1. Zero \in [Assets -> Nat] /\ \A a \in Assets : Zero[a] = 0
    BY DEF Zero
  <2>2. QED BY <2>1
<1>6. \A a \in Assets : tx'.fees[a] = tx.fees[a] + d[a]
  BY <1>1, <1>2, <1>5, TransactionFacts
<1>7. Msg.type # "hook" /\ Msg.type # "astroport" /\ Msg.type \in Inward
  BY <1>1 DEF Inward
<1>8. \A a \in Assets : balance'[a] = balance[a] + d[a] + IF a # Msg.asset THEN 0
                             ELSE IF Msg.type \in Inward THEN Msg.amount ELSE - Msg.amount
  BY <1>2, <1>4, <1>5, <1>7
<1>9. QED BY <1>1, <1>2, <1>4, <1>5, <1>6, <1>7, <1>8, Dispatched

LEMMA TransferStep ==
  ASSUME CollectorInv, Transfer
  PROVE  CollectorInv'
<1>0. PICK b : b = [balance EXCEPT ![Msg.asset] = @ + - Msg.amount]
  OBVIOUS
<1>1. /\ messages # <<>> /\ Msg.type = "transfer" /\ messages' = Tail(messages) /\ tx' = tx
      /\ Msg.amount <= balance[Msg.asset]
      /\ balance' = Sent(b, Msg.asset, Msg.amount)
  BY <1>0 DEF Transfer, Dispatching, Changed
<1>2. balance \in [Assets -> Nat] /\ tx \in Transaction /\ Msg.asset \in Assets /\ Msg.amount \in Nat
  BY <1>1, HeadFacts
<1>3. 0 <= balance[Msg.asset] + - Msg.amount /\ - Msg.amount \in Int
  BY <1>1, <1>2
<1>5. /\ b \in [Assets -> Nat]
      /\ \A c \in Assets : b[c] = balance[c] + IF c = Msg.asset THEN - Msg.amount ELSE 0
  BY <1>2, <1>3, <1>0, ChangedFacts
<1>6. balance' \in [Assets -> Nat] /\ (tx.receiver # SELF => balance' = b)
  BY <1>1, <1>2, <1>5, SentFacts
<1>7. PICK d \in [Assets -> Nat] : \A a \in Assets : d[a] = 0
  <2>1. Zero \in [Assets -> Nat] /\ \A a \in Assets : Zero[a] = 0
    BY DEF Zero
  <2>2. QED BY <2>1
<1>8. \A a \in Assets : tx'.fees[a] = tx.fees[a] + d[a]
  BY <1>1, <1>2, <1>7, TransactionFacts
<1>9. Msg.type # "hook" /\ Msg.type # "astroport" /\ Msg.type \notin Inward
  BY <1>1 DEF Inward
<1>10. ASSUME tx.receiver # SELF
       PROVE  \A a \in Assets : balance'[a] = balance[a] + d[a] + IF a # Msg.asset THEN 0
                             ELSE IF Msg.type \in Inward THEN Msg.amount ELSE - Msg.amount
  BY <1>2, <1>5, <1>6, <1>7, <1>9, <1>10
<1>11. QED BY <1>1, <1>2, <1>6, <1>7, <1>8, <1>9, <1>10, Dispatched

LEMMA PrismSwapStep ==
  ASSUME CollectorInv, NEW out \in Outputs, NEW fee \in SwapFees, PrismSwap(out, fee)
  PROVE  CollectorInv'
<1>1. PICK asked : asked = IF Msg.type = "router" THEN {prism_token, tx.dest} ELSE {tx.dest}
  OBVIOUS
<1>2. PICK b : b = [balance EXCEPT ![Msg.asset] = @ + - Msg.amount]
  OBVIOUS
<1>3. PICK d : d = [a \in Assets |-> IF a \in asked THEN fee ELSE 0]
  OBVIOUS
<1>4. /\ messages # <<>> /\ Msg.type \in {"direct", "router"} /\ messages' = Tail(messages)
      /\ Msg.amount <= balance[Msg.asset]
      /\ balance' = [a \in Assets |-> Sent(b, tx.dest, out)[a] + d[a]]
      /\ tx' = [tx EXCEPT !.fees = [a \in Assets |-> @[a] + d[a]]]
  BY <1>1, <1>2, <1>3 DEF PrismSwap, Dispatching, Changed
<1>5. /\ balance \in [Assets -> Nat] /\ tx \in Transaction /\ Msg.asset \in Assets
      /\ Msg.amount \in Nat
  BY <1>4, HeadFacts
<1>6. tx.dest \in Assets /\ tx.fees \in [Assets -> Nat] /\ out \in Nat /\ fee \in Nat
  BY <1>5, TransactionFacts, CollectorAssumption
<1>7. 0 <= balance[Msg.asset] + - Msg.amount /\ - Msg.amount \in Int
  BY <1>4, <1>5
<1>8. /\ b \in [Assets -> Nat]
      /\ \A c \in Assets : b[c] = balance[c] + IF c = Msg.asset THEN - Msg.amount ELSE 0
  BY <1>2, <1>5, <1>7, ChangedFacts
<1>9. Sent(b, tx.dest, out) \in [Assets -> Nat] /\ (tx.receiver # SELF => Sent(b, tx.dest, out) = b)
  BY <1>6, <1>8, SentFacts
<1>10. d \in [Assets -> Nat]
  BY <1>3, <1>6
<1>11. balance' \in [Assets -> Nat] /\ \A a \in Assets : balance'[a] = Sent(b, tx.dest, out)[a] + d[a]
  <2>1. PICK z \in [Assets -> Nat] : z = Sent(b, tx.dest, out)
    BY <1>9
  <2>2. balance' = [a \in Assets |-> z[a] + d[a]]
    BY <1>4, <2>1
  <2>3. balance' \in [Assets -> Nat] /\ \A a \in Assets : balance'[a] = z[a] + d[a]
    BY <1>10, <2>2
  <2>4. QED BY <2>1, <2>3
<1>12. PICK f : f = [a \in Assets |-> tx.fees[a] + d[a]]
  OBVIOUS
<1>13. f \in [Assets -> Nat] /\ \A a \in Assets : f[a] = tx.fees[a] + d[a]
  BY <1>6, <1>10, <1>12
<1>14. tx' = [tx EXCEPT !.fees = f]
  BY <1>4, <1>12
<1>15. /\ tx' \in Transaction /\ tx'.fees = f /\ tx'.kind = tx.kind /\ tx'.assets = tx.assets
       /\ tx'.funds = tx.funds /\ tx'.before = tx.before /\ tx'.receiver = tx.receiver
       /\ tx'.dest = tx.dest /\ tx'.hooked = tx.hooked
  BY <1>5, <1>13, <1>14 DEF Transaction
<1>16. Msg.type # "hook" /\ Msg.type # "astroport" /\ Msg.type \notin Inward
  BY <1>4 DEF Inward
<1>17. ASSUME tx.receiver # SELF
       PROVE  \A a \in Assets : balance'[a] = balance[a] + d[a] + IF a # Msg.asset THEN 0
                             ELSE IF Msg.type \in Inward THEN Msg.amount ELSE - Msg.amount
  <2>1. TAKE a \in Assets
  <2>2. balance'[a] = b[a] + d[a]
    BY <1>9, <1>11, <1>17
  <2>3. balance[a] \in Nat /\ d[a] \in Nat
    BY <1>5, <1>10
  <2>4. b[a] = balance[a] + IF a = Msg.asset THEN - Msg.amount ELSE 0
    BY <1>8
  <2>5. QED BY <1>5, <1>16, <2>2, <2>3, <2>4
<1>18. ASSUME tx.kind = "distribute" PROVE \A a \in Assets : a # prism_token => d[a] = 0
  <2>1. tx.dest = prism_token
    BY <1>18 DEF CollectorInv, DistributePrism
  <2>2. QED BY <1>1, <1>3, <2>1
<1>19. \A a \in Assets : tx'.fees[a] = tx.fees[a] + d[a]
  BY <1>13, <1>15
<1>20. QED BY <1>4, <1>10, <1>11, <1>15, <1>16, <1>17, <1>18, <1>19, Dispatched

LEMMA AstroSwapStep ==
  ASSUME CollectorInv, NEW out \in Outputs, AstroSwap(out)
  PROVE  CollectorInv'
<1>1. PICK b : b = [balance EXCEPT ![Msg.asset] = @ + - Msg.amount]
  OBVIOUS
<1>2. /\ messages # <<>> /\ Msg.type = "astroport" /\ messages' = Tail(messages) /\ tx' = tx
      /\ Msg.amount <= balance[Msg.asset]
      /\ balance' = [b EXCEPT ![base_denom] = @ + out]
  BY <1>1 DEF AstroSwap, Dispatching, Changed
<1>3. /\ balance \in [Assets -> Nat] /\ tx \in Transaction /\ Msg.asset \in Assets
      /\ Msg.amount \in Nat /\ base_denom \in Assets /\ out \in Nat
  BY <1>2, HeadFacts, CollectorAssumption
<1>4. 0 <= balance[Msg.asset] + - Msg.amount /\ - Msg.amount \in Int
  BY <1>2, <1>3
<1>5. /\ b \in [Assets -> Nat]
      /\ \A c \in Assets : b[c] = balance[c] + IF c = Msg.asset THEN - Msg.amount ELSE 0
  BY <1>1, <1>3, <1>4, ChangedFacts
<1>6. 0 <= b[base_denom] + out
  BY <1>3, <1>5
<1>7. /\ balance' \in [Assets -> Nat]
      /\ \A c \in Assets : balance'[c] = b[c] + IF c = base_denom THEN out ELSE 0
  BY <1>2, <1>3, <1>5, <1>6, ChangedFacts
<1>8. PICK d \in [Assets -> Nat] : \A a \in Assets : d[a] = 0
  <2>1. Zero \in [Assets -> Nat] /\ \A a \in Assets : Zero[a] = 0
    BY DEF Zero
  <2>2. QED BY <2>1
<1>9. \A a \in Assets : tx'.fees[a] = tx.fees[a] + d[a]
  BY <1>2, <1>3, <1>8, TransactionFacts
<1>10. Msg.type # "hook" /\ Msg.type \notin Inward
  BY <1>2 DEF Inward
<1>11. ASSUME NEW a \in Assets, a # base_denom
       PROVE  balance'[a] = balance[a] + d[a] + IF a # Msg.asset THEN 0
                             ELSE IF Msg.type \in Inward THEN Msg.amount ELSE - Msg.amount
  <2>1. balance'[a] = b[a] + 0 /\ b[a] \in Nat /\ balance[a] \in Nat
    BY <1>3, <1>5, <1>7, <1>11
  <2>2. b[a] = balance[a] + IF a = Msg.asset THEN - Msg.amount ELSE 0
    BY <1>5
  <2>3. QED BY <1>3, <1>8, <1>10, <2>1, <2>2
<1>12. QED BY <1>2, <1>3, <1>7, <1>8, <1>9, <1>10, <1>11, Dispatched, SMTT(30)

\* The hook is the last message: nothing else is under way.
LEMMA HookStep ==
  ASSUME CollectorInv, base_swap_hook
  PROVE  CollectorInv'
<1>1. PICK x : x = balance[base_denom] - Msg.amount
  OBVIOUS
<1>2. PICK base_asset : base_asset = <<[info |-> base_denom, amount |-> x]>>
  OBVIOUS
<1>3. PICK s : s = swap_msgs(base_asset, tx.dest)
  OBVIOUS
<1>4. /\ messages # <<>> /\ Msg.type = "hook" /\ x >= 0
      /\ Routable(base_asset, tx.dest) /\ ~ need_hook(base_asset, tx.dest)
      /\ messages' = s \o Tail(messages)
      /\ tx' = [tx EXCEPT !.hooked = TRUE] /\ balance' = balance
  BY <1>1, <1>2, <1>3 DEF base_swap_hook, Dispatching
<1>5. /\ balance \in [Assets -> Nat] /\ tx \in Transaction /\ ~ Idle /\ Msg.amount \in Int
      /\ base_denom \in Assets
  BY <1>4, HeadFacts, CollectorAssumption
<1>6. /\ messages \in Seq(Message) /\ DOMAIN messages = {1} /\ Tail(messages) = <<>>
      /\ Msg = messages[1] /\ messages[1].type = "hook" /\ messages[1].amount = Floor /\ ~ tx.hooked
  <2>1. messages \in Seq(Message) /\ 1 \in DOMAIN messages /\ Msg = messages[1] /\ messages[1].type = "hook"
    BY <1>4 DEF CollectorInv, CollectorTypes, Msg
  <2>2. 1 = Len(messages) /\ messages[1].amount = Floor /\ ~ tx.hooked
    BY <2>1 DEF CollectorInv, HookLast
  <2>3. DOMAIN messages = {1}
    BY <2>1, <2>2
  <2>4. Tail(messages) \in Seq(Message) /\ Len(Tail(messages)) = 0
    BY <1>4, <2>1, <2>2
  <2>5. Tail(messages) = <<>>
    BY <2>4, EmptySeq
  <2>6. QED BY <2>1, <2>2, <2>3, <2>5
<1>7. /\ tx.kind \in {"none", "convert", "distribute"} /\ tx.dest \in Assets
      /\ tx.fees \in [Assets -> Nat]
  BY <1>5, TransactionFacts
<1>8. /\ tx' \in Transaction /\ tx'.fees = tx.fees /\ tx'.kind = tx.kind /\ tx'.assets = tx.assets
      /\ tx'.funds = tx.funds /\ tx'.before = tx.before /\ tx'.receiver = tx.receiver
      /\ tx'.dest = tx.dest /\ tx'.hooked = TRUE
  BY <1>4, <1>5 DEF Transaction
<1>9. x \in Nat
  BY <1>1, <1>4, <1>5
<1>10. /\ base_asset \in Seq(Asset) /\ DOMAIN base_asset = {1} /\ base_asset[1].info = base_denom
       /\ base_asset[1].amount = x
  <2>1. [info |-> base_denom, amount |-> x] \in Asset
    BY <1>5, <1>9 DEF Asset
  <2>2. QED BY <1>2, <2>1
<1>11. PICK out : out = [a \in Assets |-> AmountOf(base_asset, a)]
  OBVIOUS
<1>12. NoDuplicates(base_asset)
  BY <1>10 DEF NoDuplicates
<1>13. /\ out \in [Assets -> Nat] /\ out[base_denom] = x
       /\ \A a \in Assets : a # base_denom => out[a] = 0
  <2>1. AmountOf(base_asset, base_denom) = x
    BY <1>10, <1>12, AmountFacts
  <2>2. \A a \in Assets : AmountOf(base_asset, a) \in Nat
    BY <1>10, <1>12, AmountFacts
  <2>3. \A a \in Assets : a # base_denom => AmountOf(base_asset, a) = 0
    BY <1>10, <1>12, AmountFacts
  <2>4. QED BY <1>5, <1>11, <2>1, <2>2, <2>3
<1>14. /\ s \in Seq(Message) /\ Carry(s, Outward, out)
       /\ \A n \in DOMAIN s : s[n].type \in Outward /\ s[n].amount \in Nat /\ s[n].type # "astroport"
  BY <1>3, <1>4, <1>7, <1>10, <1>11, SwapMessages
<1>15. messages' = s
  BY <1>4, <1>6, <1>14
<1>16. \A n \in DOMAIN s : s[n].type # "hook" /\ s[n].type \notin Inward
  BY <1>14 DEF Outward, Inward
<1>17. (\A a \in Assets : Own(a)' = Own(a)) /\ Floor' = Floor
  BY <1>8, OwnKept
<1>18. CollectorTypes'
  <2>1. NoDuplicates(tx.assets)
    BY DEF CollectorInv, CollectorTypes
  <2>2. NoDuplicates(tx.assets)'
    BY <1>8, <2>1 DEF NoDuplicates
  <2>3. ~ Idle'
    BY <1>5, <1>8 DEF Idle
  <2>4. QED BY <1>4, <1>5, <1>8, <1>14, <1>15, <2>2, <2>3 DEF CollectorTypes
<1>19. HookLast' /\ ~ Hooking'
  BY <1>14, <1>15, <1>16 DEF HookLast, Hooking
<1>20. DistributePrism'
  BY <1>8 DEF CollectorInv, DistributePrism
<1>21. Balanced'
  <2>1. SUFFICES ASSUME tx.receiver # SELF
        PROVE  \E in, o2 \in [Assets -> Nat] :
                 /\ Carry(messages', Inward, in) /\ Carry(messages', Outward, o2)
                 /\ \A a \in Assets : Accounted(a, balance[a] + in[a] - o2[a])'
    BY <1>8 DEF Balanced
  <2>2. PICK i1 \in [Assets -> Nat], o1 \in [Assets -> Nat] :
          /\ Carry(messages, Inward, i1) /\ Carry(messages, Outward, o1)
          /\ \A a \in Assets : Accounted(a, balance[a] + i1[a] - o1[a])
    BY <1>5, <2>1 DEF CollectorInv, Balanced
  <2>3. \A a \in Assets : i1[a] = 0 /\ o1[a] = 0
    BY <1>6, <2>2 DEF Carry, Inward, Outward
  <2>4. PICK in \in [Assets -> Nat] : \A a \in Assets : in[a] = 0
    <3>1. Zero \in [Assets -> Nat] /\ \A a \in Assets : Zero[a] = 0
      BY DEF Zero
    <3>2. QED BY <3>1
  <2>5. Carry(messages', Inward, in)
    BY <1>15, <1>16, <2>4 DEF Carry
  <2>6. ASSUME NEW a \in Assets PROVE Accounted(a, balance[a] + in[a] - out[a])'
    <3>1. CASE a = base_denom
      <4>1. balance[a] \in Nat /\ tx.fees[a] \in Nat /\ Floor \in Int /\ balance[a] - Floor = x
        BY <1>1, <1>5, <1>6, <1>7, <3>1
      <4>2. balance'[a] + in[a] - out[a] = Floor
        BY <1>4, <1>13, <2>4, <3>1, <4>1
      <4>3. Floor' <= balance'[a] + in[a] - out[a] /\ balance'[a] + in[a] - out[a] <= Floor' + tx'.fees[a]
        BY <1>8, <1>17, <4>1, <4>2
      <4>4. QED BY <1>8, <3>1, <4>3 DEF Accounted
    <3>2. CASE a # base_denom
      <4>1. balance[a] \in Nat
        BY <1>5
      <4>2. balance[a] + i1[a] - o1[a] = Own(a) + tx.fees[a]
        BY <2>2, <3>2 DEF Accounted
      <4>3. balance[a] + i1[a] - o1[a] = balance'[a] + in[a] - out[a]
        BY <1>4, <1>13, <2>3, <2>4, <3>2, <4>1
      <4>4. balance'[a] + in[a] - out[a] = Own(a)' + tx'.fees[a]
        BY <1>8, <1>17, <4>2, <4>3
      <4>5. QED BY <3>2, <4>4 DEF Accounted
    <3>3. QED BY <3>1, <3>2
  <2>7. QED BY <1>13, <1>14, <1>15, <2>4, <2>5, <2>6
<1>22. QED BY <1>18, <1>19, <1>20, <1>21 DEF CollectorInv

\* A call has set the transaction and its messages: s, and a hook where one is needed.
LEMMA Started ==
  ASSUME NEW need \in BOOLEAN, NEW prev \in Int, NEW s \in Seq(Message),
         \A i \in DOMAIN s : /\ s[i].type # "hook" /\ s[i].amount \in Nat
                             /\ s[i].type = "astroport" => need,
         HookBehind(messages', s, need, prev),
         NEW in \in [Assets -> Nat], NEW out \in [Assets -> Nat],
         Carry(s, Inward, in), Carry(s, Outward, out),
         balance' \in [Assets -> Nat], tx' \in Transaction, NoDuplicates(tx'.assets),
         tx'.kind # "none", ~ tx'.hooked, DistributePrism', prev = Floor',
         \A a \in Assets : tx'.fees[a] = 0,
         \A a \in Assets : balance'[a] + in[a] - out[a] = Own(a)'
  PROVE  CollectorInv'
<1>1. /\ messages' \in Seq(Message)
      /\ \A i \in DOMAIN messages' :
              \/ messages'[i].type = "hook" /\ need /\ i = Len(messages') /\ messages'[i].amount = prev
              \/ i \in DOMAIN s /\ messages'[i] = s[i]
      /\ (\E i \in DOMAIN messages' : messages'[i].type = "hook") <=> need
      /\ \A C, f : Carry(s, C, f) /\ "hook" \notin C => Carry(messages', C, f)
  BY DEF HookBehind
<1>2. Carry(messages', Inward, in) /\ Carry(messages', Outward, out)
  <2>1. "hook" \notin Inward /\ "hook" \notin Outward
    BY DEF Inward, Outward
  <2>3. QED BY <1>1, <2>1
<1>3. CollectorTypes'
  <2>1. \A i \in DOMAIN messages' : messages'[i].type # "hook" => messages'[i].amount \in Nat
    BY <1>1
  <2>2. ~ Idle'
    BY DEF Idle
  <2>3. NoDuplicates(tx.assets)'
    BY DEF NoDuplicates
  <2>4. QED BY <1>1, <2>1, <2>2, <2>3 DEF CollectorTypes
<1>4. HookLast'
  <2>1. ASSUME NEW i \in DOMAIN messages', messages'[i].type = "hook"
        PROVE  i = Len(messages') /\ messages'[i].amount = Floor' /\ ~ tx'.hooked
    BY <1>1, <2>1
  <2>2. ASSUME NEW i \in DOMAIN messages', messages'[i].type = "astroport" PROVE Hooking'
    <3>1. need
      BY <1>1, <2>2
    <3>2. QED BY <1>1, <3>1 DEF Hooking
  <2>3. QED BY <2>1, <2>2 DEF HookLast
<1>5. \A a \in Assets : Accounted(a, balance[a] + in[a] - out[a])'
  <2>1. TAKE a \in Assets
  <2>2. balance'[a] + in[a] - out[a] = Own(a)' + tx'.fees[a]
    <3>1. balance'[a] \in Nat /\ in[a] \in Nat /\ out[a] \in Nat
      OBVIOUS
    <3>2. balance'[a] + in[a] - out[a] = Own(a)' /\ tx'.fees[a] = 0
      OBVIOUS
    <3>3. Own(a)' \in Int
      BY <3>1, <3>2
    <3>4. QED BY <3>2, <3>3
  <2>3. QED BY <2>2 DEF Accounted
<1>6. Balanced'
  BY <1>2, <1>5 DEF Balanced
<1>7. QED BY <1>3, <1>4, <1>6 DEF CollectorInv

\* The guard of convert_and_send on natives: what was sent, or nothing.
LEMMA NativesSent ==
  ASSUME NEW assets \in Seq(Asset), NoDuplicates(assets), NEW funds,
         \A i \in DOMAIN NonZero(assets) :
            NonZero(assets)[i].info \in Natives =>
              funds[NonZero(assets)[i].info] = NonZero(assets)[i].amount,
         NEW a \in Natives
  PROVE  AmountOf(assets, a) = 0 \/ AmountOf(assets, a) = funds[a]
<1>1. SUFFICES ASSUME AmountOf(assets, a) # 0 PROVE AmountOf(assets, a) = funds[a]
  OBVIOUS
<1>2. a \in Assets
  BY CollectorAssumption
<1>3. PICK i \in DOMAIN assets : assets[i].info = a
  BY <1>1, <1>2, AmountFacts
<1>4. assets[i].amount \in Nat /\ AmountOf(assets, a) = assets[i].amount
  BY <1>3, AmountFacts
<1>5. PICK P : P = {j \in DOMAIN assets : assets[j].amount > 0}
  OBVIOUS
<1>6. i \in P /\ P \subseteq DOMAIN assets /\ NonZero(assets) = At(assets, P)
  BY <1>1, <1>4, <1>5 DEF NonZero
<1>7. PICK n \in DOMAIN NonZero(assets) : NonZero(assets)[n] = assets[i]
  BY <1>6, AtFacts
<1>8. QED BY <1>3, <1>4, <1>7

LEMMA ConvertStep ==
  ASSUME CollectorInv, NEW assets \in AssetLists, NEW funds \in Funds, NEW r \in Receivers,
         NEW dest \in DestAssets, convert_and_send(assets, funds, r, dest)
  PROVE  CollectorInv'
<1>1. PICK prev : prev = original_base_balance(assets, funds)
  OBVIOUS
<1>2. PICK tf : tf = transfer_from_msgs(assets)
  OBVIOUS
<1>3. PICK sw : sw = swap_msgs(assets, dest)
  OBVIOUS
<1>4. /\ Idle /\ Routable(assets, dest)
      /\ \A i \in DOMAIN NonZero(assets) :
            NonZero(assets)[i].info \in Natives =>
              funds[NonZero(assets)[i].info] = NonZero(assets)[i].amount
      /\ balance' = [a \in Assets |-> balance[a] + funds[a]]
      /\ messages' = (tf \o sw) \o Hook(assets, dest, prev)
      /\ tx' = [NoTx EXCEPT !.kind = "convert", !.assets = assets, !.funds = funds,
                            !.receiver = r, !.dest = dest, !.before = balance]
  BY <1>1, <1>2, <1>3 DEF convert_and_send
<1>5. assets \in Seq(Asset) /\ NoDuplicates(assets) /\ dest \in Assets
  <2>1. PICK n \in 1..MaxLength : assets \in [1..n -> [info: Assets, amount: Amounts]]
    BY DEF AssetLists
  <2>2. n \in Nat /\ Amounts \subseteq Nat
    BY CollectorAssumption
  <2>3. \A i \in 1..n : assets[i] \in Asset
    <3>1. TAKE i \in 1..n
    <3>2. assets[i] \in [info: Assets, amount: Amounts]
      BY <2>1
    <3>3. QED BY <2>2, <3>2 DEF Asset
  <2>4. assets \in Seq(Asset)
    BY <2>1, <2>2, <2>3
  <2>5. QED BY <1>4, <2>4, CollectorAssumption DEF Routable
<1>6. funds \in [Assets -> Nat] /\ \A a \in Assets \ Natives : funds[a] = 0
  <2>1. Amounts \cup {0} \subseteq Nat
    BY CollectorAssumption
  <2>2. funds \in [Assets -> Amounts \cup {0}] /\ \A a \in Assets \ Natives : funds[a] = 0
    BY DEF Funds
  <2>3. \A a \in Assets : funds[a] \in Nat
    BY <2>1, <2>2
  <2>4. QED BY <2>2, <2>3
<1>7. balance \in [Assets -> Nat]
  BY DEF CollectorInv, CollectorTypes
<1>8. /\ tx' \in Transaction /\ tx'.kind = "convert" /\ tx'.assets = assets /\ tx'.funds = funds
      /\ tx'.before = balance /\ tx'.fees = Zero /\ tx'.hooked = FALSE
  <2>1. Zero \in [Assets -> Nat] /\ <<>> \in Seq(Asset)
    BY DEF Zero
  <2>2. tx' = [kind |-> "convert", assets |-> assets, funds |-> funds, receiver |-> r,
               dest |-> dest, before |-> balance, fees |-> Zero, hooked |-> FALSE]
    BY <1>4 DEF NoTx
  <2>3. QED BY <1>5, <1>6, <1>7, <2>1, <2>2 DEF Transaction
<1>9. PICK in : in = [a \in Assets |-> IF a \in Natives THEN 0 ELSE AmountOf(assets, a)]
  OBVIOUS
<1>10. PICK out : out = [a \in Assets |-> AmountOf(assets, a)]
  OBVIOUS
<1>11. \A a \in Assets : AmountOf(assets, a) \in Nat
  BY <1>5, AmountFacts
<1>12. in \in [Assets -> Nat] /\ out \in [Assets -> Nat]
  BY <1>9, <1>10, <1>11
<1>13. /\ tf \in Seq(Message) /\ Carry(tf, Inward, in)
       /\ \A n \in DOMAIN tf : tf[n].type = "transfer_from" /\ tf[n].amount \in Nat
  BY <1>2, <1>5, <1>9, TransferFromMessages
<1>14. /\ sw \in Seq(Message) /\ Carry(sw, Outward, out)
       /\ \A n \in DOMAIN sw : /\ sw[n].type \in Outward /\ sw[n].amount \in Nat
                               /\ sw[n].type = "astroport" => need_hook(assets, dest)
  BY <1>3, <1>4, <1>5, <1>10, SwapMessages
<1>15. PICK s : s = tf \o sw
  OBVIOUS
<1>16. s \in Seq(Message) /\ Carry(s, Inward, in) /\ Carry(s, Outward, out)
  <2>1. (\A n \in DOMAIN tf : tf[n].type \notin Outward) /\ \A n \in DOMAIN sw : sw[n].type \notin Inward
    BY <1>13, <1>14 DEF Inward, Outward
  <2>2. s \in Seq(Message)
    BY <1>13, <1>14, <1>15
  <2>3. Carry(s, Inward, in)
    BY <1>13, <1>14, <1>15, <2>1, CarryConcat
  <2>4. Carry(s, Outward, out)
    BY <1>13, <1>14, <1>15, <2>1, CarryConcat
  <2>5. QED BY <2>2, <2>3, <2>4
<1>17. \A i \in DOMAIN s : /\ s[i].type # "hook" /\ s[i].amount \in Nat
                           /\ s[i].type = "astroport" => need_hook(assets, dest)
  <2>1. TAKE i \in DOMAIN s
  <2>2. PICK k \in Nat, n \in Nat : k = Len(tf) /\ n = Len(sw)
    BY <1>13, <1>14
  <2>3. /\ DOMAIN s = 1..(k + n) /\ DOMAIN tf = 1..k /\ DOMAIN sw = 1..n
        /\ (\A j \in 1..k : s[j] = tf[j]) /\ \A j \in 1..n : s[k + j] = sw[j]
    BY <1>13, <1>14, <1>15, <2>2, ConcatFacts
  <2>4. CASE i \in 1..k
    BY <1>13, <2>3, <2>4
  <2>5. CASE i - k \in 1..n /\ k + (i - k) = i
    <3>1. s[i] = sw[i - k] /\ i - k \in DOMAIN sw
      BY <2>3, <2>5
    <3>2. s[i].type \in Outward /\ s[i].amount \in Nat /\ (s[i].type = "astroport" => need_hook(assets, dest))
      BY <1>14, <3>1
    <3>3. QED BY <3>2 DEF Outward
  <2>6. QED BY <2>2, <2>3, <2>4, <2>5
<1>18. balance' \in [Assets -> Nat] /\ \A a \in Assets : balance'[a] = balance[a] + funds[a]
  BY <1>4, <1>6, <1>7
<1>19. \A a \in Assets : Own(a)' = balance[a] + IF a \in Natives THEN funds[a] - AmountOf(assets, a) ELSE 0
  BY <1>8 DEF Own, Unlisted
<1>20. \A a \in Assets : balance'[a] + in[a] - out[a] = Own(a)'
  <2>1. TAKE a \in Assets
  <2>2. balance[a] \in Nat /\ funds[a] \in Nat /\ AmountOf(assets, a) \in Nat
    BY <1>6, <1>7, <1>11
  <2>3. CASE a \in Natives
    BY <1>9, <1>10, <1>18, <1>19, <2>2, <2>3
  <2>4. CASE a \notin Natives
    <3>1. funds[a] = 0
      BY <1>6, <2>4
    <3>2. QED BY <1>9, <1>10, <1>18, <1>19, <2>2, <2>4, <3>1
  <2>5. QED BY <2>3, <2>4
<1>21. prev \in Int /\ prev = Floor'
  <2>1. base_denom \in Assets /\ base_denom \in Natives
    BY CollectorAssumption
  <2>2. balance[base_denom] \in Nat /\ funds[base_denom] \in Nat /\ AmountOf(assets, base_denom) \in Nat
    BY <1>6, <1>7, <1>11, <2>1
  <2>3. prev = balance[base_denom] + funds[base_denom] - AmountOf(assets, base_denom)
    BY <1>1 DEF original_base_balance
  <2>4. Floor' = balance[base_denom] + (funds[base_denom] - AmountOf(assets, base_denom))
    <3>1. Floor' = Own(base_denom)'
      BY <1>8 DEF Floor
    <3>2. QED BY <1>19, <2>1, <3>1
  <2>5. QED BY <2>2, <2>3, <2>4
<1>22. DistributePrism'
  BY <1>8 DEF DistributePrism
<1>23. \A a \in Assets : tx'.fees[a] = 0
  BY <1>8 DEF Zero
<1>24. PICK need \in BOOLEAN : need = need_hook(assets, dest)
  BY DEF need_hook
<1>25. /\ NoDuplicates(tx'.assets) /\ tx'.kind # "none" /\ ~ tx'.hooked
       /\ \A i \in DOMAIN s : /\ s[i].type # "hook" /\ s[i].amount \in Nat
                              /\ s[i].type = "astroport" => need
  BY <1>5, <1>8, <1>17, <1>24
<1>26. HookBehind(messages', s, need, prev)
  <2>1. HookBehind(s \o Hook(assets, dest, prev), s, need_hook(assets, dest), prev)
    BY <1>16, <1>17, <1>21, HookMessages
  <2>2. QED BY <1>4, <1>15, <1>24, <2>1
<1>27. QED BY <1>8, <1>12, <1>16, <1>18, <1>20, <1>21, <1>22, <1>23, <1>25, <1>26, Started, Zenon

LEMMA DistributeStep ==
  ASSUME CollectorInv, NEW infos \in InfoLists, distribute(infos)
  PROVE  CollectorInv'
<1>1. PICK assets : assets = [i \in DOMAIN infos |-> [info |-> infos[i], amount |-> balance[infos[i]]]]
  OBVIOUS
<1>2. PICK s : s = swap_msgs(assets, prism_token)
  OBVIOUS
<1>3. /\ Idle /\ Routable(assets, prism_token)
      /\ messages' = s \o Hook(assets, prism_token, 0)
      /\ tx' = [NoTx EXCEPT !.kind = "distribute", !.assets = assets, !.before = balance,
                            !.receiver = distribution_contract]
      /\ balance' = balance
  BY <1>1, <1>2 DEF distribute, distribute_prev_base_balance
<1>4. balance \in [Assets -> Nat] /\ prism_token \in Assets /\ distribution_contract # SELF
  BY CollectorAssumption DEF CollectorInv, CollectorTypes
<1>5. assets \in Seq(Asset) /\ \A i \in DOMAIN assets : assets[i].amount = balance[assets[i].info]
  <2>1. PICK n \in 1..MaxLength : infos \in [1..n -> Assets]
    BY DEF InfoLists
  <2>2. n \in Nat
    BY CollectorAssumption
  <2>3. \A i \in 1..n : assets[i] \in Asset /\ assets[i].amount = balance[assets[i].info]
    <3>1. TAKE i \in 1..n
    <3>2. infos[i] \in Assets /\ assets[i] = [info |-> infos[i], amount |-> balance[infos[i]]]
      BY <1>1, <2>1
    <3>3. balance[infos[i]] \in Nat
      BY <1>4, <3>2
    <3>4. QED BY <3>2, <3>3 DEF Asset
  <2>4. DOMAIN assets = 1..n /\ assets = [i \in 1..n |-> assets[i]]
    BY <1>1, <2>1
  <2>5. QED BY <2>2, <2>3, <2>4
<1>6. NoDuplicates(assets)
  BY <1>3 DEF Routable
<1>7. /\ tx' \in Transaction /\ tx'.kind = "distribute" /\ tx'.assets = assets
      /\ tx'.before = balance /\ tx'.fees = Zero /\ tx'.hooked = FALSE
      /\ tx'.dest = prism_token /\ tx'.receiver = distribution_contract
  <2>1. Zero \in [Assets -> Nat]
    BY DEF Zero
  <2>2. tx' = [kind |-> "distribute", assets |-> assets, funds |-> Zero,
               receiver |-> distribution_contract, dest |-> prism_token, before |-> balance,
               fees |-> Zero, hooked |-> FALSE]
    BY <1>3 DEF NoTx
  <2>3. QED BY <1>4, <1>5, <2>1, <2>2 DEF Transaction
<1>8. PICK in \in [Assets -> Nat] : \A a \in Assets : in[a] = 0
  <2>1. Zero \in [Assets -> Nat] /\ \A a \in Assets : Zero[a] = 0
    BY DEF Zero
  <2>2. QED BY <2>1
<1>9. PICK out : out = [a \in Assets |-> AmountOf(assets, a)]
  OBVIOUS
<1>10. out \in [Assets -> Nat]
  BY <1>5, <1>6, <1>9, AmountFacts
<1>11. /\ s \in Seq(Message) /\ Carry(s, Outward, out)
       /\ \A n \in DOMAIN s : /\ s[n].type \in Outward /\ s[n].amount \in Nat
                              /\ s[n].type = "astroport" => need_hook(assets, prism_token)
  BY <1>2, <1>3, <1>4, <1>5, <1>9, SwapMessages
<1>12. \A n \in DOMAIN s : s[n].type # "hook" /\ s[n].type \notin Inward
  BY <1>11 DEF Outward, Inward
<1>13. Carry(s, Inward, in)
  BY <1>8, <1>12 DEF Carry
<1>14. \A a \in Assets : balance'[a] + in[a] - out[a] = Own(a)'
  <2>1. TAKE a \in Assets
  <2>2. balance[a] \in Nat
    BY <1>4
  <2>3. CASE \E i \in DOMAIN assets : assets[i].info = a
    <3>1. out[a] = balance[a]
      BY <1>5, <1>6, <1>9, <2>3, AmountFacts
    <3>2. Own(a)' = 0
      BY <1>7, <2>3 DEF Own
    <3>3. QED BY <1>3, <1>8, <2>2, <3>1, <3>2
  <2>4. CASE \A i \in DOMAIN assets : assets[i].info # a
    <3>1. out[a] = 0
      BY <1>5, <1>6, <1>9, <2>4, AmountFacts
    <3>2. Own(a)' = balance[a]
      BY <1>7, <2>4 DEF Own
    <3>3. QED BY <1>3, <1>8, <2>2, <3>1, <3>2
  <2>5. QED BY <2>3, <2>4
<1>15. 0 \in Int /\ 0 = Floor'
  BY <1>7 DEF Floor
<1>16. \A a \in Assets : tx'.fees[a] = 0
  BY <1>7 DEF Zero
<1>17. DistributePrism'
  BY <1>4, <1>7, <1>16 DEF DistributePrism
<1>18. PICK need \in BOOLEAN : need = need_hook(assets, prism_token)
  BY DEF need_hook
<1>19. /\ NoDuplicates(tx'.assets) /\ tx'.kind # "none" /\ ~ tx'.hooked
       /\ \A i \in DOMAIN s : /\ s[i].type # "hook" /\ s[i].amount \in Nat
                              /\ s[i].type = "astroport" => need
  BY <1>6, <1>7, <1>11, <1>12, <1>18
<1>20. HookBehind(messages', s, need, 0)
  <2>1. HookBehind(s \o Hook(assets, prism_token, 0), s, need_hook(assets, prism_token), 0)
    BY <1>11, <1>12, <1>15, HookMessages
  <2>2. QED BY <1>3, <1>18, <2>1
<1>21. balance' \in [Assets -> Nat]
  BY <1>3, <1>4
<1>22. QED BY <1>7, <1>8, <1>10, <1>11, <1>13, <1>14, <1>15, <1>16, <1>17, <1>19, <1>20, <1>21,
              Started, Zenon

\* Between transactions.
LEMMA IdleInv ==
  ASSUME balance' \in [Assets -> Nat], messages' = <<>>, tx' = NoTx
  PROVE  CollectorInv'
<1>1. NoTx \in Transaction /\ NoTx.kind = "none" /\ NoTx.assets = <<>>
  <2>1. Zero \in [Assets -> Nat] /\ <<>> \in Seq(Asset) /\ prism_token \in Assets
    BY CollectorAssumption DEF Zero
  <2>2. QED BY <2>1 DEF NoTx, Transaction
<1>2. NoDuplicates(tx.assets)'
  BY <1>1 DEF NoDuplicates
<1>3. messages' \in Seq(Message) /\ DOMAIN messages' = {}
  OBVIOUS
<1>4. CollectorTypes'
  BY <1>1, <1>2, <1>3 DEF CollectorTypes
<1>5. HookLast'
  BY <1>3 DEF HookLast
<1>6. DistributePrism' /\ Balanced'
  BY <1>1 DEF DistributePrism, Balanced, Idle
<1>7. QED BY <1>4, <1>5, <1>6 DEF CollectorInv

LEMMA IdleStep ==
  ASSUME CollectorInv, Idle, balance' \in [Assets -> Nat], UNCHANGED <<messages, tx>>
  PROVE  CollectorInv'
<1>1. messages = <<>> /\ messages' = messages /\ tx' = tx
  BY DEF CollectorInv, CollectorTypes
<1>2. messages' \in Seq(Message) /\ DOMAIN messages' = {}
  BY <1>1
<1>3. CollectorTypes'
  <2>1. NoDuplicates(tx.assets)'
    BY <1>1 DEF CollectorInv, CollectorTypes, NoDuplicates
  <2>2. QED BY <1>1, <1>2, <2>1 DEF CollectorInv, CollectorTypes
<1>4. HookLast'
  BY <1>2 DEF HookLast
<1>5. DistributePrism' /\ Balanced'
  BY <1>1 DEF DistributePrism, Balanced, Idle
<1>6. QED BY <1>3, <1>4, <1>5 DEF CollectorInv

LEMMA CollectorInit == Init => CollectorInv
<1>1. SUFFICES ASSUME Init PROVE CollectorInv
  OBVIOUS
<1>2. /\ balance = Zero /\ messages = <<>> /\ tx = NoTx
  BY <1>1 DEF Init
<1>3. NoTx \in Transaction /\ NoTx.kind = "none" /\ NoTx.assets = <<>> /\ Zero \in [Assets -> Nat]
  <2>1. Zero \in [Assets -> Nat] /\ <<>> \in Seq(Asset) /\ prism_token \in Assets
    BY CollectorAssumption DEF Zero
  <2>2. QED BY <2>1 DEF NoTx, Transaction
<1>4. NoDuplicates(tx.assets)
  BY <1>2, <1>3 DEF NoDuplicates
<1>5. messages \in Seq(Message) /\ DOMAIN messages = {}
  BY <1>2
<1>6. CollectorTypes
  BY <1>2, <1>3, <1>4, <1>5 DEF CollectorTypes
<1>7. HookLast
  BY <1>5 DEF HookLast
<1>8. DistributePrism /\ Balanced
  BY <1>2, <1>3 DEF DistributePrism, Balanced, Idle
<1>9. QED BY <1>6, <1>7, <1>8 DEF CollectorInv

LEMMA CollectorStep == CollectorInv /\ [Next]_vars => CollectorInv'
<1>1. SUFFICES ASSUME CollectorInv, [Next]_vars PROVE CollectorInv'
  OBVIOUS
<1>2. balance \in [Assets -> Nat] /\ tx.before \in [Assets -> Nat]
  BY <1>1, TransactionFacts DEF CollectorInv, CollectorTypes
<1>3. CASE \E assets \in AssetLists, funds \in Funds, r \in Receivers, dest \in DestAssets :
             convert_and_send(assets, funds, r, dest)
  BY <1>1, <1>3, ConvertStep
<1>4. CASE \E infos \in InfoLists : distribute(infos)
  BY <1>1, <1>4, DistributeStep
<1>5. CASE TransferFrom
  BY <1>1, <1>5, TransferFromStep
<1>6. CASE Transfer
  BY <1>1, <1>6, TransferStep
<1>7. CASE \E out \in Outputs, fee \in SwapFees : PrismSwap(out, fee)
  BY <1>1, <1>7, PrismSwapStep
<1>8. CASE \E out \in Outputs : AstroSwap(out)
  BY <1>1, <1>8, AstroSwapStep
<1>9. CASE base_swap_hook
  BY <1>1, <1>9, HookStep
<1>10. CASE Commit
  <2>1. balance' = balance /\ messages' = <<>> /\ tx' = NoTx
    BY <1>10 DEF Commit, Done
  <2>2. QED BY <1>2, <2>1, IdleInv
<1>11. CASE Revert
  <2>1. balance' = tx.before /\ messages' = <<>> /\ tx' = NoTx
    BY <1>11 DEF Revert
  <2>2. QED BY <1>2, <2>1, IdleInv
<1>12. CASE \E a \in Assets : FeesArrive(a)
  <2>1. PICK a \in Assets : FeesArrive(a)
    BY <1>12
  <2>2. Idle /\ balance' = [balance EXCEPT ![a] = @ + 1] /\ messages' = messages /\ tx' = tx
    BY <2>1 DEF FeesArrive
  <2>3. balance' \in [Assets -> Nat]
    BY <1>2, <2>2
  <2>4. QED BY <1>1, <2>2, <2>3, IdleStep
<1>13. CASE PairCreated
  <2>1. Idle /\ balance' = balance /\ messages' = messages /\ tx' = tx
    BY <1>13 DEF PairCreated
  <2>2. QED BY <1>1, <1>2, <2>1, IdleStep
<1>14. CASE UNCHANGED vars
  <2>1. balance' = balance /\ messages' = messages /\ tx' = tx
    BY <1>14 DEF vars
  <2>2. CollectorTypes'
    BY <1>1, <2>1 DEF CollectorInv, CollectorTypes, Idle
  <2>3. (\A a \in Assets : Own(a)' = Own(a)) /\ Floor' = Floor
    BY <2>1, OwnKept
  <2>4. Hooking' <=> Hooking
    BY <2>1 DEF Hooking
  <2>5. HookLast'
    BY <1>1, <2>1, <2>3, <2>4 DEF CollectorInv, HookLast
  <2>6. DistributePrism'
    BY <1>1, <2>1 DEF CollectorInv, DistributePrism
  <2>7. ASSUME NEW a \in Assets, NEW net, Accounted(a, net) PROVE Accounted(a, net)'
    BY <2>1, <2>3, <2>4, <2>7 DEF Accounted
  <2>8. Balanced'
    BY <1>1, <2>1, <2>7 DEF CollectorInv, Balanced, Idle
  <2>9. QED BY <2>2, <2>5, <2>6, <2>8 DEF CollectorInv
<1>15. QED BY <1>1, <1>3, <1>4, <1>5, <1>6, <1>7, <1>8, <1>9, <1>10, <1>11, <1>12, <1>13, <1>14 DEF Next

-----------------------------------------------------------------------------
\* The invariant of a transaction: whatever its assets, routes and swap outcomes, the
\* balance, with what the messages ahead bring and without what they take, is the
\* collector's own and fees, and the hook, behind every Astroport swap, holds the balance
\* the call has computed.
THEOREM CollectorInvariant == Spec => []CollectorInv
<1>1. Init => CollectorInv
  BY CollectorInit
<1>2. CollectorInv /\ [Next]_vars => CollectorInv'
  BY CollectorStep
<1>3. QED BY <1>1, <1>2, PTL DEF Spec

\* At the end of a transaction no message is left to account for.
LEMMA DoneFacts ==
  ASSUME CollectorInv, Done, tx.receiver # SELF, NEW a \in Assets
  PROVE  /\ Accounted(a, balance[a]) /\ ~ Hooking
         /\ balance[a] \in Nat /\ tx.fees[a] \in Nat /\ Own(a) \in Int /\ Floor \in Int
<1>1. messages = <<>> /\ ~ Idle /\ balance \in [Assets -> Nat] /\ tx.fees \in [Assets -> Nat]
  BY TransactionFacts DEF Done, CollectorInv, CollectorTypes
<1>2. PICK in \in [Assets -> Nat], out \in [Assets -> Nat] :
        /\ Carry(messages, Inward, in) /\ Carry(messages, Outward, out)
        /\ Accounted(a, balance[a] + in[a] - out[a])
  BY <1>1 DEF CollectorInv, Balanced
<1>3. in[a] = 0 /\ out[a] = 0
  BY <1>1, <1>2, CarryEmpty
<1>4. balance[a] \in Nat /\ balance[a] + in[a] - out[a] = balance[a]
  BY <1>1, <1>3
<1>5. Accounted(a, balance[a])
  BY <1>2, <1>4
<1>6. ~ Hooking
  BY <1>1 DEF Hooking
<1>7. Own(a) \in Int /\ Floor \in Int
  BY OwnType DEF CollectorInv
<1>8. QED BY <1>1, <1>4, <1>5, <1>6, <1>7

LEMMA KeepsOwn == CollectorInv => ConvertKeepsOwn
<1>1. SUFFICES ASSUME CollectorInv, Done, tx.kind = "convert", tx.receiver # SELF, NEW a \in Assets
               PROVE  /\ Own(a) <= balance[a] /\ balance[a] <= Own(a) + tx.fees[a]
                      /\ a # base_denom \/ ~ tx.hooked => balance[a] = Own(a) + tx.fees[a]
  BY DEF ConvertKeepsOwn, Own
<1>2. /\ Accounted(a, balance[a]) /\ ~ Hooking
      /\ balance[a] \in Nat /\ tx.fees[a] \in Nat /\ Own(a) \in Int
  BY <1>1, DoneFacts
<1>3. CASE a # base_denom \/ ~ tx.hooked
  <2>1. balance[a] = Own(a) + tx.fees[a]
    BY <1>2, <1>3 DEF Accounted
  <2>2. QED BY <1>2, <2>1
<1>4. CASE a = base_denom /\ tx.hooked
  <2>1. Floor <= balance[a] /\ balance[a] <= Floor + tx.fees[a]
    BY <1>2, <1>4 DEF Accounted
  <2>2. Floor = Own(a)
    BY <1>1, <1>4 DEF Floor
  <2>3. QED BY <1>4, <2>1, <2>2
<1>5. QED BY <1>3, <1>4

LEMMA SendsAll == CollectorInv => DistributeSendsAll
<1>1. SUFFICES ASSUME CollectorInv, Done, tx.kind = "distribute", NEW a \in Assets
               PROVE  balance[a] = tx.fees[a]
                        + IF \/ \E i \in DOMAIN tx.assets : tx.assets[i].info = a
                             \/ a = base_denom /\ tx.hooked
                          THEN 0 ELSE tx.before[a]
  BY DEF DistributeSendsAll
<1>2. tx.receiver # SELF /\ \A c \in Assets : c # prism_token => tx.fees[c] = 0
  BY <1>1 DEF CollectorInv, DistributePrism
<1>3. /\ Accounted(a, balance[a]) /\ ~ Hooking
      /\ balance[a] \in Nat /\ tx.fees[a] \in Nat /\ Own(a) \in Int
  BY <1>1, <1>2, DoneFacts
<1>4. CASE a # base_denom \/ ~ tx.hooked
  <2>1. balance[a] = Own(a) + tx.fees[a]
    BY <1>3, <1>4 DEF Accounted
  <2>2. balance[a] = tx.fees[a] + Own(a)
    BY <1>3, <2>1
  <2>3. QED BY <1>1, <1>4, <2>2 DEF Own
<1>5. CASE a = base_denom /\ tx.hooked
  <2>1. Floor <= balance[a] /\ balance[a] <= Floor + tx.fees[a]
    BY <1>3, <1>5 DEF Accounted
  <2>2. Floor = 0 /\ tx.fees[a] = 0
    BY <1>1, <1>2, <1>5, CollectorAssumption DEF Floor
  <2>3. balance[a] = 0
    BY <1>3, <2>1, <2>2
  <2>4. QED BY <1>5, <2>2, <2>3
<1>6. QED BY <1>4, <1>5

\* "This will prevent our original balance from being used inside the hook": a conversion
\* for somebody else spends nothing the collector had, and leaves nothing behind but what
\* was sent beyond its assets and the fees of its swaps.
THEOREM ConvertKeepsOwnTheorem == Spec => []ConvertKeepsOwn
  BY CollectorInvariant, KeepsOwn, PTL

\* "we want that swapped and sent directly to the distribution contract": a distribution
\* that ends has sent all of the listed assets, through one route or the other.
THEOREM DistributeSendsAllTheorem == Spec => []DistributeSendsAll
  BY CollectorInvariant, SendsAll, PTL
=============================================================================
