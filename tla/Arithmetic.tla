----------------------------- MODULE Arithmetic -----------------------------
(***************************************************************************)
(* The arithmetic the proofs about the contracts share: what Decimal's     *)
(* products and quotients round away, for every size of                    *)
(* DECIMAL_FRACTIONAL, and the laws of SumFunctionOnSet of the community   *)
(* module Functions, which the ledgers are stated with.                    *)
(***************************************************************************)
EXTENDS Decimals, Functions, FiniteSets, FiniteSetTheorems, WellFoundedInduction, TLAPS

\* Division rounds down.
LEMMA DivFacts ==
  ASSUME NEW a \in Nat, NEW b \in Nat \ {0}
  PROVE  /\ a \div b \in Nat
         /\ (a \div b) * b <= a
         /\ a < (a \div b) * b + b
  OBVIOUS

\* A quotient is bounded by what bounds the dividend.
LEMMA DivMono ==
  ASSUME NEW a \in Nat, NEW c \in Nat, NEW b \in Nat \ {0}, a <= c * b
  PROVE  a \div b <= c
  OBVIOUS

\* The numerator that stands for 1 is a positive natural.
LEMMA OnePos == ONE \in Nat \ {0}
  BY FractionalAssumption DEF ONE

\* Uint128 * Decimal is a natural.
LEMMA MulNat == ASSUME NEW a \in Nat, NEW r \in Nat PROVE mul(a, r) \in Nat
<1>1. a * r \in Nat
  OBVIOUS
<1>2. QED BY <1>1, OnePos, DivFacts DEF mul

\* A rate of at most one never enlarges an amount (peg recovery fees).
LEMMA MulLeq == ASSUME NEW a \in Nat, NEW r \in Nat, r <= ONE PROVE mul(a, r) <= a
<1>1. a * r \in Nat /\ a * r <= a * ONE
  BY OnePos
<1>2. QED BY <1>1, OnePos, DivMono DEF mul

\* Decimal::from_ratio with a nonzero denominator is a natural.
LEMMA RatioNat == ASSUME NEW a \in Nat, NEW b \in Nat \ {0} PROVE from_ratio(a, b) \in Nat
<1>1. a * ONE \in Nat
  BY OnePos
<1>2. QED BY <1>1, DivFacts DEF from_ratio

\* Division below a strict bound.
LEMMA DivBelow ==
  ASSUME NEW a \in Nat, NEW c \in Nat, NEW b \in Nat \ {0}, a < c * b
  PROVE  a \div b < c
<1>1. (a \div b) \in Nat /\ (a \div b) * b <= a
  BY DivFacts
<1>2. SUFFICES ASSUME a \div b >= c PROVE FALSE
  BY <1>1
<1>3. (a \div b) * b >= c * b
  BY <1>1, <1>2
<1>4. QED BY <1>1, <1>3

\* A positive factor cancels from a strict comparison.
LEMMA LessByFactor ==
  ASSUME NEW x \in Nat, NEW y \in Nat, NEW t \in Nat \ {0}, x * t < y * t
  PROVE  x < y
<1>1. SUFFICES ASSUME x >= y PROVE FALSE
  OBVIOUS
<1>2. x * t >= y * t
  BY <1>1
<1>3. QED BY <1>2

\* The part a of a total t > a, priced at the rate b / t, is worth less than b:
\* rounded down twice, a partial claim never takes everything.
LEMMA ShareBelow ==
  ASSUME NEW a \in Nat, NEW b \in Nat \ {0}, NEW t \in Nat \ {0}, a < t
  PROVE  mul(a, from_ratio(b, t)) < b
<1>1. PICK o \in Nat \ {0} : o = ONE
  BY OnePos
<1>2. PICK q \in Nat : q = from_ratio(b, t)
  BY RatioNat
<1>3. q * t <= b * o
  BY <1>1, <1>2, DivFacts DEF from_ratio
<1>4. (a * q) * t < (b * o) * t
  <2>1. (a * q) * t = a * (q * t)
    OBVIOUS
  <2>2. a * (q * t) <= a * (b * o)
    <3>1. q * t \in Nat /\ b * o \in Nat OBVIOUS
    <3>2. QED BY <3>1, <1>3
  <2>3. a * (b * o) < t * (b * o)
    <3>1. b * o \in Nat \ {0} OBVIOUS
    <3>2. QED BY <3>1
  <2>4. QED BY <2>1, <2>2, <2>3
<1>5. a * q < b * o
  <2>1. a * q \in Nat /\ b * o \in Nat OBVIOUS
  <2>2. QED BY <2>1, <1>4, LessByFactor
<1>6. (a * q) \div o < b
  <2>1. a * q \in Nat OBVIOUS
  <2>2. QED BY <2>1, <1>5, DivBelow
<1>7. QED BY <1>1, <1>2, <1>6 DEF mul

\* A larger dividend has no smaller quotient.
LEMMA DivGrows ==
  ASSUME NEW a \in Nat, NEW c \in Nat, NEW b \in Nat \ {0}, a <= c
  PROVE  a \div b <= c \div b
  OBVIOUS

\* Uint128 * Decimal grows with either factor.
LEMMA MulGrows ==
  ASSUME NEW a \in Nat, NEW c \in Nat, NEW r \in Nat, NEW q \in Nat, a <= c, r <= q
  PROVE  mul(a, r) <= mul(c, q)
<1>1. a * r \in Nat /\ c * q \in Nat /\ a * r <= c * q
  <2>1. a * r <= c * r /\ c * r <= c * q
    OBVIOUS
  <2>2. QED BY <2>1
<1>2. QED BY <1>1, OnePos, DivGrows DEF mul

\* Decimal::from_ratio grows with its numerator.
LEMMA RatioGrows ==
  ASSUME NEW a \in Nat, NEW c \in Nat, NEW b \in Nat \ {0}, a <= c
  PROVE  from_ratio(a, b) <= from_ratio(c, b)
<1>1. PICK o \in Nat \ {0} : o = ONE
  BY OnePos
<1>2. a * o \in Nat /\ c * o \in Nat /\ a * o <= c * o
  OBVIOUS
<1>3. QED BY <1>1, <1>2, DivGrows DEF from_ratio

\* Decimal::from_ratio falls with its denominator.
LEMMA RatioFalls ==
  ASSUME NEW a \in Nat, NEW b \in Nat \ {0}, NEW d \in Nat \ {0}, b <= d
  PROVE  from_ratio(a, d) <= from_ratio(a, b)
<1>1. PICK m \in Nat : m = a * ONE
  BY OnePos
<1>2. PICK x \in Nat : x = m \div d /\ x * d <= m
  BY DivFacts
<1>3. x * b <= m
  <2>1. x * b <= x * d /\ x * b \in Nat /\ x * d \in Nat
    OBVIOUS
  <2>2. QED BY <1>2, <2>1
<1>4. PICK y \in Nat : y = m \div b /\ m < y * b + b
  BY DivFacts
<1>5. x < y + 1
  <2>1. (y + 1) * b = y * b + b /\ y * b \in Nat /\ x * b \in Nat
    OBVIOUS
  <2>2. x * b < (y + 1) * b
    BY <1>3, <1>4, <2>1
  <2>3. y + 1 \in Nat
    OBVIOUS
  <2>4. QED BY <2>2, <2>3, LessByFactor
<1>6. QED BY <1>1, <1>2, <1>4, <1>5 DEF from_ratio

\* Two complementary shares of an amount are together no more than the amount.
LEMMA SharesOfOne ==
  ASSUME NEW a \in Nat, NEW r \in Nat, r <= ONE
  PROVE  mul(a, r) + mul(a, ONE - r) <= a
<1>1. PICK o \in Nat \ {0} : o = ONE
  BY OnePos
<1>2. PICK q \in Nat : q = o - r
  BY <1>1
<1> DEFINE x == (a * r) \div o
           y == (a * q) \div o
<1>3. a * r \in Nat /\ a * q \in Nat /\ a * r + a * q = a * o
  BY <1>1, <1>2
<1>4. x \in Nat /\ y \in Nat /\ x * o <= a * r /\ y * o <= a * q
  BY <1>3, DivFacts
<1> HIDE DEF x, y
<1>5. (x + y) * o <= a * o
  BY <1>3, <1>4
<1>6. x + y <= a
  <2>1. SUFFICES ASSUME x + y > a PROVE FALSE
    BY <1>4
  <2>2. (x + y) * o > a * o
    BY <1>4, <2>1
  <2>3. QED BY <1>4, <1>5, <2>2
<1>7. QED BY <1>1, <1>2, <1>6 DEF mul, x, y

\* What Uint128 * Decimal rounds away is less than one unit.
LEMMA MulRest ==
  ASSUME NEW a \in Nat, NEW r \in Nat
  PROVE  /\ a * r \in Nat /\ ONE * mul(a, r) \in Nat
         /\ ONE * mul(a, r) <= a * r /\ a * r < ONE * mul(a, r) + ONE
<1>1. PICK o \in Nat \ {0} : o = ONE
  BY OnePos
<1>2. PICK p \in Nat : p = a * r
  OBVIOUS
<1>3. PICK d \in Nat : d = p \div o /\ d * o <= p /\ p < d * o + o
  BY DivFacts
<1>4. d = mul(a, r)
  BY <1>1, <1>2, <1>3 DEF mul
<1>5. o * d = d * o /\ o * d \in Nat
  OBVIOUS
<1>6. QED BY <1>1, <1>2, <1>3, <1>4, <1>5

\* What Decimal::from_ratio gives, times the denominator, is no more than the numerator.
LEMMA RatioRest ==
  ASSUME NEW a \in Nat, NEW b \in Nat \ {0}
  PROVE  from_ratio(a, b) * b <= a * ONE
<1>1. PICK o \in Nat \ {0} : o = ONE
  BY OnePos
<1>2. PICK p \in Nat : p = a * o
  OBVIOUS
<1>3. (p \div b) * b <= p
  BY DivFacts
<1>4. QED BY <1>1, <1>2, <1>3 DEF from_ratio

\* A positive factor cancels from a comparison.
LEMMA LeqByFactor ==
  ASSUME NEW x \in Nat, NEW y \in Nat, NEW t \in Nat \ {0}, t * x <= t * y
  PROVE  x <= y
<1>1. SUFFICES ASSUME x > y PROVE FALSE
  OBVIOUS
<1>2. t * x > t * y
  BY <1>1
<1>3. QED BY <1>2

-----------------------------------------------------------------------------
(***************************************************************************)
(* Sums.  The library defines one by a recursive function over the subsets *)
(* of the index set; the lemmas here give the laws the invariant proofs    *)
(* use.                                                                    *)
(***************************************************************************)

\* A nonempty set of naturals has a least element.
LEMMA NatLeast ==
  ASSUME NEW S \in SUBSET Nat, S # {}
  PROVE  \E m \in S : \A k \in S : m <= k
<1>1. PICK m \in S : \A k \in S : ~ (<<k, m>> \in OpToRel(<, Nat))
  BY NatLessThanWellFounded, WFMin
<1>2. \A k \in S : ~ (k < m)
  <2>1. SUFFICES ASSUME NEW k \in S, k < m PROVE FALSE
    OBVIOUS
  <2>2. <<k, m>> \in OpToRel(<, Nat)
    BY <2>1 DEF OpToRel
  <2>3. QED BY <1>1, <2>2
<1>3. QED BY <1>2

\* Induction on the naturals, for a set: one that holds 0 and is closed under
\* successor is Nat.
LEMMA NatSetInduction ==
  ASSUME NEW T \in SUBSET Nat, 0 \in T, \A n \in T : n + 1 \in T
  PROVE  T = Nat
<1>1. SUFFICES ASSUME Nat \ T # {} PROVE FALSE
  OBVIOUS
<1>2. Nat \ T \in SUBSET Nat
  OBVIOUS
<1>3. PICK m \in Nat \ T : \A k \in Nat \ T : m <= k
  BY <1>1, <1>2, NatLeast
<1>4. \A k \in Nat \ T : ~ (k < m)
  BY <1>3
<1>5. m # 0 /\ m - 1 \in Nat
  OBVIOUS
<1>6. m - 1 \in T
  BY <1>4, <1>5
<1>7. (m - 1) + 1 \in T
  BY <1>6
<1>8. QED BY <1>7

\* The element the folds of the library take out of s first.
Pick(s) == CHOOSE x \in s : TRUE

\* g computes the sums of f over the sets of D, the way the library folds them.
IsSumFcn(g, f, D) ==
  g = [s \in D |-> IF s = {} THEN 0 ELSE f[Pick(s)] + g[s \ {Pick(s)}]]

\* ... over all the subsets of S.
IsSumOn(g, f, S) == IsSumFcn(g, f, SUBSET S)

\* The subsets of S with at most n elements.
UpTo(S, n) == {s \in SUBSET S : Cardinality(s) <= n}

\* The element taken out of a set is one of the set.
LEMMA PickIn == ASSUME NEW s, s # {} PROVE Pick(s) \in s
  BY DEF Pick

\* The function the library chooses to fold with exists: it is built for the
\* subsets of at most n elements, by induction on n.
LEMMA SumFcnExists ==
  ASSUME NEW f, NEW S, IsFiniteSet(S)
  PROVE  \E g : IsSumOn(g, f, S)
<1> DEFINE T == {n \in Nat : \E g : IsSumFcn(g, f, UpTo(S, n))}
<1>0. \A s \in SUBSET S : IsFiniteSet(s) /\ Cardinality(s) \in Nat
  BY FS_Subset, FS_CardinalityType
<1>1. 0 \in T
  <2> DEFINE g == [s \in UpTo(S, 0) |-> 0]
  <2>1. \A s \in UpTo(S, 0) : s = {}
    BY <1>0, FS_EmptySet DEF UpTo
  <2>2. IsSumFcn(g, f, UpTo(S, 0))
    BY <2>1 DEF IsSumFcn
  <2>3. QED BY <2>2
<1>2. ASSUME NEW n \in T PROVE n + 1 \in T
  <2>1. PICK g : IsSumFcn(g, f, UpTo(S, n))
    BY <1>2
  <2> DEFINE h == [s \in UpTo(S, n + 1) |-> IF s = {} THEN 0 ELSE f[Pick(s)] + g[s \ {Pick(s)}]]
  <2>2. \A s \in UpTo(S, n) : h[s] = g[s]
    <3>1. \A s \in UpTo(S, n) : s \in UpTo(S, n + 1)
      BY <1>0 DEF UpTo
    <3>2. QED BY <3>1, <2>1 DEF IsSumFcn
  <2>3. ASSUME NEW s \in UpTo(S, n + 1), s # {} PROVE s \ {Pick(s)} \in UpTo(S, n)
    <3>1. Pick(s) \in s BY <2>3, PickIn
    <3>2. IsFiniteSet(s) /\ Cardinality(s) \in Nat /\ s \in SUBSET S /\ Cardinality(s) <= n + 1
      BY <1>0 DEF UpTo
    <3>3. Cardinality(s \ {Pick(s)}) = Cardinality(s) - 1
      BY <3>1, <3>2, FS_RemoveElement
    <3>4. QED BY <3>2, <3>3 DEF UpTo
  <2>4. IsSumFcn(h, f, UpTo(S, n + 1))
    BY <2>2, <2>3 DEF IsSumFcn
  <2>5. QED BY <2>4
<1>3. T = Nat
  <2>1. T \in SUBSET Nat OBVIOUS
  <2>2. \A n \in T : n + 1 \in T BY <1>2
  <2> HIDE DEF T
  <2>3. QED BY <1>1, <2>1, <2>2, NatSetInduction
<1>4. Cardinality(S) \in T
  BY <1>3, FS_CardinalityType
<1>5. UpTo(S, Cardinality(S)) = SUBSET S
  BY FS_Subset DEF UpTo
<1>6. QED BY <1>4, <1>5 DEF IsSumOn

\* SumFunctionOnSet(f, S) is the value at S of a function that computes sums.
LEMMA SumUnfold ==
  ASSUME NEW f, NEW S, IsFiniteSet(S)
  PROVE  \E g : /\ IsSumOn(g, f, S)
                /\ SumFunctionOnSet(f, S) = g[S]
<1> DEFINE g == CHOOSE g : IsSumOn(g, f, S)
<1>1. IsSumOn(g, f, S)
  BY SumFcnExists
<1>2. SumFunctionOnSet(f, S) = g[S]
  BY DEF SumFunctionOnSet, FoldFunctionOnSet, MapThenFoldSet, IsSumOn, IsSumFcn, Pick
<1>3. QED BY <1>1, <1>2

\* Induction on the subsets of a finite set: a family that holds {} and every
\* nonempty set all of whose one-smaller sets it holds, holds every subset.
LEMMA FiniteSubsetInduction ==
  ASSUME NEW S, IsFiniteSet(S), NEW T \in SUBSET (SUBSET S),
         {} \in T,
         \A s \in SUBSET S : s # {} /\ (\A x \in s : s \ {x} \in T) => s \in T
  PROVE  T = SUBSET S
<1> DEFINE N == {n \in Nat : UpTo(S, n) \subseteq T}
<1>0. \A s \in SUBSET S : IsFiniteSet(s) /\ Cardinality(s) \in Nat
  BY FS_Subset, FS_CardinalityType
<1>1. 0 \in N
  <2>1. \A s \in UpTo(S, 0) : s = {}
    BY <1>0, FS_EmptySet DEF UpTo
  <2>2. QED BY <2>1
<1>2. ASSUME NEW n \in N PROVE n + 1 \in N
  <2>0. SUFFICES \A s \in UpTo(S, n + 1) : s \in T
    OBVIOUS
  <2>1. SUFFICES ASSUME NEW s \in UpTo(S, n + 1), s # {} PROVE s \in T
    OBVIOUS
  <2>2. s \in SUBSET S /\ IsFiniteSet(s) /\ Cardinality(s) \in Nat /\ Cardinality(s) <= n + 1
    BY <1>0 DEF UpTo
  <2>3. ASSUME NEW x \in s PROVE s \ {x} \in T
    <3>1. Cardinality(s \ {x}) = Cardinality(s) - 1
      BY <2>2, FS_RemoveElement
    <3>2. s \ {x} \in UpTo(S, n)
      BY <2>2, <3>1 DEF UpTo
    <3>3. QED BY <3>2
  <2>4. QED BY <2>1, <2>2, <2>3
<1>3. N = Nat
  <2>1. N \in SUBSET Nat OBVIOUS
  <2>2. \A n \in N : n + 1 \in N BY <1>2
  <2> HIDE DEF N
  <2>3. QED BY <1>1, <2>1, <2>2, NatSetInduction
<1>4. ASSUME NEW s \in SUBSET S PROVE s \in T
  <2>1. s \in UpTo(S, Cardinality(s)) /\ Cardinality(s) \in Nat
    BY <1>0 DEF UpTo
  <2>2. Cardinality(s) \in N
    BY <1>3, <2>1
  <2>3. QED BY <2>1, <2>2
<1>5. QED BY <1>4

\* Two functions that compute sums of f agree wherever both are defined.
LEMMA SumFcnUnique ==
  ASSUME NEW f, NEW S, IsFiniteSet(S), NEW U,
         NEW g, IsSumOn(g, f, S), NEW h, IsSumOn(h, f, U)
  PROVE  \A s : s \subseteq S /\ s \subseteq U => g[s] = h[s]
<1> DEFINE V == S \cap U
<1> DEFINE T == {s \in SUBSET V : g[s] = h[s]}
<1>1. IsFiniteSet(V)
  BY FS_Subset
<1>2. {} \in T
  BY DEF IsSumFcn, IsSumOn
<1>3. ASSUME NEW s \in SUBSET V, s # {}, \A x \in s : s \ {x} \in T PROVE s \in T
  <2>1. Pick(s) \in s
    BY <1>3, PickIn
  <2>2. g[s \ {Pick(s)}] = h[s \ {Pick(s)}]
    BY <1>3, <2>1
  <2>3. g[s] = f[Pick(s)] + g[s \ {Pick(s)}]
    BY <1>3 DEF IsSumFcn, IsSumOn
  <2>4. h[s] = f[Pick(s)] + h[s \ {Pick(s)}]
    BY <1>3 DEF IsSumFcn, IsSumOn
  <2>5. QED BY <2>2, <2>3, <2>4
<1>4. T = SUBSET V
  <2>1. T \in SUBSET (SUBSET V) OBVIOUS
  <2>2. \A s \in SUBSET V : s # {} /\ (\A x \in s : s \ {x} \in T) => s \in T
    BY <1>3
  <2> HIDE DEF T, V
  <2>3. QED BY <1>1, <1>2, <2>1, <2>2, FiniteSubsetInduction
<1>5. QED BY <1>4

\* A sum is the picked term and the sum of the rest; the empty sum is zero.
LEMMA SumPick ==
  ASSUME NEW f, NEW S, IsFiniteSet(S)
  PROVE  /\ SumFunctionOnSet(f, {}) = 0
         /\ S # {} => SumFunctionOnSet(f, S) = f[Pick(S)] + SumFunctionOnSet(f, S \ {Pick(S)})
<1>1. SumFunctionOnSet(f, {}) = 0
  <2>1. PICK g : IsSumOn(g, f, {}) /\ SumFunctionOnSet(f, {}) = g[{}]
    BY SumUnfold, FS_EmptySet
  <2>2. QED BY <2>1 DEF IsSumFcn, IsSumOn
<1>2. ASSUME S # {}
      PROVE SumFunctionOnSet(f, S) = f[Pick(S)] + SumFunctionOnSet(f, S \ {Pick(S)})
  <2>0. PICK U : U = S \ {Pick(S)}
    OBVIOUS
  <2>1. IsFiniteSet(U)
    BY <2>0, FS_RemoveElement
  <2>2. PICK g : IsSumOn(g, f, S) /\ SumFunctionOnSet(f, S) = g[S]
    BY SumUnfold
  <2>3. PICK h : IsSumOn(h, f, U) /\ SumFunctionOnSet(f, U) = h[U]
    BY <2>1, SumUnfold
  <2>4. g[S] = f[Pick(S)] + g[U]
    BY <1>2, <2>0, <2>2 DEF IsSumFcn, IsSumOn
  <2>5. g[U] = h[U]
    <3>1. U \subseteq S BY <2>0
    <3>2. IsSumOn(g, f, S) /\ IsSumOn(h, f, U) BY <2>2, <2>3
    <3>3. \A s : s \subseteq S /\ s \subseteq U => g[s] = h[s]
      BY <3>2, SumFcnUnique
    <3>4. QED BY <3>1, <3>3
  <2>6. QED BY <2>0, <2>2, <2>3, <2>4, <2>5
<1>3. QED BY <1>1, <1>2

\* A sum of naturals is a natural.
LEMMA SumNat ==
  ASSUME NEW S, IsFiniteSet(S), NEW f, \A x \in S : f[x] \in Nat
  PROVE  SumFunctionOnSet(f, S) \in Nat
<1> DEFINE T == {s \in SUBSET S : SumFunctionOnSet(f, s) \in Nat}
<1>1. {} \in T
  <2>1. SumFunctionOnSet(f, {}) = 0
    BY SumPick, FS_EmptySet
  <2>2. QED BY <2>1
<1>2. ASSUME NEW s \in SUBSET S, s # {}, \A x \in s : s \ {x} \in T PROVE s \in T
  <2>1. Pick(s) \in s /\ IsFiniteSet(s)
    BY <1>2, PickIn, FS_Subset
  <2>2. SumFunctionOnSet(f, s) = f[Pick(s)] + SumFunctionOnSet(f, s \ {Pick(s)})
    BY <1>2, <2>1, SumPick
  <2>3. QED BY <1>2, <2>1, <2>2
<1>3. T = SUBSET S
  <2>1. T \in SUBSET (SUBSET S) OBVIOUS
  <2>2. \A s \in SUBSET S : s # {} /\ (\A x \in s : s \ {x} \in T) => s \in T
    BY <1>2
  <2> HIDE DEF T
  <2>3. QED BY <1>1, <2>1, <2>2, FiniteSubsetInduction
<1>4. QED BY <1>3

\* Any term may be taken out first.
LEMMA SumRemove ==
  ASSUME NEW S, IsFiniteSet(S), NEW f, \A x \in S : f[x] \in Nat
  PROVE  \A x \in S : SumFunctionOnSet(f, S) = f[x] + SumFunctionOnSet(f, S \ {x})
<1> DEFINE Sm(s) == SumFunctionOnSet(f, s)
<1> DEFINE T == {s \in SUBSET S : \A x \in s : Sm(s) = f[x] + Sm(s \ {x})}
<1>0. \A s \in SUBSET S : IsFiniteSet(s) /\ Sm(s) \in Nat
  BY FS_Subset, SumNat
<1>1. {} \in T
  OBVIOUS
<1>2. ASSUME NEW s \in SUBSET S, s # {}, \A x \in s : s \ {x} \in T PROVE s \in T
  <2>1. Pick(s) \in s /\ IsFiniteSet(s)
    BY <1>2, PickIn, FS_Subset
  <2>2. Sm(s) = f[Pick(s)] + Sm(s \ {Pick(s)})
    BY <1>2, <2>1, SumPick
  <2>3. ASSUME NEW x \in s, x # Pick(s) PROVE Sm(s) = f[x] + Sm(s \ {x})
    <3> DEFINE p == Pick(s)
    <3>1. Sm(s \ {p}) = f[x] + Sm((s \ {p}) \ {x})
      BY <1>2, <2>1, <2>3
    <3>2. Sm(s \ {x}) = f[p] + Sm((s \ {x}) \ {p})
      BY <1>2, <2>1, <2>3
    <3>3. (s \ {p}) \ {x} = (s \ {x}) \ {p}
      OBVIOUS
    <3>4. f[x] \in Nat /\ f[p] \in Nat /\ Sm((s \ {x}) \ {p}) \in Nat
      BY <1>0, <2>1
    <3> HIDE DEF Sm, p
    <3>5. QED BY <2>2, <3>1, <3>2, <3>3, <3>4 DEF p
  <2>4. QED BY <2>2, <2>3
<1>3. T = SUBSET S
  <2>1. T \in SUBSET (SUBSET S) OBVIOUS
  <2>2. \A s \in SUBSET S : s # {} /\ (\A x \in s : s \ {x} \in T) => s \in T
    BY <1>2
  <2> HIDE DEF T
  <2>3. QED BY <1>1, <2>1, <2>2, FiniteSubsetInduction
<1>4. QED BY <1>3

\* Functions that agree on S have the same sum over S.
LEMMA SumEqual ==
  ASSUME NEW S, IsFiniteSet(S), NEW f, NEW h,
         \A x \in S : f[x] \in Nat /\ h[x] = f[x]
  PROVE  SumFunctionOnSet(h, S) = SumFunctionOnSet(f, S)
<1> DEFINE T == {s \in SUBSET S : SumFunctionOnSet(h, s) = SumFunctionOnSet(f, s)}
<1>1. {} \in T
  BY SumPick, FS_EmptySet
<1>2. ASSUME NEW s \in SUBSET S, s # {}, \A x \in s : s \ {x} \in T PROVE s \in T
  <2>1. Pick(s) \in s /\ IsFiniteSet(s)
    BY <1>2, PickIn, FS_Subset
  <2>2. SumFunctionOnSet(f, s) = f[Pick(s)] + SumFunctionOnSet(f, s \ {Pick(s)})
    BY <1>2, <2>1, SumPick
  <2>3. SumFunctionOnSet(h, s) = h[Pick(s)] + SumFunctionOnSet(h, s \ {Pick(s)})
    BY <1>2, <2>1, SumPick
  <2>4. QED BY <1>2, <2>1, <2>2, <2>3
<1>3. T = SUBSET S
  <2>1. T \in SUBSET (SUBSET S) OBVIOUS
  <2>2. \A s \in SUBSET S : s # {} /\ (\A x \in s : s \ {x} \in T) => s \in T
    BY <1>2
  <2> HIDE DEF T
  <2>3. QED BY <1>1, <2>1, <2>2, FiniteSubsetInduction
<1>4. QED BY <1>3

\* A function changed at one point changes its sum by as much.
LEMMA SumUpdate ==
  ASSUME NEW S, IsFiniteSet(S), NEW y \in S, NEW f, NEW h,
         \A x \in S : f[x] \in Nat /\ h[x] \in Nat,
         \A x \in S \ {y} : h[x] = f[x]
  PROVE  SumFunctionOnSet(h, S) = SumFunctionOnSet(f, S) - f[y] + h[y]
<1>1. SumFunctionOnSet(f, S) = f[y] + SumFunctionOnSet(f, S \ {y})
  BY SumRemove
<1>2. SumFunctionOnSet(h, S) = h[y] + SumFunctionOnSet(h, S \ {y})
  BY SumRemove
<1>3. IsFiniteSet(S \ {y})
  BY FS_RemoveElement
<1>4. SumFunctionOnSet(h, S \ {y}) = SumFunctionOnSet(f, S \ {y})
  BY <1>3, SumEqual
<1>5. SumFunctionOnSet(f, S \ {y}) \in Nat
  BY <1>3, SumNat
<1>6. QED BY <1>1, <1>2, <1>4, <1>5

\* The same for an updated function.
LEMMA SumExcept ==
  ASSUME NEW S, IsFiniteSet(S), NEW y \in S, NEW f \in [S -> Nat], NEW n \in Nat
  PROVE  SumFunctionOnSet([f EXCEPT ![y] = n], S) = SumFunctionOnSet(f, S) - f[y] + n
<1> DEFINE h == [f EXCEPT ![y] = n]
<1>1. h[y] = n /\ \A x \in S : f[x] \in Nat /\ h[x] \in Nat
  OBVIOUS
<1>2. \A x \in S \ {y} : h[x] = f[x]
  OBVIOUS
<1> HIDE DEF h
<1>3. SumFunctionOnSet(h, S) = SumFunctionOnSet(f, S) - f[y] + h[y]
  BY <1>1, <1>2, SumUpdate
<1>4. QED BY <1>1, <1>3 DEF h

\* A sum over S is the sum over a part of S and the sum over the rest.
LEMMA SumSplit ==
  ASSUME NEW S, IsFiniteSet(S), NEW f, \A x \in S : f[x] \in Nat, NEW E, E \subseteq S
  PROVE  SumFunctionOnSet(f, S) = SumFunctionOnSet(f, E) + SumFunctionOnSet(f, S \ E)
<1> DEFINE Sm(s) == SumFunctionOnSet(f, s)
<1> DEFINE T == {s \in SUBSET S : Sm(S) = Sm(s) + Sm(S \ s)}
<1>0. \A s \in SUBSET S : IsFiniteSet(s) /\ Sm(s) \in Nat
  BY FS_Subset, SumNat
<1>1. {} \in T
  <2>1. Sm({}) = 0
    BY SumPick, FS_EmptySet
  <2>2. S \ {} = S /\ Sm(S) \in Nat
    BY <1>0
  <2> HIDE DEF Sm
  <2>3. QED BY <2>1, <2>2
<1>2. ASSUME NEW s \in SUBSET S, s # {}, \A x \in s : s \ {x} \in T PROVE s \in T
  <2>1. PICK x \in s : TRUE
    BY <1>2
  <2>2. PICK U \in SUBSET S : U = S \ (s \ {x})
    OBVIOUS
  <2>3. Sm(S) = Sm(s \ {x}) + Sm(U)
    BY <1>2, <2>1, <2>2
  <2>4. Sm(s) = f[x] + Sm(s \ {x})
    BY <1>0, <2>1, SumRemove
  <2>5. Sm(U) = f[x] + Sm(U \ {x})
    BY <1>0, <2>1, <2>2, SumRemove
  <2>6. U \ {x} = S \ s
    BY <2>1, <2>2
  <2>7. f[x] \in Nat /\ Sm(s \ {x}) \in Nat /\ Sm(S \ s) \in Nat
    BY <1>0, <2>1
  <2> HIDE DEF Sm
  <2>8. Sm(S) = Sm(s) + Sm(S \ s)
    BY <2>3, <2>4, <2>5, <2>6, <2>7
  <2>9. QED BY <2>8
<1>3. T = SUBSET S
  <2>1. T \in SUBSET (SUBSET S) OBVIOUS
  <2>2. \A s \in SUBSET S : s # {} /\ (\A x \in s : s \ {x} \in T) => s \in T
    BY <1>2
  <2> HIDE DEF T
  <2>3. QED BY <1>1, <2>1, <2>2, FiniteSubsetInduction
<1>4. QED BY <1>3

\* The sum over one argument more.
LEMMA SumExtend ==
  ASSUME NEW S, IsFiniteSet(S), NEW k, k \notin S, NEW f, NEW h, h[k] \in Nat,
         \A x \in S : f[x] \in Nat /\ h[x] = f[x]
  PROVE  SumFunctionOnSet(h, S \cup {k}) = SumFunctionOnSet(f, S) + h[k]
<1>1. IsFiniteSet(S \cup {k}) /\ \A x \in S \cup {k} : h[x] \in Nat
  BY FS_AddElement
<1>2. SumFunctionOnSet(h, S \cup {k}) = h[k] + SumFunctionOnSet(h, (S \cup {k}) \ {k})
  BY <1>1, SumRemove
<1>3. (S \cup {k}) \ {k} = S
  OBVIOUS
<1>4. SumFunctionOnSet(h, S) = SumFunctionOnSet(f, S)
  BY SumEqual
<1>5. SumFunctionOnSet(h, S \cup {k}) = h[k] + SumFunctionOnSet(f, S)
  BY <1>2, <1>3, <1>4
<1>6. SumFunctionOnSet(f, S) \in Nat
  BY SumNat
<1>7. QED BY <1>5, <1>6

\* The sum over some arguments less.
LEMMA SumDrop ==
  ASSUME NEW S, IsFiniteSet(S), NEW E, E \subseteq S, NEW f, NEW h,
         \A x \in S : f[x] \in Nat, \A x \in S \ E : h[x] = f[x]
  PROVE  SumFunctionOnSet(h, S \ E) = SumFunctionOnSet(f, S) - SumFunctionOnSet(f, E)
<1>1. IsFiniteSet(S \ E) /\ IsFiniteSet(E)
  BY FS_Subset
<1>2. SumFunctionOnSet(h, S \ E) = SumFunctionOnSet(f, S \ E)
  BY <1>1, SumEqual
<1>3. SumFunctionOnSet(f, S) = SumFunctionOnSet(f, E) + SumFunctionOnSet(f, S \ E)
  BY SumSplit
<1>4. SumFunctionOnSet(f, E) \in Nat /\ SumFunctionOnSet(f, S \ E) \in Nat
  BY <1>1, SumNat
<1>5. QED BY <1>2, <1>3, <1>4

\* A sum of zeros is zero.
LEMMA SumZero ==
  ASSUME NEW S, IsFiniteSet(S), NEW f, \A x \in S : f[x] = 0
  PROVE  SumFunctionOnSet(f, S) = 0
<1> DEFINE T == {s \in SUBSET S : SumFunctionOnSet(f, s) = 0}
<1>1. {} \in T
  BY SumPick, FS_EmptySet
<1>2. ASSUME NEW s \in SUBSET S, s # {}, \A x \in s : s \ {x} \in T PROVE s \in T
  <2>1. Pick(s) \in s /\ IsFiniteSet(s)
    BY <1>2, PickIn, FS_Subset
  <2>2. SumFunctionOnSet(f, s) = f[Pick(s)] + SumFunctionOnSet(f, s \ {Pick(s)})
    BY <1>2, <2>1, SumPick
  <2>3. QED BY <1>2, <2>1, <2>2
<1>3. T = SUBSET S
  <2>1. T \in SUBSET (SUBSET S) OBVIOUS
  <2>2. \A s \in SUBSET S : s # {} /\ (\A x \in s : s \ {x} \in T) => s \in T
    BY <1>2
  <2> HIDE DEF T
  <2>3. QED BY <1>1, <2>1, <2>2, FiniteSubsetInduction
<1>4. QED BY <1>3

\* The sum of the sums of two functions is the sum of both.
LEMMA SumAdd ==
  ASSUME NEW S, IsFiniteSet(S), NEW f, NEW g, NEW h,
         \A x \in S : f[x] \in Nat /\ g[x] \in Nat /\ h[x] = f[x] + g[x]
  PROVE  SumFunctionOnSet(h, S) = SumFunctionOnSet(f, S) + SumFunctionOnSet(g, S)
<1> DEFINE F(s) == SumFunctionOnSet(f, s)
<1> DEFINE G(s) == SumFunctionOnSet(g, s)
<1> DEFINE H(s) == SumFunctionOnSet(h, s)
<1> DEFINE T == {s \in SUBSET S : H(s) = F(s) + G(s)}
<1>0. \A s \in SUBSET S : IsFiniteSet(s) /\ F(s) \in Nat /\ G(s) \in Nat
  BY FS_Subset, SumNat
<1>1. {} \in T
  <2>1. F({}) = 0 /\ G({}) = 0 /\ H({}) = 0
    BY SumPick, FS_EmptySet
  <2> HIDE DEF F, G, H
  <2>2. QED BY <2>1
<1>2. ASSUME NEW s \in SUBSET S, s # {}, \A x \in s : s \ {x} \in T PROVE s \in T
  <2>1. PICK x \in s : TRUE
    BY <1>2
  <2>2. H(s \ {x}) = F(s \ {x}) + G(s \ {x})
    BY <1>2, <2>1
  <2>3. F(s) = f[x] + F(s \ {x}) /\ G(s) = g[x] + G(s \ {x}) /\ H(s) = h[x] + H(s \ {x})
    <3>1. \A y \in s : f[y] \in Nat /\ g[y] \in Nat /\ h[y] \in Nat
      OBVIOUS
    <3>2. QED BY <1>0, <2>1, <3>1, SumRemove
  <2>4. f[x] \in Nat /\ g[x] \in Nat /\ h[x] = f[x] + g[x]
        /\ F(s \ {x}) \in Nat /\ G(s \ {x}) \in Nat
    BY <1>0, <2>1
  <2> HIDE DEF F, G, H
  <2>5. H(s) = F(s) + G(s)
    BY <2>2, <2>3, <2>4
  <2>6. QED BY <2>5
<1>3. T = SUBSET S
  <2>1. T \in SUBSET (SUBSET S) OBVIOUS
  <2>2. \A s \in SUBSET S : s # {} /\ (\A x \in s : s \ {x} \in T) => s \in T
    BY <1>2
  <2> HIDE DEF T
  <2>3. QED BY <1>1, <2>1, <2>2, FiniteSubsetInduction
<1>4. QED BY <1>3

\* A sum can be taken owner by owner, where the owner is the first of a tuple.
LEMMA SumByOwner ==
  ASSUME NEW C, IsFiniteSet(C), NEW S, IsFiniteSet(S), NEW f,
         \A k \in S : f[k] \in Nat /\ k[1] \in C
  PROVE  SumFunctionOnSet([c \in C |-> SumFunctionOnSet(f, {k \in S : k[1] = c})], C)
           = SumFunctionOnSet(f, S)
<1> DEFINE Own(s) == {k \in S : k[1] \in s}
<1> DEFINE F(s) == SumFunctionOnSet(f, s)
<1> DEFINE g == [c \in C |-> F({k \in S : k[1] = c})]
<1> DEFINE G(s) == SumFunctionOnSet(g, s)
<1> DEFINE T == {s \in SUBSET C : G(s) = F(Own(s))}
<1>0. \A s \in SUBSET S : IsFiniteSet(s) /\ F(s) \in Nat
  BY FS_Subset, SumNat
<1>a. \A c \in C : g[c] \in Nat
  BY <1>0
<1>1. {} \in T
  <2>1. Own({}) = {}
    OBVIOUS
  <2>2. F({}) = 0 /\ G({}) = 0
    BY SumPick, FS_EmptySet
  <2> HIDE DEF F, G, Own
  <2>3. QED BY <2>1, <2>2
<1>2. ASSUME NEW s \in SUBSET C, s # {}, \A x \in s : s \ {x} \in T PROVE s \in T
  <2>1. PICK c \in s : TRUE
    BY <1>2
  <2>2. G(s \ {c}) = F(Own(s \ {c}))
    BY <1>2, <2>1
  <2>3. G(s) = g[c] + G(s \ {c})
    <3>1. IsFiniteSet(s) /\ \A d \in s : g[d] \in Nat
      BY <1>a, FS_Subset
    <3> HIDE DEF g
    <3>2. QED BY <2>1, <3>1, SumRemove
  <2>4. PICK E \in SUBSET S : E = {k \in S : k[1] = c}
    OBVIOUS
  <2>5. E \subseteq Own(s) /\ Own(s) \ E = Own(s \ {c}) /\ Own(s) \in SUBSET S
    BY <2>1, <2>4
  <2>6. F(Own(s)) = F(E) + F(Own(s) \ E)
    <3>1. IsFiniteSet(Own(s)) /\ \A k \in Own(s) : f[k] \in Nat
      BY <1>0, <2>5
    <3> HIDE DEF Own
    <3>2. QED BY <2>5, <3>1, SumSplit
  <2>7. g[c] = F(E)
    BY <2>1, <2>4
  <2> HIDE DEF F, G, g, Own
  <2>8. G(s) = F(Own(s))
    BY <2>2, <2>3, <2>5, <2>6, <2>7
  <2>9. QED BY <2>8
<1>3. T = SUBSET C
  <2>1. T \in SUBSET (SUBSET C) OBVIOUS
  <2>2. \A s \in SUBSET C : s # {} /\ (\A x \in s : s \ {x} \in T) => s \in T
    BY <1>2
  <2> HIDE DEF T
  <2>3. QED BY <1>1, <2>1, <2>2, FiniteSubsetInduction
<1>4. G(C) = F(Own(C))
  BY <1>3
<1>5. Own(C) = S
  OBVIOUS
<1> HIDE DEF Own
<1>6. QED BY <1>4, <1>5

\* A bound on every term, with factors, is one on the sums.
LEMMA SumBound ==
  ASSUME NEW S, IsFiniteSet(S), NEW p \in Nat, NEW q \in Nat, NEW f, NEW g, NEW h,
         \A x \in S : f[x] \in Nat /\ g[x] \in Nat /\ h[x] \in Nat /\ p * h[x] <= f[x] + q * g[x]
  PROVE  p * SumFunctionOnSet(h, S) <= SumFunctionOnSet(f, S) + q * SumFunctionOnSet(g, S)
<1> DEFINE F(s) == SumFunctionOnSet(f, s)
<1> DEFINE G(s) == SumFunctionOnSet(g, s)
<1> DEFINE H(s) == SumFunctionOnSet(h, s)
<1> DEFINE T == {s \in SUBSET S : p * H(s) <= F(s) + q * G(s)}
<1>0. \A s \in SUBSET S : IsFiniteSet(s) /\ F(s) \in Nat /\ G(s) \in Nat /\ H(s) \in Nat
  BY FS_Subset, SumNat
<1>1. {} \in T
  <2>1. F({}) = 0 /\ G({}) = 0 /\ H({}) = 0
    BY SumPick, FS_EmptySet
  <2> HIDE DEF F, G, H
  <2>2. p * H({}) = 0 /\ q * G({}) = 0
    BY <2>1
  <2>3. p * H({}) <= F({}) + q * G({})
    BY <2>1, <2>2
  <2>4. QED BY <2>3
<1>2. ASSUME NEW s \in SUBSET S, s # {}, \A x \in s : s \ {x} \in T PROVE s \in T
  <2>1. PICK x \in s : TRUE
    BY <1>2
  <2>2. p * H(s \ {x}) <= F(s \ {x}) + q * G(s \ {x})
    BY <1>2, <2>1
  <2>3. F(s) = f[x] + F(s \ {x}) /\ G(s) = g[x] + G(s \ {x}) /\ H(s) = h[x] + H(s \ {x})
    <3>1. \A y \in s : f[y] \in Nat /\ g[y] \in Nat /\ h[y] \in Nat
      OBVIOUS
    <3>2. QED BY <1>0, <2>1, <3>1, SumRemove
  <2>4. f[x] \in Nat /\ g[x] \in Nat /\ h[x] \in Nat /\ p * h[x] <= f[x] + q * g[x]
        /\ F(s \ {x}) \in Nat /\ G(s \ {x}) \in Nat /\ H(s \ {x}) \in Nat
    BY <1>0, <2>1
  <2> HIDE DEF F, G, H
  <2>5. p * H(s) = p * h[x] + p * H(s \ {x}) /\ q * G(s) = q * g[x] + q * G(s \ {x})
    BY <2>3, <2>4
  <2>6. p * H(s) <= F(s) + q * G(s)
    <3>1. PICK ph \in Nat, pH \in Nat, qg \in Nat, qG \in Nat :
             ph = p * h[x] /\ pH = p * H(s \ {x}) /\ qg = q * g[x] /\ qG = q * G(s \ {x})
      <4>1. p * h[x] \in Nat /\ p * H(s \ {x}) \in Nat /\ q * g[x] \in Nat /\ q * G(s \ {x}) \in Nat
        BY <2>4
      <4>2. QED BY ONLY <4>1, Zenon
    <3>2. QED BY <2>2, <2>3, <2>4, <2>5, <3>1
  <2>7. QED BY <2>6
<1>3. T = SUBSET S
  <2>1. T \in SUBSET (SUBSET S) OBVIOUS
  <2>2. \A s \in SUBSET S : s # {} /\ (\A x \in s : s \ {x} \in T) => s \in T
    BY <1>2
  <2> HIDE DEF T
  <2>3. QED BY <1>1, <2>1, <2>2, FiniteSubsetInduction
<1>4. QED BY <1>3

\* A sum can be taken under other names of the arguments, one for each.
LEMMA SumByName ==
  ASSUME NEW W, IsFiniteSet(W), NEW S, NEW m, NEW f, NEW h,
         \A k \in S : m[k] \in W /\ f[k] = h[m[k]],
         \A j, k \in S : m[j] = m[k] => j = k,
         \A t \in W : h[t] \in Nat /\ \E k \in S : m[k] = t
  PROVE  IsFiniteSet(S) /\ SumFunctionOnSet(f, S) = SumFunctionOnSet(h, W)
<1> DEFINE P(s) == {k \in S : m[k] \in s}
           T == {s \in SUBSET W : /\ IsFiniteSet(P(s))
                                  /\ SumFunctionOnSet(f, P(s)) = SumFunctionOnSet(h, s)}
<1>1. {} \in T
  <2>1. P({}) = {}
    OBVIOUS
  <2>2. QED BY <2>1, SumPick, FS_EmptySet
<1>2. ASSUME NEW s \in SUBSET W, s # {}, \A x \in s : s \ {x} \in T PROVE s \in T
  <2>1. PICK x \in s : TRUE
    BY <1>2
  <2>2. PICK k \in S : m[k] = x
    BY <2>1
  <2> DEFINE r == s \ {x}
  <2>3. IsFiniteSet(P(r)) /\ SumFunctionOnSet(f, P(r)) = SumFunctionOnSet(h, r)
    BY <1>2, <2>1
  <2>4. P(s) = P(r) \cup {k} /\ k \notin P(r) /\ s = r \cup {x} /\ x \notin r
    BY <2>1, <2>2
  <2>5. IsFiniteSet(r) /\ IsFiniteSet(P(r) \cup {k})
    BY <2>3, FS_Subset, FS_AddElement
  <2>6. (\A j \in P(r) : f[j] \in Nat) /\ f[k] \in Nat
        /\ h[x] = f[k] /\ \A t \in r : h[t] \in Nat
    BY <2>1, <2>2
  <2> HIDE DEF r, P
  <2>7. SumFunctionOnSet(f, P(r) \cup {k}) = SumFunctionOnSet(f, P(r)) + f[k]
    <3>1. PICK R : R = P(r)
      OBVIOUS
    <3>2. IsFiniteSet(R) /\ k \notin R /\ f[k] \in Nat /\ \A y \in R : f[y] \in Nat /\ f[y] = f[y]
      BY <2>3, <2>4, <2>6, <3>1
    <3>3. SumFunctionOnSet(f, R \cup {k}) = SumFunctionOnSet(f, R) + f[k]
      BY ONLY <3>2, SumExtend
    <3>4. QED BY <3>1, <3>3
  <2>8. SumFunctionOnSet(h, r \cup {x}) = SumFunctionOnSet(h, r) + h[x]
    <3>1. IsFiniteSet(r) /\ x \notin r /\ h[x] \in Nat /\ \A y \in r : h[y] \in Nat /\ h[y] = h[y]
      BY <2>4, <2>5, <2>6
    <3>2. QED BY ONLY <3>1, SumExtend
  <2>9. SumFunctionOnSet(f, P(r) \cup {k}) = SumFunctionOnSet(h, r \cup {x})
    BY <2>3, <2>6, <2>7, <2>8
  <2>10. SumFunctionOnSet(f, P(s)) = SumFunctionOnSet(h, s) /\ IsFiniteSet(P(s))
    <3>1. PICK Q, r1 : Q = P(r) \cup {k} /\ r1 = r \cup {x}
      OBVIOUS
    <3>2. SumFunctionOnSet(f, Q) = SumFunctionOnSet(h, r1) /\ IsFiniteSet(Q)
      BY <2>5, <2>9, <3>1, Zenon
    <3>3. Q = P(s) /\ r1 = s
      BY <2>4, <3>1
    <3>4. QED BY <3>2, <3>3, Zenon
  <2>11. QED BY <2>10 DEF T
<1> HIDE DEF T
<1>3. T \in SUBSET (SUBSET W)
  BY DEF T
<1>4. T = SUBSET W
  <2>1. \A s \in SUBSET W : s # {} /\ (\A x \in s : s \ {x} \in T) => s \in T
    BY <1>2
  <2>2. IsFiniteSet(W)
    OBVIOUS
  <2>3. QED BY ONLY <1>1, <1>3, <2>1, <2>2, FiniteSubsetInduction
<1>5. P(W) = S
  OBVIOUS
<1> HIDE DEF P
<1>6. QED BY <1>4, <1>5 DEF T

\* A sum over tuples that differ in their second components is a sum over those.
LEMMA SumBySecond ==
  ASSUME NEW W, IsFiniteSet(W), NEW S, NEW f, NEW h,
         \A k \in S : k[2] \in W /\ f[k] = h[k[2]],
         \A j, k \in S : j[2] = k[2] => j = k,
         \A t \in W : h[t] \in Nat /\ \E k \in S : k[2] = t
  PROVE  IsFiniteSet(S) /\ SumFunctionOnSet(f, S) = SumFunctionOnSet(h, W)
<1>1. PICK m : m = [k \in S |-> k[2]]
  OBVIOUS
<1>2. /\ \A k \in S : m[k] \in W /\ f[k] = h[m[k]]
      /\ \A j, k \in S : m[j] = m[k] => j = k
      /\ \A t \in W : h[t] \in Nat /\ \E k \in S : m[k] = t
  BY <1>1
<1>3. IsFiniteSet(W)
  OBVIOUS
<1>4. QED BY ONLY <1>2, <1>3, SumByName, SMTT(30)

\* A sum of equal terms is their number times one.
LEMMA SumConstant ==
  ASSUME NEW S, IsFiniteSet(S), NEW n \in Nat, NEW f, \A x \in S : f[x] = n
  PROVE  SumFunctionOnSet(f, S) = n * Cardinality(S)
<1> DEFINE T == {s \in SUBSET S : SumFunctionOnSet(f, s) = n * Cardinality(s)}
<1>1. {} \in T
  <2>1. SumFunctionOnSet(f, {}) = 0 /\ Cardinality({}) = 0
    BY SumPick, FS_EmptySet
  <2>2. QED BY <2>1
<1>2. ASSUME NEW s \in SUBSET S, s # {}, \A x \in s : s \ {x} \in T PROVE s \in T
  <2>1. PICK x \in s : TRUE
    BY <1>2
  <2>2. IsFiniteSet(s) /\ IsFiniteSet(s \ {x}) /\ \A y \in s : f[y] \in Nat
    BY FS_Subset
  <2>3. SumFunctionOnSet(f, s) = f[x] + SumFunctionOnSet(f, s \ {x})
    BY <2>1, <2>2, SumRemove
  <2>4. SumFunctionOnSet(f, s \ {x}) = n * Cardinality(s \ {x})
    BY <1>2, <2>1
  <2>5. Cardinality(s \ {x}) = Cardinality(s) - 1 /\ Cardinality(s) \in Nat
    BY <2>1, <2>2, FS_RemoveElement, FS_CardinalityType
  <2>6. PICK c \in Nat : c = Cardinality(s)
    BY <2>5
  <2>7. f[x] = n /\ n + n * (c - 1) = n * c
    BY <2>1
  <2>8. SumFunctionOnSet(f, s) = n * Cardinality(s)
    BY <2>3, <2>4, <2>5, <2>6, <2>7
  <2>9. QED BY <2>8
<1>3. T = SUBSET S
  <2>1. T \in SUBSET (SUBSET S) OBVIOUS
  <2>2. \A s \in SUBSET S : s # {} /\ (\A x \in s : s \ {x} \in T) => s \in T
    BY <1>2
  <2> HIDE DEF T
  <2>3. QED BY <1>1, <2>1, <2>2, FiniteSubsetInduction
<1>4. QED BY <1>3

\* Rows first or columns first: the sum of a table is the same.
Table(A, B, f, g, r, c) ==
  /\ \A x \in A, y \in B : f[x][y] \in Nat /\ g[y][x] = f[x][y]
  /\ \A x \in A : r[x] = SumFunctionOnSet(f[x], B)
  /\ \A y \in B : c[y] = SumFunctionOnSet(g[y], A)

LEMMA SumSwap ==
  ASSUME NEW A, IsFiniteSet(A), NEW B, IsFiniteSet(B), NEW f, NEW g, NEW r, NEW c,
         Table(A, B, f, g, r, c)
  PROVE  SumFunctionOnSet(r, A) = SumFunctionOnSet(c, B)
<1>0. /\ \A x \in A, y \in B : f[x][y] \in Nat /\ g[y][x] = f[x][y]
      /\ \A x \in A : r[x] = SumFunctionOnSet(f[x], B)
      /\ \A y \in B : c[y] = SumFunctionOnSet(g[y], A)
  BY DEF Table
<1> USE <1>0
<1> DEFINE Col(s) == [y \in B |-> SumFunctionOnSet(g[y], s)]
           T == {s \in SUBSET A : SumFunctionOnSet(r, s) = SumFunctionOnSet(Col(s), B)}
<1>1. \A x \in A : r[x] \in Nat
  BY SumNat
<1>2. \A s \in SUBSET A : IsFiniteSet(s) /\ \A y \in B : SumFunctionOnSet(g[y], s) \in Nat
  <2>1. ASSUME NEW s \in SUBSET A, NEW y \in B PROVE SumFunctionOnSet(g[y], s) \in Nat
    <3>1. IsFiniteSet(s) /\ \A x \in s : g[y][x] \in Nat
      BY FS_Subset
    <3>2. QED BY <3>1, SumNat
  <2>2. QED BY <2>1, FS_Subset
<1>3. {} \in T
  <2>1. \A h : SumFunctionOnSet(h, {}) = 0
    BY SumPick, FS_EmptySet
  <2>2. PICK h : h = Col({})
    OBVIOUS
  <2>3. \A y \in B : h[y] = 0
    BY <2>1, <2>2
  <2>4. SumFunctionOnSet(h, B) = 0
    BY <2>3, SumZero
  <2>5. QED BY <2>1, <2>2, <2>4
<1>4. ASSUME NEW s \in SUBSET A, s # {}, \A x \in s : s \ {x} \in T PROVE s \in T
  <2>1. PICK x \in s : TRUE
    BY <1>4
  <2>2. PICK d \in SUBSET A : d = s \ {x}
    OBVIOUS
  <2>3. PICK h : h = Col(s)
    OBVIOUS
  <2>4. PICK k : k = Col(d)
    OBVIOUS
  <2>5. SumFunctionOnSet(r, d) = SumFunctionOnSet(k, B)
    BY <1>4, <2>1, <2>2, <2>4
  <2>6. SumFunctionOnSet(r, s) = r[x] + SumFunctionOnSet(r, d)
    <3>1. IsFiniteSet(s) /\ \A y \in s : r[y] \in Nat
      BY <1>1, <1>2
    <3>2. QED BY <2>1, <2>2, <3>1, SumRemove
  <2>7. ASSUME NEW y \in B
        PROVE  k[y] \in Nat /\ f[x][y] \in Nat /\ h[y] = f[x][y] + k[y]
    <3>1. IsFiniteSet(s) /\ \A z \in s : g[y][z] \in Nat
      BY <1>2
    <3>2. SumFunctionOnSet(g[y], s) = g[y][x] + SumFunctionOnSet(g[y], d)
      BY <2>1, <2>2, <3>1, SumRemove
    <3>3. SumFunctionOnSet(g[y], d) \in Nat
      BY <1>2
    <3>4. QED BY <2>1, <2>3, <2>4, <3>2, <3>3
  <2> HIDE DEF Col
  <2>8. PICK e : e = f[x]
    OBVIOUS
  <2>9. SumFunctionOnSet(h, B) = SumFunctionOnSet(e, B) + SumFunctionOnSet(k, B)
    BY <2>7, <2>8, SumAdd
  <2>10. r[x] = SumFunctionOnSet(e, B)
    BY <2>1, <2>8
  <2>11. QED BY <2>3, <2>5, <2>6, <2>9, <2>10
<1>5. T = SUBSET A
  <2>1. T \in SUBSET (SUBSET A) OBVIOUS
  <2>2. \A s \in SUBSET A : s # {} /\ (\A x \in s : s \ {x} \in T) => s \in T
    BY <1>4
  <2> HIDE DEF T
  <2>3. QED BY <1>3, <2>1, <2>2, FiniteSubsetInduction
<1>6. PICK h : h = Col(A)
  OBVIOUS
<1>7. SumFunctionOnSet(r, A) = SumFunctionOnSet(h, B)
  BY <1>5, <1>6
<1>8. \A y \in B : h[y] \in Nat /\ c[y] = h[y]
  BY <1>2, <1>6
<1>9. QED BY <1>7, <1>8, SumEqual

\* The sum of a function that is zero outside of a part is the sum over the part.
LEMMA SumWithin ==
  ASSUME NEW T, IsFiniteSet(T), NEW S \in SUBSET T, NEW f, NEW h,
         \A x \in S : f[x] \in Nat /\ h[x] = f[x], \A x \in T \ S : h[x] = 0
  PROVE  SumFunctionOnSet(h, T) = SumFunctionOnSet(f, S) /\ SumFunctionOnSet(f, S) \in Nat
<1>1. IsFiniteSet(S) /\ IsFiniteSet(T \ S) /\ S \subseteq T
  BY FS_Subset
<1>2. \A x \in T : h[x] \in Nat
  OBVIOUS
<1>3. SumFunctionOnSet(h, T) = SumFunctionOnSet(h, S) + SumFunctionOnSet(h, T \ S)
  BY <1>1, <1>2, SumSplit
<1>4. SumFunctionOnSet(h, T \ S) = 0
  BY <1>1, SumZero
<1>5. SumFunctionOnSet(h, S) = SumFunctionOnSet(f, S)
  BY <1>1, SumEqual
<1>6. SumFunctionOnSet(f, S) \in Nat
  BY <1>1, SumNat
<1>7. QED BY <1>3, <1>4, <1>5, <1>6

\* A balance of two accounts, kept in units of two sizes, that holds for each is one for all.
LEMMA SumBalance ==
  ASSUME NEW S, IsFiniteSet(S), NEW o \in Nat, NEW f, NEW g, NEW h, NEW k,
         \A x \in S : /\ f[x] \in Nat /\ g[x] \in Nat /\ h[x] \in Nat /\ k[x] \in Nat
                      /\ f[x] + o * g[x] <= h[x] + o * k[x]
  PROVE  SumFunctionOnSet(f, S) + o * SumFunctionOnSet(g, S)
           <= SumFunctionOnSet(h, S) + o * SumFunctionOnSet(k, S)
<1>1. PICK m : m = [x \in S |-> o * g[x]]
  OBVIOUS
<1>2. PICK e : e = [x \in S |-> f[x] + m[x]]
  OBVIOUS
<1>3. PICK z : z = [x \in S |-> 0]
  OBVIOUS
<1>4. \A x \in S : m[x] = o * g[x] /\ m[x] \in Nat /\ e[x] = f[x] + m[x] /\ e[x] \in Nat /\ z[x] = 0
  BY <1>1, <1>2, <1>3
<1>5. PICK F \in Nat, G \in Nat, H \in Nat, K \in Nat, M \in Nat, E \in Nat :
        /\ F = SumFunctionOnSet(f, S) /\ G = SumFunctionOnSet(g, S) /\ H = SumFunctionOnSet(h, S)
        /\ K = SumFunctionOnSet(k, S) /\ M = SumFunctionOnSet(m, S) /\ E = SumFunctionOnSet(e, S)
  BY <1>4, SumNat
<1>6. SumFunctionOnSet(z, S) = 0
  BY <1>4, SumZero
<1>7. o * G <= M
  <2>1. \A x \in S : m[x] \in Nat /\ z[x] \in Nat /\ g[x] \in Nat /\ o * g[x] <= m[x] + 0 * z[x]
    BY <1>4
  <2>2. o * SumFunctionOnSet(g, S) <= SumFunctionOnSet(m, S) + 0 * SumFunctionOnSet(z, S)
    BY <2>1, SumBound
  <2>3. QED BY <1>5, <1>6, <2>2
<1>8. E = F + M
  BY <1>4, <1>5, SumAdd
<1>9. E <= H + o * K
  <2>1. \A x \in S : h[x] \in Nat /\ k[x] \in Nat /\ e[x] \in Nat /\ 1 * e[x] <= h[x] + o * k[x]
    BY <1>4
  <2>2. 1 * SumFunctionOnSet(e, S) <= SumFunctionOnSet(h, S) + o * SumFunctionOnSet(k, S)
    BY <2>1, SumBound
  <2>3. QED BY <1>5, <2>2
<1>10. o * G \in Nat /\ o * K \in Nat
  OBVIOUS
<1>11. F + o * G <= H + o * K
  BY <1>7, <1>8, <1>9, <1>10
<1>12. QED BY <1>5, <1>11

\* A sum over pairs, taken second component by second component.
Columns(A, B, f, g, c) ==
  /\ \A x \in A, y \in B : f[<<x, y>>] \in Nat /\ g[y][x] = f[<<x, y>>]
  /\ \A y \in B : c[y] = SumFunctionOnSet(g[y], A)

LEMMA SumProduct ==
  ASSUME NEW A, IsFiniteSet(A), NEW B, IsFiniteSet(B), NEW f, NEW g, NEW c,
         Columns(A, B, f, g, c)
  PROVE  SumFunctionOnSet(f, A \X B) = SumFunctionOnSet(c, B)
<1>0. /\ \A x \in A, y \in B : f[<<x, y>>] \in Nat /\ g[y][x] = f[<<x, y>>]
      /\ \A y \in B : c[y] = SumFunctionOnSet(g[y], A)
  BY DEF Columns
<1> USE <1>0
<1>1. PICK S : S = A \X B
  OBVIOUS
<1>2. IsFiniteSet(S)
  BY <1>1, FS_Product
<1>3. \A k \in S : k = <<k[1], k[2]>> /\ k[1] \in A /\ k[2] \in B /\ f[k] \in Nat
  BY <1>1
<1>4. PICK e : e = [x \in A |-> [y \in B |-> f[<<x, y>>]]]
  OBVIOUS
<1>5. PICK r : r = [x \in A |-> SumFunctionOnSet(f, {k \in S : k[1] = x})]
  OBVIOUS
<1>6. SumFunctionOnSet(r, A) = SumFunctionOnSet(f, S)
  <2>1. \A k \in S : f[k] \in Nat /\ k[1] \in A
    BY <1>3
  <2>2. SumFunctionOnSet([x \in A |-> SumFunctionOnSet(f, {k \in S : k[1] = x})], A)
          = SumFunctionOnSet(f, S)
    BY <1>2, <2>1, SumByOwner
  <2>3. QED BY <1>5, <2>2
<1>7. ASSUME NEW x \in A PROVE r[x] = SumFunctionOnSet(e[x], B)
  <2>1. PICK E : E = {k \in S : k[1] = x}
    OBVIOUS
  <2>2. PICK h : h = e[x]
    OBVIOUS
  <2>3. \A k \in E : k[2] \in B /\ f[k] = h[k[2]]
    BY <1>3, <1>4, <2>1, <2>2
  <2>4. \A j, k \in E : j[2] = k[2] => j = k
    <3>1. ASSUME NEW j \in E, NEW k \in E, j[2] = k[2] PROVE j = k
      <4>1. j = <<x, j[2]>> /\ k = <<x, k[2]>>
        BY <1>3, <2>1
      <4>2. QED BY <3>1, <4>1
    <3>2. QED BY <3>1
  <2>5. \A y \in B : h[y] \in Nat /\ \E k \in E : k[2] = y
    <3>1. ASSUME NEW y \in B PROVE h[y] \in Nat /\ \E k \in E : k[2] = y
      <4>1. <<x, y>> \in E /\ <<x, y>>[2] = y
        BY <1>1, <2>1
      <4>2. h[y] = f[<<x, y>>]
        BY <1>4, <2>2
      <4>3. QED BY <4>1, <4>2
    <3>2. QED BY <3>1
  <2>6. IsFiniteSet(B)
    OBVIOUS
  <2>7. SumFunctionOnSet(f, E) = SumFunctionOnSet(h, B)
    BY ONLY <2>3, <2>4, <2>5, <2>6, SumBySecond, SMTT(30)
  <2>8. QED BY <1>5, <2>1, <2>2, <2>7
<1>8. \A x \in A, y \in B : e[x][y] \in Nat /\ g[y][x] = e[x][y]
  BY <1>4
<1>9. Table(A, B, e, g, r, c)
  BY <1>7, <1>8 DEF Table
<1>10. SumFunctionOnSet(r, A) = SumFunctionOnSet(c, B)
  BY <1>9, SumSwap
<1>11. QED BY <1>1, <1>6, <1>10
=============================================================================
