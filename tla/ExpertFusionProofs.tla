------------------------- MODULE ExpertFusionProofs -------------------------
(***************************************************************************)
(* Theorems about the fusion of the experts at one token, for any number   *)
(* of experts, any mask, deltas, priors and exponential.                   *)
(***************************************************************************)
EXTENDS ExpertFusion, TLAPS, FiniteSetTheorems, WellFoundedInduction

(***************************************************************************)
(* Sums.  A fold is a recursive function on the subsets of its domain; the *)
(* library's induction theorems are used in the form that speaks of sets,  *)
(* a set of subsets having a smallest member.                              *)
(***************************************************************************)
\* A set that has zero and the successor of each of its numbers has them all.
LEMMA Successors ==
    ASSUME NEW set, 0 \in set, \A n \in Nat : n \in set => n + 1 \in set
    PROVE  Nat \subseteq set
<1> SUFFICES ASSUME {n \in Nat : n \notin set} # {} PROVE FALSE
  OBVIOUS
<1>1. PICK n \in {k \in Nat : k \notin set} :
        \A k \in {i \in Nat : i \notin set} : <<k, n>> \notin OpToRel(<, Nat)
  BY NatLessThanWellFounded, WFMin
<1>2. \A k \in Nat : k < n => k \in set
  BY <1>1 DEF OpToRel
<1>3. n \in Nat /\ n \notin set
  OBVIOUS
<1>4. n = 0 \/ (n - 1 \in Nat /\ n - 1 < n /\ (n - 1) + 1 = n)
  BY <1>3
<1> QED BY <1>2, <1>3, <1>4

\* Sets of subsets of a finite set have a member none of whose proper subsets is one.
LEMMA SmallestSubset ==
    ASSUME NEW S, IsFiniteSet(S), NEW T \in SUBSET SUBSET S, T # {}
    PROVE  \E s \in T : \A t \in SUBSET s : t # s => t \notin T
<1>1. IsWellFoundedOn(StrictSubsetOrdering(S), SUBSET S)
  BY FS_StrictSubsetOrderingWellFounded, FS_FiniteSubsetsOfFinite
<1>2. \E x \in T : \A y \in T : <<y, x>> \notin StrictSubsetOrdering(S)
  BY <1>1, WFMin
<1> QED BY <1>2 DEF StrictSubsetOrdering

Pick(s) == CHOOSE x \in s : TRUE

\* sum gives the sums of f over the subsets of S, as Total computes them.
Sums(sum, f, S) ==
    /\ sum \in [SUBSET S -> Int]
    /\ \A s \in SUBSET S :
         sum[s] = IF s = {} THEN 0 ELSE f[Pick(s)] + sum[s \ {Pick(s)}]

LEMMA PickIsMember ==
    ASSUME NEW S, IsFiniteSet(S), NEW s \in SUBSET S, s # {}
    PROVE  /\ Pick(s) \in s /\ s \ {Pick(s)} \in SUBSET s /\ s \ {Pick(s)} # s
           /\ Cardinality(s) \in Nat /\ Cardinality(s \ {Pick(s)}) = Cardinality(s) - 1
<1>1. Pick(s) \in s
  BY DEF Pick
<1>2. IsFiniteSet(s)
  BY FS_Subset
<1> QED BY <1>1, <1>2, FS_CardinalityType, FS_RemoveElement

LEMMA SumsExist ==
    ASSUME NEW S, IsFiniteSet(S), NEW f \in [S -> Int]
    PROVE  \E sum : Sums(sum, f, S)
<1> DEFINE Below(n) == {s \in SUBSET S : Cardinality(s) <= n}
           Fits(sum, n) ==
             /\ sum \in [Below(n) -> Int]
             /\ \A s \in Below(n) :
                  sum[s] = IF s = {} THEN 0 ELSE f[Pick(s)] + sum[s \ {Pick(s)}]
           set == {n \in Nat : \E sum : Fits(sum, n)}
<1>0. \A s \in SUBSET S : Cardinality(s) \in Nat /\ (Cardinality(s) = 0 <=> s = {})
  BY FS_Subset, FS_CardinalityType, FS_EmptySet
<1>1. 0 \in set
  <2>1. \A s \in Below(0) : s = {}
    BY <1>0
  <2>2. Fits([s \in Below(0) |-> 0], 0)
    BY <2>1
  <2> QED BY <2>2
<1>2. ASSUME NEW n \in Nat, n \in set PROVE n + 1 \in set
  <2>1. PICK sum : Fits(sum, n)
    BY <1>2
  <2> DEFINE new == [s \in Below(n + 1) |->
                       IF Cardinality(s) <= n THEN sum[s]
                       ELSE f[Pick(s)] + sum[s \ {Pick(s)}]]
  <2>2. ASSUME NEW s \in Below(n + 1), s # {}
        PROVE  /\ Pick(s) \in S /\ f[Pick(s)] \in Int
               /\ s \ {Pick(s)} \in Below(n) /\ s \ {Pick(s)} \in Below(n + 1)
               /\ Cardinality(s \ {Pick(s)}) <= n
    BY <1>0, <2>2, PickIsMember
  <2>3. \A s \in Below(n + 1) : Cardinality(s) <= n => s \in Below(n)
    OBVIOUS
  <2>3a. \A s \in Below(n + 1) : ~(Cardinality(s) <= n) => s # {}
    BY <1>0
  <2>4. new \in [Below(n + 1) -> Int]
    <3> SUFFICES ASSUME NEW s \in Below(n + 1) PROVE new[s] \in Int
      OBVIOUS
    <3>1. CASE Cardinality(s) <= n
      BY <2>1, <2>3, <3>1
    <3>2. CASE ~(Cardinality(s) <= n)
      <4>1. s # {}
        BY <2>3a, <3>2
      <4>2. sum[s \ {Pick(s)}] \in Int
        BY <2>1, <2>2, <4>1
      <4> QED BY <2>2, <3>2, <4>1, <4>2
    <3> QED BY <3>1, <3>2
  <2>5. ASSUME NEW s \in Below(n + 1)
        PROVE  new[s] = IF s = {} THEN 0 ELSE f[Pick(s)] + new[s \ {Pick(s)}]
    <3>1. CASE s = {}
      <4>1. Cardinality(s) <= n
        BY <1>0, <3>1
      <4> QED BY <2>1, <2>3, <3>1, <4>1
    <3>2. CASE s # {}
      <4>1. new[s \ {Pick(s)}] = sum[s \ {Pick(s)}]
        BY <2>2, <3>2
      <4>2. CASE Cardinality(s) <= n
        <5>1. s \in Below(n) /\ new[s] = sum[s]
          BY <2>3, <4>2
        <5> QED BY <2>1, <3>2, <4>1, <5>1
      <4>3. CASE ~(Cardinality(s) <= n)
        BY <3>2, <4>1, <4>3
      <4> QED BY <4>2, <4>3
    <3> QED BY <3>1, <3>2
  <2> HIDE DEF new
  <2>6. Fits(new, n + 1)
    BY <2>4, <2>5
  <2> HIDE DEF Fits
  <2> QED BY <2>6
<1>3. Cardinality(S) \in set
  <2> HIDE DEF set
  <2> QED BY <1>0, <1>1, <1>2, Successors
<1>4. PICK sum : Fits(sum, Cardinality(S))
  BY <1>3
<1>5. Below(Cardinality(S)) = SUBSET S
  BY FS_Subset
<1> QED BY <1>4, <1>5 DEF Sums

\* What the fold chooses is that function.
LEMMA TotalSums ==
    ASSUME NEW S, IsFiniteSet(S), NEW f \in [S -> Int]
    PROVE  \E sum : Sums(sum, f, S) /\ Total(f) = sum[S]
<1> DEFINE Step(g) == [s \in SUBSET S |-> IF s = {} THEN 0 ELSE f[Pick(s)] + g[s \ {Pick(s)}]]
           fold == CHOOSE g : g = Step(g)
<1>1. Total(f) = fold[S]
  BY DEF Total, FoldFunction, FoldFunctionOnSet, MapThenFoldSet, Pick
<1>2. PICK sum : Sums(sum, f, S)
  BY SumsExist
<1>3. sum = Step(sum)
  BY <1>2 DEF Sums
<1>4. fold = Step(fold)
  <2> HIDE DEF Step
  <2> QED BY <1>3
<1>5. \A s \in SUBSET S : fold[s] = IF s = {} THEN 0 ELSE f[Pick(s)] + fold[s \ {Pick(s)}]
  <2> HIDE DEF fold
  <2> QED BY <1>4
<1> HIDE DEF fold
<1> DEFINE odd == {s \in SUBSET S : fold[s] # sum[s]}
<1>6. ASSUME odd # {} PROVE FALSE
  <2>0. odd \in SUBSET SUBSET S
    OBVIOUS
  <2> HIDE DEF odd
  <2>1n. PICK s \in odd : \A t \in SUBSET s : t # s => t \notin odd
    BY <1>6, <2>0, SmallestSubset
  <2>1. s \in SUBSET S /\ fold[s] # sum[s] /\ \A t \in SUBSET s : t # s => fold[t] = sum[t]
    BY <2>1n DEF odd
  <2>2. s # {}
    BY <1>2, <1>5, <2>1 DEF Sums
  <2>3. fold[s \ {Pick(s)}] = sum[s \ {Pick(s)}]
    BY <2>1, <2>2, PickIsMember
  <2> QED BY <1>2, <1>5, <2>1, <2>2, <2>3 DEF Sums
<1>7. fold[S] = sum[S]
  BY <1>6
<1> QED BY <1>1, <1>2, <1>7

\* Induction along the fold.
LEMMA AlongFold ==
    ASSUME NEW S, IsFiniteSet(S), NEW G, {} \in G,
           \A s \in SUBSET S : s # {} /\ s \ {Pick(s)} \in G => s \in G
    PROVE  S \in G
<1> DEFINE rest == {s \in SUBSET S : s \notin G}
<1>1. rest \in SUBSET SUBSET S
  OBVIOUS
<1>2. ASSUME rest # {} PROVE FALSE
  <2> HIDE DEF rest
  <2>1. PICK s \in rest : \A t \in SUBSET s : t # s => t \notin rest
    BY <1>1, <1>2, SmallestSubset
  <2>2. s \in SUBSET S /\ s \notin G /\ s # {}
    BY <2>1 DEF rest
  <2>3. s \ {Pick(s)} \in SUBSET S /\ s \ {Pick(s)} \notin rest
    BY <2>1, <2>2, PickIsMember
  <2>4. s \ {Pick(s)} \in G
    BY <2>3 DEF rest
  <2> QED BY <2>2, <2>4
<1> QED BY <1>2

LEMMA SumsEnds ==
    ASSUME NEW S, NEW f, NEW sum, Sums(sum, f, S)
    PROVE  {} \in SUBSET S /\ sum[{}] = 0 /\ sum[S] \in Int
<1>1. {} \in SUBSET S /\ S \in SUBSET S
  OBVIOUS
<1> QED BY <1>1 DEF Sums

LEMMA TotalInt ==
    ASSUME NEW S, IsFiniteSet(S), NEW f \in [S -> Int]
    PROVE  Total(f) \in Int
<1>1. PICK sum : Sums(sum, f, S) /\ Total(f) = sum[S]
  BY TotalSums
<1> QED BY <1>1, SumsEnds

\* One sum of factors times the values of another is that factor times its sum.
LEMMA TotalScaled ==
    ASSUME NEW S, IsFiniteSet(S), NEW f \in [S -> Int], NEW k \in [S -> Int], NEW c \in Int,
           \A x \in S : k[x] = c * f[x]
    PROVE  Total(k) = c * Total(f)
<1>1. PICK u : Sums(u, f, S) /\ Total(f) = u[S]
  BY TotalSums
<1>2. PICK v : Sums(v, k, S) /\ Total(k) = v[S]
  BY TotalSums
<1> DEFINE G == {s \in SUBSET S : v[s] = c * u[s]}
<1>3. {} \in G
  BY <1>1, <1>2, SumsEnds
<1>4. ASSUME NEW s \in SUBSET S, s # {}, s \ {Pick(s)} \in G PROVE s \in G
  <2> DEFINE p == Pick(s)
             r == s \ {p}
  <2>1. p \in S /\ r \in SUBSET S
    BY <1>4, PickIsMember
  <2>2. u[s] = f[p] + u[r] /\ v[s] = k[p] + v[r]
    BY <1>1, <1>2, <1>4 DEF Sums
  <2>3. v[r] = c * u[r] /\ k[p] = c * f[p]
    BY <1>4, <2>1
  <2>4. u[r] \in Int /\ f[p] \in Int
    BY <1>1, <2>1 DEF Sums
  <2> HIDE DEF p, r
  <2>5. c * f[p] + c * u[r] = c * (f[p] + u[r])
    BY <2>4
  <2> QED BY <2>2, <2>3, <2>5
<1>5. S \in G
  <2> HIDE DEF G
  <2> QED BY <1>3, <1>4, AlongFold
<1> QED BY <1>1, <1>2, <1>5

\* The sum of the sums of two functions.
LEMMA TotalAdded ==
    ASSUME NEW S, IsFiniteSet(S), NEW f \in [S -> Int], NEW g \in [S -> Int],
           NEW k \in [S -> Int], \A x \in S : k[x] = f[x] + g[x]
    PROVE  Total(k) = Total(f) + Total(g)
<1>1. PICK u : Sums(u, f, S) /\ Total(f) = u[S]
  BY TotalSums
<1>2. PICK v : Sums(v, g, S) /\ Total(g) = v[S]
  BY TotalSums
<1>3. PICK w : Sums(w, k, S) /\ Total(k) = w[S]
  BY TotalSums
<1> DEFINE G == {s \in SUBSET S : w[s] = u[s] + v[s]}
<1>4. {} \in G
  BY <1>1, <1>2, <1>3, SumsEnds
<1>5. ASSUME NEW s \in SUBSET S, s # {}, s \ {Pick(s)} \in G PROVE s \in G
  <2> DEFINE p == Pick(s)
             r == s \ {p}
  <2>1. p \in S /\ r \in SUBSET S
    BY <1>5, PickIsMember
  <2>2. u[s] = f[p] + u[r] /\ v[s] = g[p] + v[r] /\ w[s] = k[p] + w[r]
    BY <1>1, <1>2, <1>3, <1>5 DEF Sums
  <2>3. w[r] = u[r] + v[r] /\ k[p] = f[p] + g[p]
    BY <1>5, <2>1
  <2>4. u[r] \in Int /\ v[r] \in Int /\ f[p] \in Int /\ g[p] \in Int
    BY <1>1, <1>2, <2>1 DEF Sums
  <2> HIDE DEF p, r
  <2> QED BY <2>2, <2>3, <2>4
<1>6. S \in G
  <2> HIDE DEF G
  <2> QED BY <1>4, <1>5, AlongFold
<1> QED BY <1>1, <1>2, <1>3, <1>6

\* A sum is at least that of smaller values.
LEMMA TotalOrdered ==
    ASSUME NEW S, IsFiniteSet(S), NEW f \in [S -> Int], NEW k \in [S -> Int],
           \A x \in S : f[x] <= k[x]
    PROVE  Total(f) <= Total(k)
<1>1. PICK u : Sums(u, f, S) /\ Total(f) = u[S]
  BY TotalSums
<1>2. PICK v : Sums(v, k, S) /\ Total(k) = v[S]
  BY TotalSums
<1> DEFINE G == {s \in SUBSET S : u[s] <= v[s]}
<1>3. {} \in G
  BY <1>1, <1>2, SumsEnds
<1>4. ASSUME NEW s \in SUBSET S, s # {}, s \ {Pick(s)} \in G PROVE s \in G
  <2> DEFINE p == Pick(s)
             r == s \ {p}
  <2>1. p \in S /\ r \in SUBSET S
    BY <1>4, PickIsMember
  <2>2. u[s] = f[p] + u[r] /\ v[s] = k[p] + v[r]
    BY <1>1, <1>2, <1>4 DEF Sums
  <2>3. u[r] <= v[r] /\ f[p] <= k[p]
    BY <1>4, <2>1
  <2>4. u[r] \in Int /\ v[r] \in Int /\ f[p] \in Int /\ k[p] \in Int
    BY <1>1, <1>2, <2>1 DEF Sums
  <2> HIDE DEF p, r
  <2> QED BY <2>2, <2>3, <2>4
<1>5. S \in G
  <2> HIDE DEF G
  <2> QED BY <1>3, <1>4, AlongFold
<1> QED BY <1>1, <1>2, <1>5

\* A sum of values at most c, of which that of y is at most d.
LEMMA TotalBounded ==
    ASSUME NEW S, IsFiniteSet(S), NEW f \in [S -> Int], NEW c \in Int, NEW d \in Int,
           NEW y \in S, f[y] <= d, \A x \in S : f[x] <= c
    PROVE  Total(f) <= d + c * (Cardinality(S) - 1)
<1>1. PICK u : Sums(u, f, S) /\ Total(f) = u[S]
  BY TotalSums
<1> DEFINE Limit(s) == IF y \in s THEN d + c * (Cardinality(s) - 1) ELSE c * Cardinality(s)
           G == {s \in SUBSET S : u[s] <= Limit(s)}
<1>2. {} \in G
  <2>1. {} \in SUBSET S /\ u[{}] = 0
    BY <1>1, SumsEnds
  <2>2. Cardinality({}) = 0
    BY FS_EmptySet
  <2> QED BY <2>1, <2>2
<1>3. ASSUME NEW s \in SUBSET S, s # {}, s \ {Pick(s)} \in G PROVE s \in G
  <2> DEFINE p == Pick(s)
             r == s \ {p}
             n == Cardinality(s)
             m == Cardinality(r)
  <2>1. p \in s /\ r \in SUBSET S /\ n \in Nat /\ m = n - 1
    BY <1>3, PickIsMember
  <2>2. u[s] = f[p] + u[r] /\ u[r] \in Int /\ f[p] \in Int
    BY <1>1, <1>3, <2>1 DEF Sums
  <2>3. u[r] <= Limit(r)
    BY <1>3
  <2>4. f[p] <= c /\ (p = y => f[p] <= d)
    BY <2>1
  <2>5. y \in r <=> y \in s /\ y # p
    OBVIOUS
  <2>6. c * (n - 1) = c * n - c /\ c * ((n - 1) - 1) = c * n - c - c /\ c * n \in Int
    BY <2>1
  <2>7. Limit(s) = IF y \in s THEN d + c * (n - 1) ELSE c * n
    OBVIOUS
  <2>8. Limit(r) = IF y \in r THEN d + c * ((n - 1) - 1) ELSE c * (n - 1)
    BY <2>1
  <2> HIDE DEF p, r, n, m, Limit
  <2> DEFINE z == c * n
  <2>9. u[s] <= Limit(s)
    <3>1. CASE p = y
      BY <2>1, <2>2, <2>3, <2>4, <2>5, <2>6, <2>7, <2>8, <3>1
    <3>2. CASE p # y /\ y \in s
      <4>1. Limit(s) = d + (z - c) /\ Limit(r) = d + (z - c - c) /\ z \in Int
        BY <2>5, <2>6, <2>7, <2>8, <3>2
      <4> HIDE DEF z
      <4> QED BY <2>2, <2>3, <2>4, <4>1
    <3>3. CASE y \notin s
      <4>1. Limit(s) = z /\ Limit(r) = z - c /\ z \in Int
        BY <2>5, <2>6, <2>7, <2>8, <3>3
      <4> HIDE DEF z
      <4> QED BY <2>2, <2>3, <2>4, <4>1
    <3> QED BY <3>1, <3>2, <3>3
  <2> QED BY <2>9
<1>4. S \in G
  <2> HIDE DEF G
  <2> QED BY <1>2, <1>3, AlongFold
<1> QED BY <1>1, <1>4

LEMMA TotalZero ==
    ASSUME NEW S, IsFiniteSet(S), NEW f \in [S -> Int], \A x \in S : f[x] = 0
    PROVE  Total(f) = 0
<1>1. \A x \in S : f[x] = 0 * f[x]
  OBVIOUS
<1> QED BY <1>1, TotalInt, TotalScaled

\* A sum of values that are not negative is at least each of them.
LEMMA TotalAtLeast ==
    ASSUME NEW S, IsFiniteSet(S), NEW f \in [S -> Nat], NEW y \in S
    PROVE  f[y] <= Total(f)
<1> DEFINE k == [x \in S |-> -f[x]]
<1>1. k \in [S -> Int] /\ f \in [S -> Int] /\ k[y] <= -f[y] /\ \A x \in S : k[x] <= 0
  OBVIOUS
<1>2. \A x \in S : k[x] = (-1) * f[x]
  OBVIOUS
<1> HIDE DEF k
<1>3. Total(k) = (-1) * Total(f)
  BY <1>1, <1>2, TotalScaled
<1>4. Total(k) <= (-f[y]) + 0 * (Cardinality(S) - 1)
  BY <1>1, TotalBounded
<1>5. Total(f) \in Int /\ Cardinality(S) \in Nat
  BY <1>1, TotalInt, FS_CardinalityType
<1> QED BY <1>1, <1>3, <1>4, <1>5

-----------------------------------------------------------------------------
(* The fusion. *)

\* The sets of experts are finite.
LEMMA ExpertsFinite == IsFiniteSet(Experts) /\ Cardinality(Experts) = NumExperts /\ Experts # {}
<1>1. 1 \in Int /\ NumExperts \in Int /\ NumExperts >= 1
  BY FusionAssumption
<1>2. IsFiniteSet(1..NumExperts) /\ Cardinality(1..NumExperts) = NumExperts
  BY <1>1, FS_Interval
<1>3. 1 \in 1..NumExperts
  BY <1>1
<1> QED BY <1>2, <1>3 DEF Experts

\* A mask, deltas and priors that build_mpopd_target may be given.
Typed(m, d, p) ==
    /\ m \in [Experts -> BOOLEAN] /\ d \in [Experts -> Deltas] /\ p \in [Experts -> Priors]

(* Positive priors, as the code demands, whose least one leaves the sum of the enabled      *)
(* weights above the clamp.                                                                 *)
ModeratePriors == \A x \in Priors : One * (NumExperts - 1) <= (Clamp - 1) * x

\* The strengths the code sums over, and what the fused delta sums up.
Strengths(m, d, p) == [e \in Experts |-> Strength(d, p, e)]
Weighted(m, d, p)  == [e \in Experts |-> Strengths(m, d, p)[e] * d[e]]
Logit(m, d, p)  == [e \in Experts |-> IF m[e] THEN Strength(d, p, e) ELSE One]
Masked(m, d, p) == [e \in Experts |-> IF m[e] THEN Strengths(m, d, p)[e] ELSE 0]
Pulled(m, d, p) == [e \in Experts |-> IF m[e] THEN Weighted(m, d, p)[e] ELSE 0]

LEMMA Values ==
    ASSUME NEW m, NEW d, NEW p, Typed(m, d, p), NEW e \in Experts
    PROVE  /\ Strength(d, p, e) \in Nat \ {0} /\ p[e] \in Nat \ {0}
           /\ p[e] <= Strength(d, p, e) /\ d[e] \in Int
           /\ Strengths(m, d, p)[e] = Strength(d, p, e)
           /\ Weighted(m, d, p)[e] = Strengths(m, d, p)[e] * d[e] /\ Weighted(m, d, p)[e] \in Int
<1>1. p[e] \in Nat \ {0} /\ d[e] \in Deltas /\ d[e] \in Int
  BY FusionAssumption DEF Typed
<1>2. Exp[Abs(d[e])] \in Nat \ {0}
  BY <1>1, FusionAssumption
<1>3. \A a, b \in Nat \ {0} : a * b \in Nat \ {0} /\ a <= a * b
  OBVIOUS
<1>4. /\ Strength(d, p, e) \in Nat \ {0}
      /\ p[e] <= Strength(d, p, e)
  BY <1>1, <1>2, <1>3 DEF Strength
<1>5. Strengths(m, d, p)[e] = Strength(d, p, e) /\ Weighted(m, d, p)[e] = Strengths(m, d, p)[e] * d[e]
  BY DEF Strengths, Weighted
<1> QED BY <1>1, <1>4, <1>5

LEMMA Summands ==
    ASSUME NEW m, NEW d, NEW p, Typed(m, d, p)
    PROVE  /\ Logit(m, d, p) \in [Experts -> Int] /\ Masked(m, d, p) \in [Experts -> Nat]
           /\ Masked(m, d, p) \in [Experts -> Int] /\ Pulled(m, d, p) \in [Experts -> Int]
           /\ One \in Nat /\ Clamp \in Nat \ {0} /\ IsFiniteSet(Experts)
BY Values, FusionAssumption, ExpertsFinite DEF Logit, Masked, Pulled, Typed

LEMMA Fused ==
    ASSUME NEW m, NEW d, NEW p, Typed(m, d, p)
    PROVE  /\ (\E e \in Experts : m[e])
                => Fuse(m, d, p).delta = Clamp * Total(Pulled(m, d, p))
           /\ Fuse(m, d, p).scale = Most(Clamp * Total(Masked(m, d, p)), Total(Logit(m, d, p)))
<1> DEFINE w == Weights(m, d, p)
           safe == [e \in Experts |-> IF m[e] THEN d[e] ELSE 0]
           contribution == [e \in Experts |-> w.weight[e] * safe[e]]
<1>1. Masked(m, d, p) = [e \in Experts |-> IF m[e] THEN Logit(m, d, p)[e] ELSE 0]
  BY Values DEF Masked, Logit
<1>2. w = [weight |-> [e \in Experts |-> Clamp * Masked(m, d, p)[e]],
           scale  |-> Most(Clamp * Total(Masked(m, d, p)), Total(Logit(m, d, p)))]
  BY <1>1 DEF Weights, Logit
<1>3. Fuse(m, d, p) =
        [weight |-> w.weight, scale |-> w.scale,
         delta |-> IF \E e \in Experts : m[e] THEN Total(contribution) ELSE 0]
  BY DEF Fuse
<1>4. ASSUME NEW e \in Experts
      PROVE  contribution[e] = Clamp * Pulled(m, d, p)[e] /\ contribution[e] \in Int
  <2>1. contribution[e] = (Clamp * Masked(m, d, p)[e]) * (IF m[e] THEN d[e] ELSE 0)
    BY <1>2
  <2>2. \A a, b, c \in Int : (a * b) * c = a * (b * c) /\ a * 0 = 0 /\ (a * 0) * 0 = 0
                             /\ a * b \in Int
    OBVIOUS
  <2>3. Clamp \in Int /\ Strengths(m, d, p)[e] \in Int /\ d[e] \in Int /\ Pulled(m, d, p)[e] \in Int
    BY Values, Summands
  <2>4. CASE m[e]
    <3>1. Masked(m, d, p)[e] = Strengths(m, d, p)[e] /\ Pulled(m, d, p)[e] = Strengths(m, d, p)[e] * d[e]
      BY <2>4, Values DEF Masked, Pulled
    <3> QED BY <2>1, <2>2, <2>3, <2>4, <3>1
  <2>5. CASE ~m[e]
    <3>1. Masked(m, d, p)[e] = 0 /\ Pulled(m, d, p)[e] = 0
      BY <2>5 DEF Masked, Pulled
    <3> QED BY <2>1, <2>2, <2>3, <2>5, <3>1
  <2> QED BY <2>4, <2>5, Summands DEF Typed
<1> HIDE DEF w
<1>5. contribution \in [Experts -> Int]
  BY <1>4
<1> HIDE DEF contribution
<1>6. Total(contribution) = Clamp * Total(Pulled(m, d, p))
  BY <1>4, <1>5, Summands, TotalScaled
<1> QED BY <1>2, <1>3, <1>6

\* The placeholders of the disabled experts weigh at most One each.
LEMMA Placeholders ==
    ASSUME NEW m, NEW d, NEW p, Typed(m, d, p), NEW y \in Experts, m[y]
    PROVE  Total(Logit(m, d, p)) <= Total(Masked(m, d, p)) + One * (NumExperts - 1)
<1> DEFINE filled == [e \in Experts |-> IF m[e] THEN 0 ELSE One]
<1>1. /\ filled \in [Experts -> Int] /\ filled[y] <= 0
      /\ \A e \in Experts : filled[e] <= One
  BY Summands DEF Typed
<1>2. \A e \in Experts : Logit(m, d, p)[e] = Masked(m, d, p)[e] + filled[e]
  BY Values, Summands DEF Logit, Masked
<1> HIDE DEF filled
<1>3. Total(Logit(m, d, p)) = Total(Masked(m, d, p)) + Total(filled)
  <2> DEFINE logit == Logit(m, d, p)
             masked == Masked(m, d, p)
  <2>1. /\ logit \in [Experts -> Int] /\ masked \in [Experts -> Int] /\ IsFiniteSet(Experts)
        /\ \A e \in Experts : logit[e] = masked[e] + filled[e]
    BY <1>2, Summands
  <2> HIDE DEF logit, masked
  <2>2. Total(logit) = Total(masked) + Total(filled)
    BY <1>1, <2>1, TotalAdded
  <2> QED BY <2>2 DEF logit, masked
<1>4. Total(filled) <= 0 + One * (NumExperts - 1)
  BY <1>1, Summands, TotalBounded, ExpertsFinite
<1>5. Total(filled) \in Int /\ Total(Masked(m, d, p)) \in Int /\ NumExperts \in Nat
  BY <1>1, Summands, TotalInt, FusionAssumption
<1> DEFINE z == One * (NumExperts - 1)
<1>6. z \in Int
  BY <1>5, Summands
<1>7. Total(filled) <= z
  BY <1>4, <1>6
<1> HIDE DEF z
<1>8. Total(Logit(m, d, p)) <= Total(Masked(m, d, p)) + z
  BY <1>3, <1>5, <1>6, <1>7
<1> QED BY <1>8 DEF z

(* With moderate priors the fused delta is the average of the enabled experts' deltas under *)
(* the softmax over these alone: placeholders, mask, division and clamp leave nothing of    *)
(* the disabled ones, for any number of experts.                                            *)
THEOREM FusionAveragesEnabled ==
    ASSUME ModeratePriors, NEW m \in [Experts -> BOOLEAN]
    PROVE  {e \in Experts : m[e]} \in Averaged[m]
<1> DEFINE on == {e \in Experts : m[e]}
<1>1. ASSUME NEW d \in [Experts -> Deltas], NEW p \in [Experts -> Priors]
      PROVE  AverageOf(on, d, p, Fuse(m, d, p))
  <2>1. Typed(m, d, p)
    BY DEF Typed
  <2>2. CASE ~\E e \in Experts : m[e]
    BY <2>2 DEF AverageOf, Fuse
  <2>3. CASE \E e \in Experts : m[e]
    <3> DEFINE A == Total(Masked(m, d, p))
               L == Total(Logit(m, d, p))
               P == Total(Pulled(m, d, p))
    <3>1. PICK y \in Experts : m[y]
      BY <2>3
    <3>2. A \in Int /\ L \in Int /\ P \in Int /\ Clamp \in Nat \ {0}
      BY <2>1, Summands, TotalInt
    <3>3. p[y] <= A /\ p[y] \in Nat /\ p[y] \in Priors
      <4>1. Masked(m, d, p)[y] <= A
        BY <2>1, Summands, TotalAtLeast
      <4>2. Masked(m, d, p)[y] = Strength(d, p, y)
        BY <2>1, <3>1, Values DEF Masked
      <4>3. /\ p[y] \in Nat /\ Strength(d, p, y) \in Nat
            /\ p[y] <= Strength(d, p, y)
        BY <2>1, Values
      <4>4. p[y] \in Priors
        OBVIOUS
      <4> QED BY <3>2, <4>1, <4>2, <4>3, <4>4
    <3>4. L <= Clamp * A
      <4> DEFINE z == One * (NumExperts - 1)
      <4>1. L <= A + z
        BY <2>1, <3>1, Placeholders
      <4>2. z <= (Clamp - 1) * p[y]
        BY <3>3 DEF ModeratePriors
      <4>3. \A a, b, c \in Int : a >= 0 /\ b <= c => a * b <= a * c
        OBVIOUS
      <4>4. (Clamp - 1) * p[y] <= (Clamp - 1) * A
        BY <3>2, <3>3, <4>3
      <4>5. (Clamp - 1) * A = Clamp * A - A /\ Clamp * A \in Int
        BY <3>2
      <4>6. z \in Int /\ (Clamp - 1) * p[y] \in Int
        BY <2>1, <3>2, <3>3, Summands, FusionAssumption
      <4> DEFINE u == (Clamp - 1) * p[y]
                 v == Clamp * A
      <4>7. u \in Int /\ v \in Int /\ z <= u /\ u <= v - A
        BY <4>2, <4>4, <4>5, <4>6
      <4> HIDE DEF z, u, v, A, L
      <4>8. L <= v
        BY <3>2, <4>1, <4>6, <4>7
      <4> QED BY <4>8 DEF v
    <3>5. Fuse(m, d, p).delta = Clamp * P /\ Fuse(m, d, p).scale = Clamp * A
      <4>1. Fuse(m, d, p).delta = Clamp * P /\ Fuse(m, d, p).scale = Most(Clamp * A, L)
        BY <2>1, <2>3, Fused
      <4>2. Clamp * A \in Int
        BY <3>2
      <4> HIDE DEF A, L
      <4> QED BY <3>2, <3>4, <4>1, <4>2 DEF Most
    <3>6. /\ SumOver(on, [e \in Experts |-> Strength(d, p, e)]) = A
          /\ SumOver(on, [e \in Experts |-> [x \in Experts |-> Strength(d, p, x)][e] * d[e]]) = P
      BY DEF SumOver, Masked, Pulled, Strengths, Weighted
    <3>7. on # {}
      BY <3>1
    <3> DEFINE strength == [e \in Experts |-> Strength(d, p, e)]
               weighted == [e \in Experts |-> strength[e] * d[e]]
    <3>8. SumOver(on, strength) = A /\ SumOver(on, weighted) = P
      BY <3>6
    <3>9. AverageOf(on, d, p, Fuse(m, d, p)) <=>
            Fuse(m, d, p).delta * SumOver(on, strength) = SumOver(on, weighted) * Fuse(m, d, p).scale
      BY <3>7 DEF AverageOf
    <3> HIDE DEF A, P, on, strength, weighted
    <3>10. \A a, b, c \in Int : (c * b) * a = b * (c * a)
      OBVIOUS
    <3> QED BY <3>2, <3>5, <3>8, <3>9, <3>10
  <2> QED BY <2>2, <2>3
<1>2. m \in [Experts -> BOOLEAN] /\ on \in SUBSET Experts
  OBVIOUS
<1>3. on \in Averaged[m] <=>
        \A d \in [Experts -> Deltas], p \in [Experts -> Priors] : AverageOf(on, d, p, Fuse(m, d, p))
  <2> HIDE DEF on
  <2> QED BY <1>2 DEF Averaged
<1> QED BY <1>1, <1>3

(* Whatever the priors and the clamp: the division has a divisor, and the fused delta is    *)
(* not larger than what the deltas of the enabled experts are.                              *)
FusedWithin(m, d, p) ==
    /\ Fuse(m, d, p).scale > 0
    /\ \A b \in Nat :
         (\A e \in Experts : m[e] => Abs(d[e]) <= b)
           => Abs(Fuse(m, d, p).delta) <= b * Fuse(m, d, p).scale

LEMMA PulledWithin ==
    ASSUME NEW m, NEW d, NEW p, Typed(m, d, p), NEW b \in Nat,
           \A e \in Experts : m[e] => Abs(d[e]) <= b
    PROVE  /\ Total(Pulled(m, d, p)) <= b * Total(Masked(m, d, p))
           /\ (-b) * Total(Masked(m, d, p)) <= Total(Pulled(m, d, p))
<1> DEFINE upper == [e \in Experts |-> b * Masked(m, d, p)[e]]
           lower == [e \in Experts |-> (-b) * Masked(m, d, p)[e]]
<1>1. upper \in [Experts -> Int] /\ lower \in [Experts -> Int]
  BY Summands
<1>2. ASSUME NEW e \in Experts
      PROVE  lower[e] <= Pulled(m, d, p)[e] /\ Pulled(m, d, p)[e] <= upper[e]
  <2>1. CASE m[e]
    <3> DEFINE s == Strengths(m, d, p)[e]
               z == d[e]
    <3>1. s \in Nat /\ z \in Int /\ Masked(m, d, p)[e] = s /\ Pulled(m, d, p)[e] = s * z
      BY <2>1, Values DEF Masked, Pulled
    <3>2. -b <= z /\ z <= b
      BY <2>1, <3>1 DEF Abs
    <3>3. \A x, y \in Int : x <= y => s * x <= s * y
      <4> HIDE DEF s
      <4> QED BY <3>1
    <3>4. s * (-b) <= s * z /\ s * z <= s * b
      BY <3>1, <3>2, <3>3
    <3>5. lower[e] = s * (-b) /\ upper[e] = s * b
      <4>1. lower[e] = (-b) * s /\ upper[e] = b * s
        BY <3>1
      <4> HIDE DEF s, lower, upper
      <4> QED BY <3>1, <4>1
    <3> QED BY <3>1, <3>4, <3>5
  <2>2. CASE ~m[e]
    BY <2>2 DEF Masked, Pulled
  <2> QED BY <2>1, <2>2
<1>3. /\ \A e \in Experts : upper[e] = b * Masked(m, d, p)[e]
      /\ \A e \in Experts : lower[e] = (-b) * Masked(m, d, p)[e]
  OBVIOUS
<1> HIDE DEF upper, lower
<1>4. Total(upper) = b * Total(Masked(m, d, p)) /\ Total(lower) = (-b) * Total(Masked(m, d, p))
  BY <1>1, <1>3, Summands, TotalScaled
<1>5. Total(Pulled(m, d, p)) <= Total(upper) /\ Total(lower) <= Total(Pulled(m, d, p))
  BY <1>1, <1>2, Summands, TotalOrdered
<1> QED BY <1>4, <1>5

(* No prior, mask or clamp makes the fusion divide by zero or amplify a delta.              *)
THEOREM FusionWithinEnabled ==
    ASSUME NEW m \in [Experts -> BOOLEAN], NEW d \in [Experts -> Deltas],
           NEW p \in [Experts -> Priors]
    PROVE  FusedWithin(m, d, p)
<1>1. Typed(m, d, p)
  BY DEF Typed
<1>2. FusedWithin(m, d, p)
  <2> DEFINE A == Total(Masked(m, d, p))
             L == Total(Logit(m, d, p))
             P == Total(Pulled(m, d, p))
             C == Clamp * A
  <2>2. A \in Int /\ L \in Int /\ P \in Int /\ Clamp \in Nat \ {0} /\ C \in Int
    BY <1>1, Summands, TotalInt
  <2>3. Fuse(m, d, p).scale = Most(C, L)
    BY <1>1, Fused
  <2>4. L > 0
    <3>1. PICK e \in Experts : TRUE
      BY ExpertsFinite
    <3>2. Logit(m, d, p) \in [Experts -> Nat] /\ Logit(m, d, p)[e] > 0
      BY <1>1, Values, Summands, FusionAssumption DEF Logit
    <3>3. Logit(m, d, p)[e] <= L
      BY <1>1, <3>2, Summands, TotalAtLeast
    <3> HIDE DEF L
    <3> QED BY <2>2, <3>2, <3>3
  <2>5. Fuse(m, d, p).scale \in Nat \ {0} /\ Fuse(m, d, p).scale >= C
    <3> HIDE DEF L, C
    <3> QED BY <2>2, <2>3, <2>4 DEF Most
  <2>6. ASSUME NEW b \in Nat, \A e \in Experts : m[e] => Abs(d[e]) <= b
        PROVE  Abs(Fuse(m, d, p).delta) <= b * Fuse(m, d, p).scale
    <3> DEFINE D == b * Fuse(m, d, p).scale
    <3>1. \A x, y \in Int : x <= y => b * x <= b * y /\ Clamp * x <= Clamp * y
      BY <2>2
    <3>2. D \in Nat
      BY <2>5
    <3>3. CASE ~\E e \in Experts : m[e]
      <4>1. Fuse(m, d, p).delta = 0
        BY <3>3 DEF Fuse
      <4> HIDE DEF D
      <4>2. Abs(Fuse(m, d, p).delta) <= D
        BY <3>2, <4>1 DEF Abs
      <4> QED BY <4>2 DEF D
    <3>4. CASE \E e \in Experts : m[e]
      <4>1. Fuse(m, d, p).delta = Clamp * P
        BY <1>1, <3>4, Fused
      <4>2. P <= b * A /\ (-b) * A <= P
        BY <1>1, <2>6, PulledWithin
      <4> HIDE DEF A, L, P
      <4>3. b * A \in Int /\ (-b) * A \in Int
        BY <2>2
      <4>4. Clamp * P <= Clamp * (b * A) /\ Clamp * ((-b) * A) <= Clamp * P
        BY <2>2, <3>1, <4>2, <4>3
      <4>5. Clamp * (b * A) = b * C /\ Clamp * ((-b) * A) = -(b * C) /\ b * C \in Int
        BY <2>2
      <4>6. b * C <= D
        BY <2>2, <2>5, <3>1
      <4> DEFINE u == b * C
                 v == Clamp * P
      <4>7. -D <= v /\ v <= D /\ v \in Int
        <5>1. -u <= v /\ v <= u /\ u \in Int /\ v \in Int /\ u <= D
          BY <2>2, <4>4, <4>5, <4>6
        <5> HIDE DEF u, v, D
        <5> QED BY <3>2, <5>1
      <4> HIDE DEF v, D
      <4>8. Abs(Fuse(m, d, p).delta) <= D
        BY <3>2, <4>1, <4>7 DEF Abs, v
      <4> QED BY <4>8 DEF D
    <3> QED BY <3>3, <3>4
  <2> QED BY <2>5, <2>6 DEF FusedWithin
<1> QED BY <1>2

=============================================================================
