---------------------------- MODULE ServiceProofs ----------------------------
(***************************************************************************)
(* Theorems about the parts of the program that read the databases and     *)
(* work on their own: the rates (CurrencyRates), the list of blocks        *)
(* (BlockList), the answer about a transaction (TxInfo) and the sums of an *)
(* address (AddressTotals), for any transactions, outputs, blocks and      *)
(* seconds, and any order of the lookups and of what is stored between     *)
(* them. Each has an inductive invariant of its own; they share the lemmas *)
(* on sums and on the least and the greatest number of a set.              *)
(***************************************************************************)
EXTENDS CurrencyRates, BlockList, TxInfo, AddressTotals,
        FiniteSetTheorems, WellFoundedInduction, TLAPS

-----------------------------------------------------------------------------
(* Induction and sums *)

\* A set of numbers that has 0, and the successors of its members, has all.
LEMMA EveryNumber ==
    ASSUME NEW Q \in SUBSET Nat, 0 \in Q, \A n \in Q : n + 1 \in Q
    PROVE  Q = Nat
<1>. DEFINE R == OpToRel(<, Nat)
            D == Nat \ Q
<1>1. \A x, y \in Nat : <<y, x>> \in R <=> y < x
  BY DEF OpToRel
<1>2. IsWellFoundedOn(R, Nat)
  BY NatLessThanWellFounded
<1>. HIDE DEF R
<1>. SUFFICES ASSUME D # {} PROVE FALSE
  OBVIOUS
<1>3. PICK d \in D : \A e \in D : ~(<<e, d>> \in R)
  <2>1. D \subseteq Nat
    OBVIOUS
  <2>. HIDE DEF D
  <2>. QED BY <1>2, <2>1, WFMin
<1>4. d \in Nat \ {0} /\ d - 1 \in Nat
  OBVIOUS
<1>5. d - 1 \in Q
  <2>1. d - 1 < d /\ <<d - 1, d>> \in R
    BY <1>1, <1>4
  <2>2. d - 1 \notin D
    BY <1>3, <2>1
  <2>. QED BY <1>4, <2>2
<1>. QED BY <1>4, <1>5

\* A set of subsets of S has S, when it has each set that it has all but one element of.
LEMMA EverySubset ==
    ASSUME NEW S, IsFiniteSet(S), NEW Q,
           \A T \in SUBSET S : (\A x \in T : T \ {x} \in Q) => T \in Q
    PROVE  S \in Q
<1>. DEFINE N == {n \in Nat : \A T \in SUBSET S : Cardinality(T) = n => T \in Q}
<1>1. 0 \in N
  BY FS_EmptySet, FS_Subset
<1>2. ASSUME NEW n \in N PROVE n + 1 \in N
  <2>. SUFFICES ASSUME NEW T \in SUBSET S, Cardinality(T) = n + 1 PROVE T \in Q
    OBVIOUS
  <2>1. IsFiniteSet(T)
    BY FS_Subset
  <2>2. ASSUME NEW x \in T PROVE T \ {x} \in Q
    <3>1. n \in Nat /\ \A U \in SUBSET S : Cardinality(U) = n => U \in Q
      BY <1>2
    <3>. HIDE DEF N
    <3>2. Cardinality(T \ {x}) = Cardinality(T) - 1
      BY <2>1, FS_RemoveElement
    <3>3. Cardinality(T \ {x}) = n
      BY <3>1, <3>2
    <3>. QED BY <3>1, <3>3
  <2>. QED BY <2>2
<1>3. N = Nat
  <2>. HIDE DEF N
  <2>1. N \in SUBSET Nat
    BY DEF N
  <2>. QED BY <1>1, <1>2, <2>1, EveryNumber
<1>. QED BY <1>3, FS_CardinalityType

\* The equation of a fold with +.
OneOf(s) == CHOOSE x \in s : TRUE
PartSum(f, g, s) == IF s = {} THEN 0 ELSE f[OneOf(s)] + g[s \ {OneOf(s)}]
Sums(f, S, g) == g = [s \in SUBSET S |-> PartSum(f, g, s)]

LEMMA SumExists ==
    ASSUME NEW f, NEW S, IsFiniteSet(S)
    PROVE  \E g : Sums(f, S, g)
<1>. DEFINE Upto(g, n) ==
              /\ g = [s \in SUBSET S |-> g[s]]
              /\ \A s \in SUBSET S : Cardinality(s) <= n => g[s] = PartSum(f, g, s)
            N == {n \in Nat : \E g : Upto(g, n)}
<1>0. \A s \in SUBSET S :
         /\ Cardinality(s) \in Nat
         /\ Cardinality(s) = 0 <=> s = {}
         /\ s # {} => OneOf(s) \in s /\ Cardinality(s \ {OneOf(s)}) = Cardinality(s) - 1
  BY FS_Subset, FS_EmptySet, FS_RemoveElement, FS_CardinalityType DEF OneOf
<1>1. 0 \in N
  <2>. DEFINE g == [s \in SUBSET S |-> 0]
  <2>1. Upto(g, 0)
    <3>1. ASSUME NEW s \in SUBSET S, Cardinality(s) <= 0 PROVE s = {}
      <4>1. Cardinality(s) \in Nat /\ (Cardinality(s) = 0 => s = {})
        BY <1>0
      <4>. QED BY <3>1, <4>1
    <3>. QED BY <3>1 DEF PartSum
  <2>. QED BY <2>1
<1>2. ASSUME NEW n \in N PROVE n + 1 \in N
  <2>1. PICK g : Upto(g, n)
    OBVIOUS
  <2>. DEFINE h == [s \in SUBSET S |-> IF Cardinality(s) <= n THEN g[s] ELSE PartSum(f, g, s)]
  <2>2. ASSUME NEW s \in SUBSET S, Cardinality(s) <= n + 1
        PROVE  h[s] = PartSum(f, g, s) /\ PartSum(f, g, s) = PartSum(f, h, s)
    <3>1. h[s] = PartSum(f, g, s)
      BY <2>1
    <3>2. s # {} => h[s \ {OneOf(s)}] = g[s \ {OneOf(s)}]
      BY <1>0, <2>2
    <3>. QED BY <3>1, <3>2 DEF PartSum
  <2>3. Upto(h, n + 1)
    BY <2>2
  <2>. HIDE DEF Upto
  <2>. QED BY <2>3
<1>3. N = Nat
  <2>1. N \in SUBSET Nat
    OBVIOUS
  <2>. HIDE DEF N
  <2>. QED BY <1>1, <1>2, <2>1, EveryNumber
<1>4. PICK g : Upto(g, Cardinality(S))
  BY <1>0, <1>3
<1>5. \A s \in SUBSET S : Cardinality(s) <= Cardinality(S)
  BY FS_Subset
<1>6. Sums(f, S, g)
  BY <1>4, <1>5 DEF Sums
<1>. QED BY <1>6

LEMMA SumAgrees ==
    ASSUME NEW f, NEW S, IsFiniteSet(S), NEW T \in SUBSET S, NEW g, NEW h,
           Sums(f, S, g), Sums(f, T, h)
    PROVE  g[T] = h[T]
<1>. DEFINE Q == {s \in SUBSET T : g[s] = h[s]}
<1>1. ASSUME NEW s \in SUBSET T, \A x \in s : s \ {x} \in Q PROVE s \in Q
  <2>1. g[s] = PartSum(f, g, s) /\ h[s] = PartSum(f, h, s)
    BY DEF Sums
  <2>2. s # {} => OneOf(s) \in s
    BY DEF OneOf
  <2>. QED BY <1>1, <2>1, <2>2 DEF PartSum
<1>2. IsFiniteSet(T)
  BY FS_Subset
<1>3. T \in Q
  <2>. HIDE DEF Q
  <2>. QED BY <1>1, <1>2, EverySubset
<1>. QED BY <1>3

LEMMA SumIs ==
    ASSUME NEW f, NEW S, IsFiniteSet(S)
    PROVE  \E g : Sums(f, S, g) /\ \A T \in SUBSET S : SumFunctionOnSet(f, T) = g[T]
<1>1. ASSUME NEW T
      PROVE  SumFunctionOnSet(f, T) = (CHOOSE g : Sums(f, T, g))[T]
  BY DEF SumFunctionOnSet, FoldFunctionOnSet, MapThenFoldSet, PartSum, OneOf, Sums
<1>2. PICK g : Sums(f, S, g)
  BY SumExists
<1>3. ASSUME NEW T \in SUBSET S PROVE SumFunctionOnSet(f, T) = g[T]
  <2>1. Sums(f, T, CHOOSE h : Sums(f, T, h))
    BY SumExists, FS_Subset
  <2>. QED BY <1>1, <1>2, <2>1, SumAgrees
<1>. QED BY <1>2, <1>3

LEMMA SumOfNone == ASSUME NEW f PROVE SumFunctionOnSet(f, {}) = 0
<1>1. PICK g : Sums(f, {}, g) /\ \A T \in SUBSET {} : SumFunctionOnSet(f, T) = g[T]
  BY SumIs, FS_EmptySet
<1>. QED BY <1>1 DEF Sums, PartSum

\* The sum over a finite set is a number, and an element more adds its value.
LEMMA SumOfMore ==
    ASSUME NEW f, NEW S, IsFiniteSet(S), \A y \in S : f[y] \in Int
    PROVE  /\ SumFunctionOnSet(f, S) \in Int
           /\ \A x \in S : SumFunctionOnSet(f, S) = f[x] + SumFunctionOnSet(f, S \ {x})
<1>1. PICK g : Sums(f, S, g) /\ \A T \in SUBSET S : SumFunctionOnSet(f, T) = g[T]
  BY SumIs
<1>. DEFINE Good(s) == /\ g[s] \in Int
                       /\ \A x \in s : g[s \ {x}] \in Int /\ g[s] = f[x] + g[s \ {x}]
            Q == {s \in SUBSET S : Good(s)}
<1>2. ASSUME NEW s \in SUBSET S, \A x \in s : s \ {x} \in Q PROVE s \in Q
  <2>1. g[s] = PartSum(f, g, s)
    BY <1>1 DEF Sums
  <2>2. CASE s = {}
    BY <2>1, <2>2 DEF PartSum
  <2>3. CASE s # {}
    <3>. DEFINE c == OneOf(s)
    <3>1. c \in s /\ g[s] = f[c] + g[s \ {c}] /\ f[c] \in Int /\ g[s \ {c}] \in Int
      BY <1>2, <2>1, <2>3 DEF PartSum, OneOf
    <3>. HIDE DEF c
    <3>2. ASSUME NEW x \in s, x # c PROVE g[s \ {x}] \in Int /\ g[s] = f[x] + g[s \ {x}]
      <4>1. g[s \ {c}] = f[x] + g[(s \ {c}) \ {x}]
        BY <1>2, <3>1, <3>2
      <4>2. g[s \ {x}] = f[c] + g[(s \ {x}) \ {c}]
        BY <1>2, <3>1, <3>2
      <4>3. (s \ {c}) \ {x} = (s \ {x}) \ {c}
        OBVIOUS
      <4>4. f[x] \in Int /\ g[(s \ {c}) \ {x}] \in Int
        <5>1. s \ {c} \in Q /\ x \in s \ {c}
          BY <1>2, <3>1, <3>2
        <5>. QED BY <5>1
      <4>5. g[s \ {x}] \in Int
        BY <1>2
      <4>6. g[s] = f[c] + (f[x] + g[(s \ {c}) \ {x}])
        BY <3>1, <4>1
      <4>7. g[s \ {x}] = f[c] + g[(s \ {c}) \ {x}]
        BY <4>2, <4>3
      <4>. HIDE DEF Q
      <4>. QED BY <3>1, <4>4, <4>5, <4>6, <4>7
    <3>3. g[s] \in Int
      BY <3>1
    <3>4. \A x \in s : g[s \ {x}] \in Int /\ g[s] = f[x] + g[s \ {x}]
      <4>. HIDE DEF Q
      <4>. QED BY <3>1, <3>2
    <3>. QED BY <3>3, <3>4
  <2>. QED BY <2>2, <2>3
<1>3. S \in Q
  <2>. HIDE DEF Q
  <2>. QED BY <1>2, EverySubset
<1>. QED BY <1>1, <1>3

\* A set of numbers has a least one.
LEMMA LeastNumber ==
    ASSUME NEW S \in SUBSET Nat, S # {}
    PROVE  \E x \in S : \A y \in S : x <= y
<1>. DEFINE R == OpToRel(<, Nat)
<1>1. \A x, y \in Nat : <<y, x>> \in R <=> y < x
  BY DEF OpToRel
<1>2. IsWellFoundedOn(R, Nat)
  BY NatLessThanWellFounded
<1>. HIDE DEF R
<1>3. PICK x \in S : \A y \in S : ~(<<y, x>> \in R)
  BY <1>2, WFMin
<1>4. ASSUME NEW y \in S PROVE x <= y
  <2>1. x \in Nat /\ y \in Nat /\ ~(y < x)
    BY <1>1, <1>3
  <2>. QED BY <2>1
<1>. QED BY <1>4

\* A set of numbers up to t has a greatest one.
LEMMA GreatestSecond ==
    ASSUME NEW t \in Nat, NEW S \in SUBSET (1..t), S # {}
    PROVE  \E x \in S : \A y \in S : x >= y
<1>. DEFINE D == {t - x : x \in S}
<1>1. D \in SUBSET Nat /\ D # {}
  <2>1. ASSUME NEW x \in S PROVE t - x \in Nat
    <3>1. x \in 1..t
      OBVIOUS
    <3>. QED BY <3>1
  <2>. QED BY <2>1
<1>2. PICK d \in D : \A e \in D : d <= e
  <2>. HIDE DEF D
  <2>. QED BY <1>1, LeastNumber
<1>3. PICK x \in S : d = t - x
  BY <1>2
<1>4. ASSUME NEW y \in S PROVE x >= y
  <2>1. t - y \in D /\ t - x <= t - y
    BY <1>2, <1>3
  <2>2. x \in 1..t /\ y \in 1..t
    OBVIOUS
  <2>. QED BY <2>1, <2>2
<1>. QED BY <1>4

-----------------------------------------------------------------------------
(* The last rate up to a second *)

LEMMA LastKey ==
    ASSUME NEW t \in Nat, KeysUpTo(t) # {}
    PROVE  LET k == Max(KeysUpTo(t))
           IN  /\ k \in 1..t /\ rates[k] # NoRate /\ OneRate(t) = rates[k]
               /\ \A y \in KeysUpTo(t) : k >= y
<1>1. KeysUpTo(t) \in SUBSET (1..t)
  BY DEF KeysUpTo
<1>2. \E x \in KeysUpTo(t) : \A y \in KeysUpTo(t) : x >= y
  BY <1>1, GreatestSecond
<1>3. Max(KeysUpTo(t)) \in KeysUpTo(t) /\ \A y \in KeysUpTo(t) : Max(KeysUpTo(t)) >= y
  BY <1>2 DEF Max
<1>4. OneRate(t) = rates[Max(KeysUpTo(t))]
  BY DEF OneRate
<1>. QED BY <1>3, <1>4 DEF KeysUpTo

-----------------------------------------------------------------------------
(* The rates: the inductive invariant *)

RateTypes ==
    /\ second \in Second
    /\ rates \in [Second -> 0..MaxSecond]
    /\ fetch \in [Fetches -> Fetch]
    /\ crossed \in BOOLEAN

\* No rate is from the future of its second, or a key from that of the clock.
RatesOK ==
    \A k \in Second : rates[k] # NoRate => rates[k] <= k /\ k <= second

\* While no two fetches have crossed, one runs at a time; it began when all rates
\* had been stored, and its quote is from a moment between then and its key.
OneByOne ==
    /\ \A f, g \in Fetches : fetch[f].at # "idle" /\ fetch[g].at # "idle" => f = g
    /\ \A j, k \in Second : rates[j] # NoRate /\ rates[k] # NoRate /\ j <= k => rates[j] <= rates[k]
    /\ \A f \in Fetches : fetch[f].at # "idle" =>
          \A k \in Second : rates[k] # NoRate => k <= fetch[f].began
    /\ \A f \in Fetches : fetch[f].at = "store" => fetch[f].began <= fetch[f].quote

FetchesOK ==
    \A f \in Fetches :
        LET x == fetch[f]
        IN  /\ x.at # "idle" => 1 <= x.began /\ x.began <= second
            /\ x.at = "store" => 1 <= x.quote /\ x.quote <= x.ts /\ x.ts <= second

RateInv == RateTypes /\ RatesOK /\ FetchesOK /\ (~crossed => OneByOne)

LEMMA IdleIsFetch == Idle \in Fetch /\ Idle.at = "idle"
  BY RateConstants DEF Idle, Fetch, NoRate

LEMMA RateInitInv == RateInit => RateInv
<1>. SUFFICES ASSUME RateInit PROVE RateInv
  OBVIOUS
<1>1. RateTypes
  <2>1. second \in Second /\ NoRate \in 0..MaxSecond
    BY RateConstants DEF RateInit, Second, NoRate
  <2>. QED BY <2>1, IdleIsFetch DEF RateInit, RateTypes
<1>2. RatesOK /\ FetchesOK /\ OneByOne
  BY IdleIsFetch DEF RateInit, RatesOK, FetchesOK, OneByOne
<1>. QED BY <1>1, <1>2 DEF RateInv

\* A step of fetch f that leaves the database and the clock alone.
LEMMA FetchMoves ==
    ASSUME RateInv, NEW f \in Fetches, NEW x \in Fetch,
           fetch' = [fetch EXCEPT ![f] = x],
           UNCHANGED <<second, rates>>, crossed' \in BOOLEAN,
           x.at # "idle" => 1 <= x.began /\ x.began <= second,
           x.at = "store" => 1 <= x.quote /\ x.quote <= x.ts /\ x.ts <= second,
           ~crossed' =>
              /\ ~crossed
              /\ x.at # "idle" => /\ \A g \in Fetches \ {f} : fetch[g].at = "idle"
                                  /\ \A k \in Second : rates[k] # NoRate => k <= x.began
              /\ x.at = "store" => x.began <= x.quote
    PROVE  RateInv'
<1>1. fetch'[f] = x /\ \A g \in Fetches \ {f} : fetch'[g] = fetch[g]
  BY DEF RateInv, RateTypes
<1>2. RateTypes' /\ RatesOK'
  BY DEF RateInv, RateTypes, RatesOK
<1>3. FetchesOK'
  <2>1. ASSUME NEW g \in Fetches
        PROVE  /\ fetch'[g].at # "idle" => 1 <= fetch'[g].began /\ fetch'[g].began <= second
               /\ fetch'[g].at = "store" => /\ 1 <= fetch'[g].quote
                                            /\ fetch'[g].quote <= fetch'[g].ts
                                            /\ fetch'[g].ts <= second
    BY <1>1 DEF RateInv, FetchesOK
  <2>. QED BY <2>1 DEF FetchesOK
<1>4. ASSUME ~crossed' PROVE OneByOne'
  <2>1. OneByOne
    BY <1>4 DEF RateInv
  <2>2. \A g, h \in Fetches : fetch'[g].at # "idle" /\ fetch'[h].at # "idle" => g = h
    BY <1>1, <1>4, <2>1 DEF OneByOne
  <2>3. \A g \in Fetches : fetch'[g].at # "idle" =>
           \A k \in Second : rates[k] # NoRate => k <= fetch'[g].began
    BY <1>1, <1>4, <2>1 DEF OneByOne
  <2>4. \A g \in Fetches : fetch'[g].at = "store" => fetch'[g].began <= fetch'[g].quote
    BY <1>1, <1>4, <2>1 DEF OneByOne
  <2>. QED BY <2>1, <2>2, <2>3, <2>4 DEF OneByOne
<1>. QED BY <1>2, <1>3, <1>4 DEF RateInv

LEMMA BeginInv ==
    ASSUME RateInv, NEW f \in Fetches, BeginFetch(f)
    PROVE  RateInv'
<1>. DEFINE x == [at |-> "retrieve", began |-> second, quote |-> NoRate, ts |-> 0]
<1>1. x \in Fetch /\ x.at = "retrieve" /\ x.began = second /\ 1 <= second
  <2>1. second \in 1..MaxSecond
    BY DEF RateInv, RateTypes, Second
  <2>2. second \in 0..MaxSecond /\ 0 \in 0..MaxSecond /\ 1 <= second
    BY <2>1, RateConstants
  <2>. QED BY <2>2 DEF Fetch, NoRate
<1>2. fetch' = [fetch EXCEPT ![f] = x] /\ UNCHANGED <<second, rates>>
  BY DEF BeginFetch
<1>3. crossed' \in BOOLEAN /\ (~crossed' => ~crossed /\ \A g \in Fetches : fetch[g].at = "idle")
  BY DEF BeginFetch, RateInv, RateTypes
<1>4. \A k \in Second : rates[k] # NoRate => k <= second
  BY DEF RateInv, RatesOK
<1>. HIDE DEF x
<1>5. second <= second
  BY DEF RateInv, RateTypes, Second
<1>. QED BY <1>1, <1>2, <1>3, <1>4, <1>5, FetchMoves

LEMMA RetrieveInv ==
    ASSUME RateInv, NEW f \in Fetches, Retrieve(f)
    PROVE  RateInv'
<1>1. /\ fetch[f] \in Fetch /\ fetch[f].at = "retrieve"
      /\ UNCHANGED <<second, rates, crossed>> /\ crossed \in BOOLEAN
  BY DEF Retrieve, RateInv, RateTypes
<1>2. CASE fetch' = [fetch EXCEPT ![f] = Idle]
  BY <1>1, <1>2, IdleIsFetch, FetchMoves
<1>3. ASSUME NEW quote \in fetch[f].began..second,
             fetch' = [fetch EXCEPT ![f].at = "store", ![f].quote = quote, ![f].ts = second]
      PROVE  RateInv'
  <2>. DEFINE x == [fetch[f] EXCEPT !.at = "store", !.quote = quote, !.ts = second]
  <2>1. second \in 1..MaxSecond /\ fetch[f].began \in 1..second
    BY <1>1 DEF RateInv, RateTypes, Second, FetchesOK, Fetch
  <2>2. /\ quote \in 1..second /\ quote \in 0..MaxSecond /\ second \in 0..MaxSecond
        /\ fetch[f].began <= quote
    BY <2>1, RateConstants
  <2>3. x \in Fetch /\ x.at = "store" /\ x.began = fetch[f].began /\ x.quote = quote /\ x.ts = second
    BY <1>1, <2>2 DEF Fetch
  <2>4. fetch' = [fetch EXCEPT ![f] = x]
    BY <1>1, <1>3 DEF RateInv, RateTypes, Fetch
  <2>5. ~crossed => /\ \A g \in Fetches \ {f} : fetch[g].at = "idle"
                    /\ \A k \in Second : rates[k] # NoRate => k <= fetch[f].began
    BY <1>1 DEF RateInv, OneByOne
  <2>. HIDE DEF x
  <2>6. /\ 1 <= x.began /\ x.began <= second /\ 1 <= x.quote /\ x.quote <= x.ts
        /\ x.ts <= second /\ x.began <= x.quote
    BY <2>1, <2>2, <2>3
  <2>. QED BY <1>1, <2>3, <2>4, <2>5, <2>6, FetchMoves
<1>. QED BY <1>2, <1>3 DEF Retrieve

\* The new rate is the last one, and no quote before it was later.
LEMMA StoreInv ==
    ASSUME RateInv, NEW f \in Fetches, StoreRates(f)
    PROVE  RateInv'
<1>. DEFINE x == fetch[f]
<1>1. /\ x \in Fetch /\ x.at = "store" /\ UNCHANGED <<second, crossed>>
      /\ rates' = [rates EXCEPT ![x.ts] = x.quote]
      /\ fetch' = [fetch EXCEPT ![f] = Idle]
  BY DEF StoreRates, RateInv, RateTypes
<1>2. /\ x.ts \in Second /\ x.ts <= second /\ x.quote <= x.ts /\ x.quote \in 0..MaxSecond
      /\ x.quote # NoRate
  BY <1>1 DEF RateInv, RateTypes, FetchesOK, Fetch, Second, NoRate
<1>. HIDE DEF x
<1>3. \A k \in Second : rates'[k] = IF k = x.ts THEN x.quote ELSE rates[k]
  BY <1>1 DEF RateInv, RateTypes
<1>4. fetch'[f] = Idle /\ \A g \in Fetches \ {f} : fetch'[g] = fetch[g]
  BY <1>1 DEF RateInv, RateTypes
<1>5. RateTypes'
  BY <1>1, <1>2, IdleIsFetch DEF RateInv, RateTypes
<1>6. RatesOK'
  BY <1>1, <1>2, <1>3 DEF RateInv, RatesOK
<1>7. FetchesOK'
  <2>1. ASSUME NEW g \in Fetches, fetch'[g].at # "idle" PROVE fetch'[g] = fetch[g]
    BY <1>4, <2>1, IdleIsFetch
  <2>. QED BY <1>1, <2>1 DEF RateInv, FetchesOK
<1>8. ASSUME ~crossed PROVE OneByOne'
  <2>1. OneByOne
    BY <1>8 DEF RateInv
  <2>2. \A g \in Fetches : fetch'[g].at = "idle"
    BY <1>1, <1>4, <2>1, IdleIsFetch DEF OneByOne, x
  <2>3. \A k \in Second : rates[k] # NoRate => k <= x.ts /\ rates[k] <= x.quote
    <3>1. x.began \in Int /\ x.began <= x.quote
      BY <1>1, <2>1 DEF OneByOne, Fetch, x
    <3>2. ASSUME NEW k \in Second, rates[k] # NoRate
          PROVE  k <= x.began /\ rates[k] <= k /\ rates[k] \in Int /\ k \in Int
      BY <1>1, <2>1, <3>2 DEF OneByOne, x, RateInv, RatesOK, RateTypes, Second
    <3>3. x.quote \in Int /\ x.ts \in Int
      BY <1>2 DEF Second
    <3>. QED BY <1>2, <3>1, <3>2, <3>3
  <2>4. ASSUME NEW j \in Second, NEW k \in Second,
               rates'[j] # NoRate, rates'[k] # NoRate, j <= k
        PROVE  rates'[j] <= rates'[k]
    <3>1. CASE j = x.ts /\ k # x.ts
      BY <1>2, <1>3, <2>3, <2>4, <3>1 DEF Second
    <3>2. CASE j # x.ts /\ k = x.ts
      BY <1>3, <2>3, <2>4, <3>2
    <3>3. CASE j = x.ts /\ k = x.ts
      BY <1>2, <1>3, <3>3
    <3>4. CASE j # x.ts /\ k # x.ts
      BY <1>3, <2>1, <2>4, <3>4 DEF OneByOne
    <3>. QED BY <3>1, <3>2, <3>3, <3>4
  <2>. QED BY <2>2, <2>4 DEF OneByOne
<1>. QED BY <1>1, <1>5, <1>6, <1>7, <1>8 DEF RateInv

LEMMA RateNextInv == RateInv /\ [RateNext]_rateVars => RateInv'
<1>. SUFFICES ASSUME RateInv, [RateNext]_rateVars PROVE RateInv'
  OBVIOUS
<1>1. CASE SecondPasses
  <2>1. second' \in Second /\ second' = second + 1 /\ UNCHANGED <<rates, fetch, crossed>>
    BY <1>1, RateConstants DEF SecondPasses, RateInv, RateTypes, Second
  <2>2. RateTypes'
    BY <2>1 DEF RateInv, RateTypes
  <2>3. RatesOK'
    BY <2>1 DEF RateInv, RateTypes, RatesOK, Second
  <2>4. FetchesOK'
    BY <2>1 DEF RateInv, RateTypes, FetchesOK, Second, Fetch
  <2>. QED BY <2>1, <2>2, <2>3, <2>4 DEF RateInv, OneByOne
<1>2. CASE RateRestart
  <2>1. \A f \in Fetches : fetch'[f] = Idle
    BY <1>2 DEF RateRestart
  <2>2. RateTypes'
    BY <1>2, IdleIsFetch DEF RateRestart, RateInv, RateTypes
  <2>. QED BY <1>2, <2>1, <2>2, IdleIsFetch
           DEF RateRestart, RateInv, RatesOK, FetchesOK, OneByOne
<1>3. CASE UNCHANGED rateVars
  BY <1>3 DEF rateVars, RateInv, RateTypes, RatesOK, FetchesOK, OneByOne
<1>. QED BY <1>1, <1>2, <1>3, BeginInv, RetrieveInv, StoreInv DEF RateNext

THEOREM RateInvariance == RateSpec => []RateInv
  BY RateInitInv, RateNextInv, PTL DEF RateSpec

-----------------------------------------------------------------------------
(* The rates: the theorems *)

LEMMA InvOrders == RateInv => QuotesInOrder
<1>. SUFFICES ASSUME RateInv, ~crossed PROVE QuotesInOrder
  BY DEF QuotesInOrder
<1>1. OneByOne
  BY DEF RateInv
<1>2. ASSUME NEW t \in Second PROVE OneRate(t) \in Nat /\ OneRate(t) <= t
  <2>1. CASE KeysUpTo(t) = {}
    BY <2>1 DEF OneRate, NoRate, Second
  <2>2. CASE KeysUpTo(t) # {}
    <3>1. t \in Nat
      BY DEF Second
    <3>2. PICK k \in 1..t : rates[k] # NoRate /\ OneRate(t) = rates[k]
      BY <2>2, <3>1, LastKey
    <3>3. k \in Second /\ k <= t
      BY <3>2, RateConstants DEF Second
    <3>4. rates[k] <= k /\ rates[k] \in Nat
      BY <3>2, <3>3 DEF RateInv, RatesOK, RateTypes
    <3>. QED BY <3>2, <3>3, <3>4 DEF Second
  <2>. QED BY <2>1, <2>2
<1>3. ASSUME NEW t \in Second, NEW u \in Second, t <= u PROVE OneRate(t) <= OneRate(u)
  <2>1. CASE KeysUpTo(t) = {}
    BY <1>2, <2>1 DEF OneRate, NoRate
  <2>2. CASE KeysUpTo(t) # {}
    <3>1. t \in Nat /\ u \in Nat /\ KeysUpTo(t) \subseteq KeysUpTo(u)
      BY <1>3 DEF Second, KeysUpTo
    <3>2. PICK j \in 1..t : j \in KeysUpTo(t) /\ rates[j] # NoRate /\ OneRate(t) = rates[j]
      BY <2>2, <3>1, LastKey DEF KeysUpTo
    <3>3. PICK k \in 1..u : /\ rates[k] # NoRate /\ OneRate(u) = rates[k]
                            /\ \A y \in KeysUpTo(u) : k >= y
      <4>1. KeysUpTo(u) # {}
        BY <2>2, <3>1
      <4>. QED BY <3>1, <4>1, LastKey
    <3>4. j <= k /\ j \in Second /\ k \in Second
      BY <3>1, <3>2, <3>3, RateConstants DEF Second
    <3>. QED BY <1>1, <3>2, <3>3, <3>4 DEF OneByOne
  <2>. QED BY <2>1, <2>2
<1>. QED BY <1>2, <1>3 DEF QuotesInOrder

\* While no fetch begins before the one before it has ended, later seconds have
\* later quotes, whatever is slow, fails or is killed.
THEOREM OrderedQuotes == RateSpec => []QuotesInOrder
  BY InvOrders, RateInvariance, PTL

\* Only a batch writes, and only under its own second.
LEMMA SettledStep ==
    ASSUME RateInv, [RateNext]_rateVars, NEW t \in 1..(second - 1),
           \A f \in Fetches : fetch[f].at = "store" => fetch[f].ts > t
    PROVE  OneRate(t)' = OneRate(t)
<1>1. second \in Second /\ t \in Nat
  BY DEF RateInv, RateTypes, Second
<1>2. \A k \in 1..t : rates'[k] = rates[k]
  <2>1. CASE UNCHANGED rates
    BY <2>1
  <2>2. ASSUME NEW f \in Fetches, StoreRates(f)
        PROVE  \A k \in 1..t : rates'[k] = rates[k]
    <3>1. fetch[f].ts \in Int /\ fetch[f].ts > t
      BY <2>2 DEF StoreRates, RateInv, RateTypes, Fetch
    <3>2. \A k \in 1..t : k \in Second /\ k # fetch[f].ts
      BY <1>1, <3>1, RateConstants DEF Second
    <3>. QED BY <2>2, <3>2 DEF StoreRates, RateInv, RateTypes
  <2>. QED BY <2>1, <2>2
       DEF RateNext, SecondPasses, RateRestart, BeginFetch, Retrieve, rateVars
<1>3. KeysUpTo(t)' = KeysUpTo(t)
  BY <1>2 DEF KeysUpTo
<1>4. CASE KeysUpTo(t) = {}
  BY <1>3, <1>4 DEF OneRate
<1>5. CASE KeysUpTo(t) # {}
  <2>1. Max(KeysUpTo(t)) \in 1..t
    BY <1>1, <1>5, LastKey
  <2>2. rates'[Max(KeysUpTo(t))] = rates[Max(KeysUpTo(t))]
    BY <1>2, <2>1
  <2>. QED BY <1>3, <1>5, <2>2 DEF OneRate
<1>. QED BY <1>4, <1>5

\* What a request gets for a second that is over stays what it is.
THEOREM SettledPast == RateSpec => PastIsSettled
<1>. DEFINE Same == \A t \in 1..(second - 1) :
                       (\A f \in Fetches : fetch[f].at = "store" => fetch[f].ts > t)
                           => OneRate(t)' = OneRate(t)
<1>1. RateInv /\ [RateNext]_rateVars => [Same]_rateVars
  BY SettledStep
<1>. QED BY <1>1, RateInvariance, PTL DEF RateSpec, PastIsSettled

-----------------------------------------------------------------------------
(* The list of blocks *)

\* What a reader is due is still in the list, and what is behind its page was shown.
ListInv ==
    /\ byTime \in [Seconds -> Indexed \cup {Nobody}]
    /\ reader = NoReader \/ (reader \in Reader /\ reader.at = "pages" /\ reader.limit \in Limits)
    /\ \A x \in reader.due : x[1] \in Seconds /\ byTime[x[1]] = x[2] /\ x = <<x[1], x[2]>> /\ x[2] # Nobody
    /\ PagesCover

\* The seconds of a page are the last n of those up to lte.
LEMMA PageIsLast ==
    ASSUME NEW lte \in 0..LastSecond, NEW n \in Nat \ {0}
    PROVE  LET page == BlocksByDate(lte, n)
           IN  /\ page \subseteq Keys(lte) /\ Keys(lte) \subseteq 1..lte
               /\ IsFiniteSet(page) /\ Cardinality(page) \in Nat
               /\ page = {} => Keys(lte) = {}
               /\ Cardinality(page) # n => page = Keys(lte)
               /\ page # {} => /\ Min(page) \in page /\ \A k \in page : Min(page) <= k
                               /\ \A k \in Keys(lte) : k > Min(page) => k \in page
<1>. DEFINE K == Keys(lte)
            page == BlocksByDate(lte, n)
            After(k) == {u \in K : u > k}
<1>1. lte \in Nat /\ K \subseteq 1..lte /\ page \subseteq K /\ K \subseteq Nat
  BY ListConstants DEF Keys, BlocksByDate
<1>2. IsFiniteSet(K)
  BY <1>1, FS_Interval, FS_Subset
<1>3. /\ IsFiniteSet(page) /\ Cardinality(page) \in Nat
      /\ \A k \in K : IsFiniteSet(After(k)) /\ Cardinality(After(k)) \in Nat
  BY <1>1, <1>2, FS_Subset, FS_CardinalityType
<1>4. \A k \in K : k \in page <=> Cardinality(After(k)) < n
  BY DEF BlocksByDate
<1>. HIDE DEF K, page
<1>5. ASSUME page # {}
      PROVE  /\ Min(page) \in page /\ \A k \in page : Min(page) <= k
             /\ \A k \in K : k > Min(page) => k \in page
  <2>1. \E x \in page : \A y \in page : x <= y
    BY <1>1, <1>5, LeastNumber
  <2>2. Min(page) \in page /\ \A k \in page : Min(page) <= k
    BY <2>1 DEF Min
  <2>3. ASSUME NEW k \in K, k > Min(page) PROVE k \in page
    <3>1. After(k) \subseteq After(Min(page)) /\ Min(page) \in K
      <4>1. Min(page) \in Nat /\ Min(page) \in K /\ k \in Nat
        BY <1>1, <2>2
      <4>2. ASSUME NEW u \in After(k) PROVE u > Min(page)
        BY <1>1, <2>3, <4>1
      <4>. QED BY <4>1, <4>2
    <3>2. Cardinality(After(k)) <= Cardinality(After(Min(page)))
      BY <1>3, <3>1, FS_Subset
    <3>. QED BY <1>3, <1>4, <2>2, <3>1, <3>2
  <2>. QED BY <2>2, <2>3
<1>6. ASSUME page # K PROVE Cardinality(page) = n
  <2>1. PICK k \in K \ page : \A j \in K \ page : k >= j
    <3>1. K \ page \in SUBSET (1..lte) /\ K \ page # {}
      BY <1>1, <1>6
    <3>. QED BY <1>1, <3>1, GreatestSecond
  <2>2. After(k) \subseteq page /\ Cardinality(After(k)) >= n
    <3>1. ASSUME NEW u \in After(k) PROVE u \in page
      BY <1>1, <2>1
    <3>. QED BY <1>3, <1>4, <2>1, <3>1
  <2>3. Cardinality(page) >= n /\ page # {}
    <3>1. Cardinality(After(k)) <= Cardinality(page)
      BY <1>3, <2>2, FS_Subset
    <3>. QED BY <1>3, <2>2, <3>1, FS_EmptySet
  <2>4. page \ {Min(page)} \subseteq After(Min(page))
    <3>1. ASSUME NEW u \in page, u # Min(page) PROVE u \in K /\ u > Min(page)
      <4>1. u \in Nat /\ Min(page) \in Nat /\ Min(page) <= u
        BY <1>1, <1>5, <2>3
      <4>. QED BY <1>1, <3>1, <4>1
    <3>. QED BY <3>1
  <2>5. Cardinality(page) - 1 <= Cardinality(After(Min(page)))
    <3>1. Cardinality(page \ {Min(page)}) = Cardinality(page) - 1
      BY <1>3, <1>5, <2>3, FS_RemoveElement
    <3>2. Cardinality(page \ {Min(page)}) <= Cardinality(After(Min(page)))
      BY <1>1, <1>3, <1>5, <2>3, <2>4, FS_Subset
    <3>. QED BY <3>1, <3>2
  <2>6. Cardinality(After(Min(page))) < n
    BY <1>1, <1>4, <1>5, <2>3
  <2>7. Cardinality(After(Min(page))) \in Nat /\ Cardinality(page) \in Nat /\ n \in Nat
    BY <1>1, <1>3, <1>5, <2>3
  <2>. HIDE DEF After
  <2>. QED BY <2>3, <2>5, <2>6, <2>7
<1>7. page = {} => K = {}
  BY <1>6, FS_EmptySet
<1>. QED BY <1>1, <1>3, <1>5, <1>6, <1>7 DEF K, page

LEMMA PageInv == ASSUME ListInv, Page PROVE ListInv'
<1>. DEFINE lte == reader.lte
            n == reader.limit + 1
            page == BlocksByDate(lte, n)
            low == IF page = {} THEN lte ELSE Min(page)
            shown == reader.shown \cup {<<ts, byTime[ts]>> : ts \in page}
            more == Cardinality(page) = n
<1>1. reader \in Reader /\ reader.at = "pages" /\ reader.limit \in Limits /\ reader.more = TRUE
  BY DEF Page, ListInv, NoReader, Reader
<1>2. lte \in 0..LastSecond /\ n \in Nat \ {0} /\ n >= 2 /\ LastSecond \in Nat
  <2>1. reader.limit \in Nat \ {0}
    BY <1>1, ListConstants
  <2>. QED BY <1>1, <2>1, ListConstants DEF Reader
<1>3. /\ byTime' = byTime
      /\ reader' = [reader EXCEPT !.shown = shown, !.more = more, !.lte = low]
  BY DEF Page
<1>4. /\ page \subseteq Keys(lte) /\ Keys(lte) \subseteq 1..lte
      /\ page = {} => Keys(lte) = {}
      /\ ~more => page = Keys(lte)
      /\ page # {} => /\ Min(page) \in page
                      /\ \A k \in Keys(lte) : k > Min(page) => k \in page
  BY <1>2, PageIsLast
<1>5. low \in 0..LastSecond
  BY <1>2, <1>4
<1>6. shown \subseteq Entries
  <2>1. ASSUME NEW ts \in page PROVE <<ts, byTime[ts]>> \in Entries
    <3>1. ts \in Keys(lte) /\ ts \in 1..lte
      BY <1>4
    <3>2. ts \in Seconds /\ byTime[ts] # Nobody
      BY <1>2, <3>1 DEF Seconds, Keys
    <3>. QED BY <3>2 DEF ListInv, Entries
  <2>. QED BY <1>1, <2>1 DEF Reader
<1>7. /\ reader' \in Reader /\ reader'.at = "pages" /\ reader'.limit \in Limits
      /\ reader'.due = reader.due /\ reader'.shown = shown /\ reader'.more = more /\ reader'.lte = low
  <2>. HIDE DEF low, shown, more
  <2>1. more \in BOOLEAN
    BY DEF more
  <2>. QED BY <1>1, <1>3, <1>5, <1>6, <2>1 DEF Reader
<1>8. ASSUME NEW x \in reader.due, x[1] > low \/ ~more PROVE x \in shown
  <2>1. x[1] \in Seconds /\ byTime[x[1]] = x[2] /\ x = <<x[1], x[2]>> /\ x[2] # Nobody
    BY DEF ListInv
  <2>2. CASE x[1] > lte
    BY <2>2 DEF ListInv, PagesCover
  <2>3. CASE ~(x[1] > lte)
    <3>1. x[1] \in Keys(lte)
      BY <1>2, <2>1, <2>3 DEF Keys, Seconds
    <3>2. x[1] \in page
      BY <1>4, <1>8, <3>1
    <3>. QED BY <2>1, <3>2
  <2>. QED BY <2>2, <2>3
<1>. HIDE DEF low, shown, more
<1>9. PagesCover'
  BY <1>7, <1>8 DEF PagesCover
<1>. QED BY <1>3, <1>7, <1>9 DEF ListInv

LEMMA IndexInv == ASSUME ListInv, NEW b \in Indexed, NEW ts \in Seconds, IndexBlock(b, ts) PROVE ListInv'
<1>. DEFINE due == {x \in reader.due : x[1] # ts \/ x[2] = b}
<1>1. byTime' = [byTime EXCEPT ![ts] = b] /\ reader' = [reader EXCEPT !.due = due]
  BY DEF IndexBlock
<1>2. byTime' \in [Seconds -> Indexed \cup {Nobody}]
  BY <1>1 DEF ListInv
<1>3. \A x \in due : x[1] \in Seconds /\ byTime'[x[1]] = x[2] /\ x = <<x[1], x[2]>> /\ x[2] # Nobody
  BY <1>1, ListConstants DEF ListInv
<1>4. CASE reader = NoReader
  <2>1. due = {}
    BY <1>4 DEF NoReader
  <2>2. reader' = NoReader
    BY <1>1, <1>4, <2>1 DEF NoReader
  <2>. QED BY <1>2, <2>2 DEF ListInv, NoReader, PagesCover
<1>5. CASE reader \in Reader /\ reader.at = "pages" /\ reader.limit \in Limits
  <2>1. /\ reader' \in Reader /\ reader'.at = "pages" /\ reader'.limit \in Limits /\ reader'.due = due
        /\ reader'.lte = reader.lte /\ reader'.more = reader.more /\ reader'.shown = reader.shown
    BY <1>1, <1>5 DEF Reader
  <2>2. PagesCover'
    BY <2>1 DEF ListInv, PagesCover
  <2>. QED BY <1>2, <1>3, <2>1, <2>2 DEF ListInv
<1>. QED BY <1>4, <1>5 DEF ListInv

LEMMA BeginListInv ==
    ASSUME ListInv, NEW limit \in Limits, NEW lte \in Seconds, BeginList(limit, lte)
    PROVE  ListInv'
<1>. DEFINE due == {<<ts, byTime[ts]>> : ts \in Keys(lte)}
<1>1. /\ byTime' = byTime
      /\ reader' = [at |-> "pages", limit |-> limit, lte |-> lte, more |-> TRUE, shown |-> {},
                    due |-> due]
  BY DEF BeginList, NoReader
<1>2. lte \in 0..LastSecond /\ LastSecond \in Nat
  BY ListConstants DEF Seconds
<1>3. \A ts \in Keys(lte) : ts \in Seconds /\ ts <= lte /\ byTime[ts] \in Indexed
  BY <1>2, ListConstants DEF ListInv, Keys, Seconds
<1>4. \A x \in due : /\ x[1] \in Seconds /\ byTime[x[1]] = x[2] /\ x = <<x[1], x[2]>> /\ x[2] # Nobody
                     /\ x[1] <= lte /\ x \in Entries
  BY <1>3, ListConstants DEF Entries
<1>. HIDE DEF due
<1>5. reader' \in Reader /\ reader'.at = "pages" /\ reader'.limit \in Limits
  BY <1>1, <1>2, <1>4 DEF Reader
<1>6. PagesCover'
  BY <1>1, <1>2, <1>4 DEF PagesCover, Seconds
<1>. QED BY <1>1, <1>4, <1>5, <1>6 DEF ListInv

THEOREM ListInvariance == ListSpec => []ListInv
<1>1. ListInit => ListInv
  BY DEF ListInit, ListInv, NoReader, PagesCover
<1>2. ListInv /\ [ListNext]_listVars => ListInv'
  <2>1. ListInv /\ EndList => ListInv'
    BY DEF EndList, ListInv, NoReader, PagesCover
  <2>2. ListInv /\ UNCHANGED listVars => ListInv'
    BY DEF listVars, ListInv, NoReader, PagesCover
  <2>. QED BY <2>1, <2>2, PageInv, IndexInv, BeginListInv DEF ListNext
<1>. QED BY <1>1, <1>2, PTL DEF ListSpec

\* The pages of the list leave no gap, for any limit, while blocks are indexed
\* between them, also under the second of another.
THEOREM NoGap == ListSpec => []PagesCover
<1>1. ListInv => PagesCover
  BY DEF ListInv
<1>. QED BY <1>1, ListInvariance, PTL

\* A page that says there is more goes back in time.
THEOREM PagesGoBack == ListSpec => PagesAdvance
<1>1. ListInv /\ [ListNext]_listVars => [Page /\ reader'.more => reader'.lte < reader.lte]_listVars
  <2>. SUFFICES ASSUME ListInv, Page, reader'.more PROVE reader'.lte < reader.lte
    OBVIOUS
  <2>. DEFINE lte == reader.lte
              n == reader.limit + 1
              page == BlocksByDate(lte, n)
  <2>1. reader \in Reader /\ reader.limit \in Limits
    BY DEF Page, ListInv, NoReader
  <2>2. lte \in 0..LastSecond /\ n \in Nat \ {0} /\ n >= 2 /\ LastSecond \in Nat
    <3>1. reader.limit \in Nat \ {0}
      BY <2>1, ListConstants
    <3>. QED BY <2>1, <3>1, ListConstants DEF Reader
  <2>3. Cardinality(page) = n /\ reader'.lte = IF page = {} THEN lte ELSE Min(page)
    BY <2>1 DEF Page, Reader
  <2>4. /\ page \subseteq 1..lte /\ IsFiniteSet(page)
        /\ page # {} => Min(page) \in page /\ \A k \in page : Min(page) <= k
    BY <2>2, PageIsLast
  <2>5. page # {} /\ page # {Min(page)}
    BY <2>2, <2>3, <2>4, FS_EmptySet, FS_Singleton
  <2>6. PICK k \in page : k # Min(page)
    BY <2>4, <2>5
  <2>. QED BY <2>2, <2>3, <2>4, <2>5, <2>6
<1>. QED BY <1>1, ListInvariance, PTL DEF ListSpec, PagesAdvance

-----------------------------------------------------------------------------
(* The inputs of a transaction *)

\* What the answer says of an input, when both lookups are done.
InputOK(t, o, i) ==
    /\ i.rival # NoTx => i.rival # t /\ i.rival \in Attempts(o)
    /\ i.lost => t \notin asked.before
    /\ (i.sat > 0 /\ \E u \in asked.before : o \in Ins[u] /\ u < t) => i.rival # NoTx

\* A value that was found is the output's, and it was found if it was stored
\* before the request came.
SatOK(o, i) ==
    /\ i.sat \in {0, Sat[o]}
    /\ o[1] \in asked.before => i.sat = Sat[o]

DoneInputs == {o \in Ins[asked.tx] : asked.vin[o].at = "done"}

Asked(t) == [at : {"inputs"}, tx : {t}, vin : [Ins[t] -> Input], incomplete : BOOLEAN,
             valueIn : Int, before : SUBSET kept]

RequestOK ==
    /\ asked.tx \in Txid
    /\ asked \in Asked(asked.tx)
    /\ \A o \in Ins[asked.tx] :
          /\ asked.vin[o].at # "out" => SatOK(o, asked.vin[o])
          /\ asked.vin[o].at # "done" => asked.vin[o].rival = NoTx /\ ~asked.vin[o].lost
    /\ \A o \in DoneInputs : InputOK(asked.tx, o, asked.vin[o])
    /\ asked.incomplete => \E o \in DoneInputs : asked.vin[o].sat = 0
    /\ ~asked.incomplete => /\ asked.valueIn = SumFunctionOnSet(Sat, DoneInputs)
                            /\ \A o \in DoneInputs : asked.vin[o].sat = Sat[o]

TxInv ==
    /\ kept \subseteq Txid
    /\ asked = NoRequest \/ RequestOK

\* The first of the attempts on an output.
LEMMA FirstAttempt ==
    ASSUME TxInv, NEW o, Attempts(o) # {}
    PROVE  /\ SpentTxId(o) \in Attempts(o) /\ SpentTxId(o) # NoTx
           /\ \A t \in Attempts(o) : SpentTxId(o) <= t
<1>1. Attempts(o) \in SUBSET Nat /\ Attempts(o) \subseteq Txid
  BY TxInfoConstants DEF TxInv, Attempts
<1>2. \E x \in Attempts(o) : \A y \in Attempts(o) : x <= y
  <2>. HIDE DEF Attempts
  <2>. QED BY <1>1, LeastNumber
<1>3. Min(Attempts(o)) \in Attempts(o) /\ \A t \in Attempts(o) : Min(Attempts(o)) <= t
  BY <1>2 DEF Min
<1>. QED BY <1>1, <1>3, TxInfoConstants DEF SpentTxId

LEMMA KeepTxInv == ASSUME TxInv, NEW t \in Txid, KeepTx(t) PROVE TxInv'
<1>1. kept \subseteq kept' /\ kept' \subseteq Txid /\ asked' = asked
  BY DEF KeepTx, TxInv
<1>2. \A o : Attempts(o) \subseteq Attempts(o)'
  BY <1>1 DEF Attempts
<1>3. ASSUME RequestOK PROVE RequestOK'
  BY <1>1, <1>2, <1>3 DEF RequestOK, Asked, DoneInputs, InputOK, SatOK
<1>. QED BY <1>1, <1>3 DEF TxInv, NoRequest

LEMMA GetInfoInv == ASSUME TxInv, NEW t \in Txid, GetInfo(t) PROVE TxInv'
<1>1. /\ asked' = [at |-> "inputs", tx |-> t, vin |-> [o \in Ins[t] |-> NewInput],
                   incomplete |-> FALSE, valueIn |-> 0, before |-> kept]
      /\ kept' = kept
  BY DEF GetInfo, NoRequest
<1>2. NewInput \in Input /\ NewInput.at = "out" /\ NewInput.rival = NoTx /\ ~NewInput.lost
  BY DEF NewInput, Input
<1>3. DoneInputs' = {}
  BY <1>1, <1>2 DEF DoneInputs
<1>4. RequestOK'
  BY <1>1, <1>2, <1>3, SumOfNone DEF RequestOK, Asked
<1>. QED BY <1>1, <1>4 DEF TxInv

\* One input is looked up, and the rest of the request stays what it is.
LEMMA InputMoves ==
    ASSUME RequestOK, NEW o \in Ins[asked.tx], NEW x \in Input,
           NEW inc \in BOOLEAN, NEW v \in Int, asked.vin[o].at # "done",
           asked' = [at |-> "inputs", tx |-> asked.tx, vin |-> [asked.vin EXCEPT ![o] = x],
                     incomplete |-> inc, valueIn |-> v, before |-> asked.before],
           kept' = kept,
           x.at # "out" => SatOK(o, x),
           x.at # "done" => x.rival = NoTx /\ ~x.lost,
           x.at = "done" => InputOK(asked.tx, o, x),
           inc => asked.incomplete \/ (x.at = "done" /\ x.sat = 0),
           ~inc => /\ ~asked.incomplete
                   /\ IF x.at = "done" THEN v = asked.valueIn + Sat[o] /\ x.sat = Sat[o]
                                       ELSE v = asked.valueIn
    PROVE  RequestOK'
<1>. DEFINE t == asked.tx
            new == [asked.vin EXCEPT ![o] = x]
<1>1. /\ asked' \in Asked(t) /\ asked'.tx = t /\ asked'.vin = new /\ asked'.before = asked.before
      /\ asked'.incomplete = inc /\ asked'.valueIn = v /\ t \in Txid
  BY DEF RequestOK, Asked
<1>2. new[o] = x /\ \A p \in Ins[t] \ {o} : new[p] = asked.vin[p]
  BY DEF RequestOK, Asked
<1>. HIDE DEF new
<1>3. DoneInputs' = IF x.at = "done" THEN DoneInputs \cup {o} ELSE DoneInputs
  BY <1>1, <1>2 DEF DoneInputs
<1>4. o \notin DoneInputs /\ \A p \in DoneInputs : p \in Ins[t] \ {o}
  BY DEF DoneInputs
<1>5. \A p \in Ins[t] : /\ asked'.vin[p].at # "out" => SatOK(p, asked.vin[p])'
                        /\ asked'.vin[p].at # "done" => asked'.vin[p].rival = NoTx /\ ~asked'.vin[p].lost
  BY <1>1, <1>2 DEF RequestOK, SatOK
<1>6. \A p \in DoneInputs' : InputOK(asked.tx, p, asked.vin[p])'
  <2>1. \A p : Attempts(p)' = Attempts(p)
    BY DEF Attempts
  <2>2. ASSUME NEW p \in DoneInputs' PROVE InputOK(t, p, new[p])
    BY <1>2, <1>3, <1>4 DEF RequestOK
  <2>. QED BY <1>1, <2>1, <2>2 DEF InputOK
<1>7. inc => \E p \in DoneInputs' : new[p].sat = 0
  BY <1>2, <1>3, <1>4 DEF RequestOK
<1>8. ASSUME ~inc
      PROVE  v = SumFunctionOnSet(Sat, DoneInputs') /\ \A p \in DoneInputs' : new[p].sat = Sat[p]
  <2>1. asked.valueIn = SumFunctionOnSet(Sat, DoneInputs) /\ \A p \in DoneInputs : asked.vin[p].sat = Sat[p]
    BY <1>8 DEF RequestOK
  <2>2. \A p \in DoneInputs' : new[p].sat = Sat[p]
    BY <1>2, <1>3, <1>4, <1>8, <2>1
  <2>3. CASE x.at # "done"
    BY <1>3, <1>8, <2>1, <2>2, <2>3
  <2>4. CASE x.at = "done"
    <3>1. IsFiniteSet(DoneInputs') /\ (\A p \in DoneInputs' : Sat[p] \in Int)
      <4>1. DoneInputs' \in SUBSET Ins[t] /\ Ins[t] \subseteq Outpoint /\ IsFiniteSet(Ins[t])
        BY <1>1, <1>3, TxInfoConstants DEF DoneInputs
      <4>. QED BY <4>1, FS_Subset, TxInfoConstants
    <3>2. DoneInputs' \ {o} = DoneInputs /\ o \in DoneInputs'
      BY <1>3, <1>4, <2>4
    <3>3. /\ SumFunctionOnSet(Sat, DoneInputs') = Sat[o] + SumFunctionOnSet(Sat, DoneInputs)
          /\ Sat[o] \in Int /\ asked.valueIn \in Int
      BY <3>1, <3>2, SumOfMore DEF RequestOK, Asked
    <3>. QED BY <1>8, <2>1, <2>2, <2>4, <3>3
  <2>. QED BY <2>3, <2>4
<1>9. asked' \in Asked(t)'
  BY <1>1 DEF Asked
<1>. QED BY <1>1, <1>5, <1>6, <1>7, <1>8, <1>9 DEF RequestOK

LEMMA InputFound ==
    ASSUME NEW i \in Input, NEW s \in Nat
    PROVE  [i EXCEPT !.at = "spent", !.sat = s]
              = [at |-> "spent", sat |-> s, rival |-> i.rival, lost |-> i.lost]
<1>. DEFINE y == [i EXCEPT !.at = "spent", !.sat = s]
            z == [at |-> "spent", sat |-> s, rival |-> i.rival, lost |-> i.lost]
<1>1. /\ y \in Input /\ y.at = "spent" /\ y.sat = s /\ y.rival = i.rival /\ y.lost = i.lost
      /\ z \in Input /\ z.at = "spent" /\ z.sat = s /\ z.rival = i.rival /\ z.lost = i.lost
  BY DEF Input
<1>. HIDE DEF y, z
<1>2. y = z
  BY <1>1 DEF Input
<1>. QED BY <1>2 DEF y, z

LEMMA GetOutInv == ASSUME TxInv, NEW o \in Outpoint, GetOut(o) PROVE TxInv'
<1>. DEFINE s == IF o[1] \in kept THEN Sat[o] ELSE 0
            x == [at |-> "spent", sat |-> s, rival |-> NoTx, lost |-> asked.vin[o].lost]
<1>1. RequestOK /\ o \in Ins[asked.tx] /\ asked.vin[o] \in Input /\ asked.vin[o].at = "out"
      /\ asked.vin[o].rival = NoTx /\ ~asked.vin[o].lost
  BY DEF GetOut, Waiting, TxInv, RequestOK, Asked, NoRequest
<1>2. Sat[o] \in Nat /\ s \in Nat
  BY TxInfoConstants
<1>3. x \in Input /\ x.at = "spent" /\ x.sat = s /\ x.rival = NoTx /\ ~x.lost
  BY <1>1, <1>2 DEF Input
<1>4. SatOK(o, x)
  BY <1>1, <1>3 DEF SatOK, RequestOK, Asked
<1>5. /\ asked' = [at |-> "inputs", tx |-> asked.tx, vin |-> [asked.vin EXCEPT ![o] = x],
                   incomplete |-> asked.incomplete, valueIn |-> asked.valueIn, before |-> asked.before]
      /\ kept' = kept
  <2>1. asked \in Asked(asked.tx)
    BY <1>1 DEF RequestOK
  <2>3. [asked.vin EXCEPT ![o].at = "spent", ![o].sat = s] = [asked.vin EXCEPT ![o] = x]
    <3>1. asked.vin[o] \in Input /\ asked.vin[o].rival = NoTx
      BY <1>1
    <3>2. asked.vin \in [Ins[asked.tx] -> Input]
      BY <2>1 DEF Asked
    <3>. HIDE DEF s
    <3>3. [asked.vin[o] EXCEPT !.at = "spent", !.sat = s] = x
      BY <1>2, <3>1, InputFound
    <3>. HIDE DEF x
    <3>. QED BY <3>2, <3>3
  <2>4. asked' = [asked EXCEPT !.vin = [asked.vin EXCEPT ![o].at = "spent", ![o].sat = s]]
    BY <2>1 DEF GetOut, Asked
  <2>. QED BY <2>1, <2>3, <2>4 DEF GetOut, Asked
<1>. HIDE DEF x
<1>6. asked.incomplete \in BOOLEAN /\ asked.valueIn \in Int
  BY <1>1 DEF RequestOK, Asked
<1>7. RequestOK'
  BY <1>1, <1>3, <1>4, <1>5, <1>6, InputMoves
<1>. QED BY <1>1, <1>5, <1>7 DEF TxInv

LEMMA GetSpentsInv == ASSUME TxInv, NEW o \in Outpoint, GetSpents(o) PROVE TxInv'
<1>. DEFINE t == asked.tx
            i == asked.vin[o]
<1>1. RequestOK /\ o \in Ins[t] /\ i \in Input /\ i.at = "spent" /\ SatOK(o, i) /\ t \in Txid
      /\ i.rival = NoTx /\ ~i.lost /\ asked \in Asked(t)
  BY DEF GetSpents, Waiting, TxInv, RequestOK, Asked, NoRequest
<1>2. kept' = kept /\ Sat[o] \in Nat /\ asked.incomplete \in BOOLEAN /\ asked.valueIn \in Int
  BY <1>1, TxInfoConstants DEF GetSpents, RequestOK, Asked
<1>3. CASE i.sat = 0
  <2>. DEFINE x == [at |-> "done", sat |-> i.sat, rival |-> NoTx, lost |-> i.lost]
  <2>1. x \in Input /\ x.at = "done" /\ x.sat = 0 /\ x.rival = NoTx /\ x.lost = i.lost
    BY <1>1, <1>3 DEF Input
  <2>2. asked' = [at |-> "inputs", tx |-> t, vin |-> [asked.vin EXCEPT ![o] = x],
                  incomplete |-> TRUE, valueIn |-> asked.valueIn, before |-> asked.before]
    <3>1. [asked.vin EXCEPT ![o].at = "done"] = [asked.vin EXCEPT ![o] = x]
      <4>1. i \in Input /\ i.rival = NoTx
        BY <1>1
      <4>2. asked.vin \in [Ins[t] -> Input]
        BY <1>1 DEF Asked
      <4>3. [i EXCEPT !.at = "done"] = x
        BY <4>1 DEF Input
      <4>. HIDE DEF x
      <4>. QED BY <4>2, <4>3
    <3>2. asked' = [asked EXCEPT !.vin = [asked.vin EXCEPT ![o].at = "done"], !.incomplete = TRUE]
      BY <1>1, <1>3 DEF GetSpents, Asked
    <3>. QED BY <1>1, <3>1, <3>2 DEF Asked
  <2>3. SatOK(o, x)
    BY <1>1, <1>3, <2>1 DEF SatOK
  <2>4. InputOK(t, o, x)
    BY <1>1, <2>1 DEF InputOK, RequestOK
  <2>. HIDE DEF x
  <2>5. RequestOK'
    BY <1>1, <1>2, <2>1, <2>2, <2>3, <2>4, InputMoves
  <2>. QED BY <1>2, <2>5 DEF TxInv
<1>4. CASE i.sat # 0
  <2>. DEFINE rival == IF SpentTxId(o) = t THEN NoTx ELSE SpentTxId(o)
              lost == Attempts(o) = {}
              x == [at |-> "done", sat |-> i.sat, rival |-> rival, lost |-> lost]
  <2>1. rival \in Txid \cup {NoTx}
    BY FirstAttempt DEF SpentTxId, Attempts, TxInv
  <2>2. x \in Input /\ x.at = "done" /\ x.sat = i.sat /\ x.rival = rival /\ x.lost = lost
    BY <1>1, <2>1 DEF Input
  <2>3. asked' = [at |-> "inputs", tx |-> t, vin |-> [asked.vin EXCEPT ![o] = x],
                  incomplete |-> asked.incomplete, valueIn |-> asked.valueIn + i.sat,
                  before |-> asked.before]
    <3>. DEFINE y == [asked.vin EXCEPT ![o].at = "done", ![o].rival = rival, ![o].lost = lost]
    <3>1. y = [asked.vin EXCEPT ![o] = x]
      BY <1>1 DEF Asked, Input
    <3>2. asked' = [asked EXCEPT !.vin = y, !.valueIn = asked.valueIn + i.sat]
      BY <1>1, <1>4 DEF GetSpents, Asked
    <3>. HIDE DEF y
    <3>. QED BY <1>1, <3>1, <3>2 DEF Asked
  <2>4. SatOK(o, x) /\ i.sat = Sat[o]
    BY <1>1, <1>4, <2>2 DEF SatOK
  <2>5. InputOK(t, o, x)
    <3>1. rival # NoTx => rival # t /\ rival \in Attempts(o)
      BY FirstAttempt DEF SpentTxId
    <3>2. asked.before \subseteq kept
      BY <1>1 DEF RequestOK, Asked
    <3>3. t \in asked.before => t \in Attempts(o)
      BY <1>1, <3>2 DEF Attempts
    <3>4. ASSUME NEW u \in asked.before, o \in Ins[u], u < t PROVE rival # NoTx
      <4>1. u \in Attempts(o) /\ u \in Nat /\ t \in Nat
        BY <1>1, <3>2, <3>4, TxInfoConstants DEF Attempts, TxInv
      <4>2. SpentTxId(o) \in Nat /\ SpentTxId(o) <= u /\ SpentTxId(o) # NoTx
        BY <4>1, FirstAttempt, TxInfoConstants DEF Attempts, TxInv
      <4>. QED BY <3>4, <4>1, <4>2
    <3>. HIDE DEF rival, x
    <3>. QED BY <2>2, <3>1, <3>3, <3>4 DEF InputOK
  <2>. HIDE DEF x
  <2>6. RequestOK'
    BY <1>1, <1>2, <1>4, <2>2, <2>3, <2>4, <2>5, InputMoves DEF Input
  <2>. QED BY <1>2, <2>6 DEF TxInv
<1>. QED BY <1>3, <1>4

THEOREM TxInvariance == TxInfoSpec => []TxInv
<1>1. TxInfoInit => TxInv
  BY DEF TxInfoInit, TxInv
<1>2. TxInv /\ [TxInfoNext]_txInfoVars => TxInv'
  <2>1. TxInv /\ AnswerInfo => TxInv'
    BY DEF AnswerInfo, TxInv
  <2>2. TxInv /\ UNCHANGED txInfoVars => TxInv'
    BY DEF txInfoVars, TxInv, RequestOK, Asked, DoneInputs, InputOK, SatOK, Attempts, NoRequest
  <2>. QED BY <2>1, <2>2, KeepTxInv, GetInfoInv, GetOutInv, GetSpentsInv DEF TxInfoNext
<1>. QED BY <1>1, <1>2, PTL DEF TxInfoSpec

\* Of transactions that spend one output all but the first learn of another, for any
\* transactions, stored at any moment of the request.
THEOREM RivalsAreTold == TxInfoSpec => []RivalIsTold
<1>1. TxInv => RivalIsTold
  <2>. SUFFICES ASSUME TxInv, Answered PROVE
          \A o \in Ins[asked.tx] : o \in DoneInputs /\ InputOK(asked.tx, o, asked.vin[o])
    BY DEF RivalIsTold, InputOK
  <2>1. RequestOK
    BY DEF TxInv, Answered, NoRequest
  <2>. QED BY <2>1 DEF RequestOK, Asked, Answered, DoneInputs
<1>. QED BY <1>1, TxInvariance, PTL

\* The fees of an answer that is not marked as incomplete are right, whatever is
\* stored between the lookups of the inputs.
THEOREM RightFees == TxInfoSpec => []FeesAreRight
<1>1. TxInv => FeesAreRight
  <2>. SUFFICES ASSUME TxInv, Answered PROVE FeesAreRight
    BY DEF FeesAreRight
  <2>1. RequestOK
    BY DEF TxInv, Answered, NoRequest
  <2>2. DoneInputs = Ins[asked.tx]
    BY <2>1 DEF RequestOK, Asked, Answered, DoneInputs
  <2>3. ASSUME \A o \in Ins[asked.tx] : o[1] \in asked.before /\ Sat[o] > 0, asked.incomplete
        PROVE  FALSE
    BY <2>1, <2>2, <2>3 DEF RequestOK, SatOK, DoneInputs
  <2>. QED BY <2>1, <2>2, <2>3 DEF FeesAreRight, RequestOK
<1>. QED BY <1>1, TxInvariance, PTL

-----------------------------------------------------------------------------
(* The sums of an address *)

Sats == [i \in DOMAIN txOut |-> txOut[i].sat]

\* The sums that SumsAreRight speaks of, over the first n outputs.
ConfirmedOf(n) == SumFunctionOnSet(Sats, {i \in 1..n : txOut[i].txid \in confirmed})
SentOf(n) == SumFunctionOnSet(Sats, {i \in 1..n : txOut[i].spent \in confirmed})
UnspentOf(n) == SumFunctionOnSet(Sats, {i \in 1..n : txOut[i].spent = Unspent})
ComingOf(n) == SumFunctionOnSet(Sats, {i \in 1..n : /\ txOut[i].txid \notin confirmed
                                                    /\ txOut[i].spent # Unspent})

OutputsOK ==
    /\ txOut \in Seq(Item)
    /\ confirmed \subseteq Payment
    /\ \A i \in 1..Len(txOut) : /\ txOut[i].spent \in confirmed => txOut[i].txid \in confirmed
                                /\ txOut[i].spent # txOut[i].txid
    /\ passed \in 0..Len(txOut)

SumsOK ==
    /\ sums \in [balance : Int, received : Int, sent : Int, unconfirmed : Int,
                 apperances : Int, unconfirmedApperances : Int]
    /\ sums.received = ConfirmedOf(passed)
    /\ sums.sent = SentOf(passed)
    /\ sums.balance = sums.received - sums.sent
    /\ sums.balance + sums.unconfirmed = UnspentOf(passed) + ComingOf(passed)

ListOK ==
    /\ seen = Touching
    /\ IsFiniteSet(seen)
    /\ list \in Seq(Payment)
    /\ ToSet(list) = seen
    /\ Len(list) = Cardinality(seen)
    /\ sums.apperances = Cardinality(seen \cap confirmed)

TotalsInv == OutputsOK /\ SumsOK /\ ListOK

LEMMA NextNumber ==
    ASSUME NEW n \in Nat
    PROVE  1..(n + 1) = (1..n) \cup {n + 1} /\ n + 1 \notin 1..n
  OBVIOUS

LEMMA NextSum ==
    ASSUME NEW n \in Nat, NEW f, \A i \in 1..(n + 1) : f[i] \in Int,
           NEW A \in SUBSET (1..(n + 1)), NEW B, A \ {n + 1} = B
    PROVE  /\ SumFunctionOnSet(f, B) \in Int
           /\ SumFunctionOnSet(f, A)
                = SumFunctionOnSet(f, B) + (IF n + 1 \in A THEN f[n + 1] ELSE 0)
<1>1. IsFiniteSet(A) /\ IsFiniteSet(B)
  <2>1. n + 1 \in Int /\ 1 \in Int
    OBVIOUS
  <2>2. IsFiniteSet(1..(n + 1))
    BY <2>1, FS_Interval
  <2>3. IsFiniteSet(A)
    BY <2>2, FS_Subset
  <2>. QED BY <2>3, FS_RemoveElement
<1>2. \A i \in A : f[i] \in Int /\ (i \in B => f[i] \in Int)
  OBVIOUS
<1>3. SumFunctionOnSet(f, B) \in Int
  <2>1. \A i \in B : f[i] \in Int
    BY <1>2
  <2>. QED BY <1>1, <2>1, SumOfMore
<1>4. CASE n + 1 \in A
  <2>1. SumFunctionOnSet(f, A) = f[n + 1] + SumFunctionOnSet(f, A \ {n + 1})
    <3>1. \A i \in A : f[i] \in Int
      BY <1>2
    <3>2. \A i \in A : SumFunctionOnSet(f, A) = f[i] + SumFunctionOnSet(f, A \ {i})
      BY <1>1, <3>1, SumOfMore
    <3>. QED BY <1>4, <3>2
  <2>. QED BY <1>2, <1>3, <1>4, <2>1
<1>5. CASE n + 1 \notin A
  <2>1. A = B
    BY <1>5
  <2>2. SumFunctionOnSet(f, A) = SumFunctionOnSet(f, B)
    BY <2>1
  <2>. QED BY <1>3, <1>5, <2>2
<1>. QED BY <1>4, <1>5

\* An output more adds its value to the sums of whose definition it is.
LEMMA NextSums ==
    ASSUME OutputsOK, NEW n \in 0..(Len(txOut) - 1)
    PROVE  LET x == txOut[n + 1]
           IN  /\ x \in Item /\ x.sat \in Nat
               /\ ConfirmedOf(n) \in Int /\ SentOf(n) \in Int
               /\ UnspentOf(n) \in Int /\ ComingOf(n) \in Int
               /\ ConfirmedOf(n + 1) = ConfirmedOf(n) + IF x.txid \in confirmed THEN x.sat ELSE 0
               /\ SentOf(n + 1) = SentOf(n) + IF x.spent \in confirmed THEN x.sat ELSE 0
               /\ UnspentOf(n + 1) = UnspentOf(n) + IF x.spent = Unspent THEN x.sat ELSE 0
               /\ ComingOf(n + 1) = ComingOf(n) + IF x.txid \notin confirmed /\ x.spent # Unspent
                                                  THEN x.sat ELSE 0
<1>. DEFINE x == txOut[n + 1]
<1>1. n \in Nat /\ Len(txOut) \in Nat /\ n + 1 \in 1..Len(txOut)
      /\ \A i \in 1..(n + 1) : i \in 1..Len(txOut)
  BY DEF OutputsOK
<1>2. \A i \in 1..(n + 1) : Sats[i] = txOut[i].sat /\ Sats[i] \in Nat /\ txOut[i] \in Item
  <2>1. \A i \in 1..Len(txOut) : txOut[i] \in Item /\ i \in DOMAIN txOut
    BY DEF OutputsOK
  <2>2. \A y \in Item : y.sat \in Nat
    BY TotalsConstants DEF Item
  <2>. QED BY <1>1, <2>1, <2>2 DEF Sats
<1>3. Sats[n + 1] = x.sat /\ x \in Item /\ x.sat \in Nat
  BY <1>1, <1>2
<1>. HIDE DEF x
<1>4. \A i \in 1..(n + 1) : Sats[i] \in Int
  BY <1>2
<1>5. ConfirmedOf(n) \in Int
      /\ ConfirmedOf(n + 1) = ConfirmedOf(n) + IF x.txid \in confirmed THEN x.sat ELSE 0
  <2>. DEFINE A == {i \in 1..(n + 1) : txOut[i].txid \in confirmed}
            B == {i \in 1..n : txOut[i].txid \in confirmed}
  <2>1. A \ {n + 1} = B /\ (n + 1 \in A <=> x.txid \in confirmed)
    BY <1>1, NextNumber DEF x
  <2>2. A \in SUBSET (1..(n + 1))
    OBVIOUS
  <2>. HIDE DEF A, B
  <2>. QED BY <1>1, <1>3, <1>4, <2>1, <2>2, NextSum DEF ConfirmedOf, A, B
<1>6. SentOf(n) \in Int /\ SentOf(n + 1) = SentOf(n) + IF x.spent \in confirmed THEN x.sat ELSE 0
  <2>. DEFINE A == {i \in 1..(n + 1) : txOut[i].spent \in confirmed}
            B == {i \in 1..n : txOut[i].spent \in confirmed}
  <2>1. A \ {n + 1} = B /\ (n + 1 \in A <=> x.spent \in confirmed)
    BY <1>1, NextNumber DEF x
  <2>2. A \in SUBSET (1..(n + 1))
    OBVIOUS
  <2>. HIDE DEF A, B
  <2>. QED BY <1>1, <1>3, <1>4, <2>1, <2>2, NextSum DEF SentOf, A, B
<1>7. UnspentOf(n) \in Int /\ UnspentOf(n + 1) = UnspentOf(n) + IF x.spent = Unspent THEN x.sat ELSE 0
  <2>. DEFINE A == {i \in 1..(n + 1) : txOut[i].spent = Unspent}
            B == {i \in 1..n : txOut[i].spent = Unspent}
  <2>1. A \ {n + 1} = B /\ (n + 1 \in A <=> x.spent = Unspent)
    BY <1>1, NextNumber DEF x
  <2>2. A \in SUBSET (1..(n + 1))
    OBVIOUS
  <2>. HIDE DEF A, B
  <2>. QED BY <1>1, <1>3, <1>4, <2>1, <2>2, NextSum DEF UnspentOf, A, B
<1>8. ComingOf(n) \in Int
      /\ ComingOf(n + 1) = ComingOf(n) + IF x.txid \notin confirmed /\ x.spent # Unspent THEN x.sat ELSE 0
  <2>. DEFINE A == {i \in 1..(n + 1) : txOut[i].txid \notin confirmed /\ txOut[i].spent # Unspent}
            B == {i \in 1..n : txOut[i].txid \notin confirmed /\ txOut[i].spent # Unspent}
  <2>1. A \ {n + 1} = B
        /\ (n + 1 \in A <=> x.txid \notin confirmed /\ x.spent # Unspent)
    BY <1>1, NextNumber DEF x
  <2>2. A \in SUBSET (1..(n + 1))
    OBVIOUS
  <2>3. ComingOf(n + 1) = SumFunctionOnSet(Sats, A) /\ ComingOf(n) = SumFunctionOnSet(Sats, B)
    BY DEF ComingOf
  <2>. HIDE DEF A, B
  <2>4. /\ SumFunctionOnSet(Sats, B) \in Int
        /\ SumFunctionOnSet(Sats, A)
             = SumFunctionOnSet(Sats, B) + IF n + 1 \in A THEN Sats[n + 1] ELSE 0
    BY <1>1, <1>4, <2>1, <2>2, NextSum
  <2>. QED BY <1>3, <2>1, <2>3, <2>4
<1>. QED BY <1>3, <1>5, <1>6, <1>7, <1>8 DEF x

\* What the pass does to the sums, in all cases.
LEMMA AddedSums ==
    ASSUME TotalsInv, AddTxItem
    PROVE  LET x == txOut[passed + 1]
               b == sums'.balance - sums.balance
               u == sums'.unconfirmed - sums.unconfirmed
           IN  /\ sums' \in [balance : Int, received : Int, sent : Int, unconfirmed : Int,
                             apperances : Int, unconfirmedApperances : Int]
               /\ sums'.received = sums.received + IF x.txid \in confirmed THEN x.sat ELSE 0
               /\ sums'.sent = sums.sent + IF x.spent \in confirmed THEN x.sat ELSE 0
               /\ b = IF x.txid \in confirmed /\ x.spent \notin confirmed THEN x.sat ELSE 0
               /\ b + u = IF x.spent = Unspent \/ x.txid \notin confirmed THEN x.sat ELSE 0
               /\ sums'.apperances = sums.apperances
                    + (IF x.txid \in confirmed /\ x.txid \notin seen THEN 1 ELSE 0)
                    + (IF x.spent \in confirmed /\ x.spent \notin seen THEN 1 ELSE 0)
<1>. DEFINE x == txOut[passed + 1]
            isNew == x.txid \notin seen
            isNewSpend == x.spent # Unspent /\ x.spent \notin seen
            add == SumsOf(x, isNew, isNewSpend)
            Ints == [balance : Int, received : Int, sent : Int, unconfirmed : Int,
                     apperances : Int, unconfirmedApperances : Int]
<1>1. passed + 1 \in 1..Len(txOut)
  BY DEF TotalsInv, OutputsOK, AddTxItem
<1>2. /\ x \in Item /\ x.sat \in Nat
      /\ x.spent \in confirmed => x.txid \in confirmed
      /\ Unspent \notin confirmed
  <2>1. x \in Item /\ (x.spent \in confirmed => x.txid \in confirmed) /\ confirmed \subseteq Payment
    BY <1>1 DEF TotalsInv, OutputsOK
  <2>. QED BY <2>1, TotalsConstants DEF Item
<1>3. sums' = [f \in DOMAIN sums |-> sums[f] + add[f]]
  BY DEF AddTxItem
<1>4. sums \in Ints
  BY DEF TotalsInv, SumsOK
<1>. DEFINE new == IF isNew THEN 1 ELSE 0
            newSpend == IF isNewSpend THEN 1 ELSE 0
<1>. HIDE DEF x, isNew, isNewSpend
<1>5. /\ add \in Ints
      /\ add.received = IF x.txid \in confirmed THEN x.sat ELSE 0
      /\ add.sent = IF x.spent \in confirmed THEN x.sat ELSE 0
      /\ add.balance = IF x.txid \in confirmed /\ x.spent \notin confirmed THEN x.sat ELSE 0
      /\ add.balance + add.unconfirmed = IF x.spent = Unspent \/ x.txid \notin confirmed THEN x.sat ELSE 0
      /\ add.apperances = (IF x.txid \in confirmed /\ isNew THEN 1 ELSE 0)
                          + (IF x.spent \in confirmed /\ isNewSpend THEN 1 ELSE 0)
  <2>1. CASE x.txid \notin confirmed
    <3>1. add = [balance |-> 0, received |-> 0, sent |-> 0, unconfirmed |-> x.sat,
                 apperances |-> 0, unconfirmedApperances |-> new]
      BY <2>1 DEF SumsOf, NoSums
    <3>. HIDE DEF add
    <3>. QED BY <1>2, <2>1, <3>1
  <2>2. CASE x.txid \in confirmed /\ x.spent = Unspent
    <3>1. add = [balance |-> x.sat, received |-> x.sat, sent |-> 0, unconfirmed |-> 0,
                 apperances |-> new, unconfirmedApperances |-> 0]
      BY <2>2 DEF SumsOf, NoSums
    <3>. HIDE DEF add
    <3>. QED BY <1>2, <2>2, <3>1
  <2>3. CASE x.txid \in confirmed /\ x.spent # Unspent /\ x.spent \notin confirmed
    <3>1. add = [balance |-> x.sat, received |-> x.sat, sent |-> 0, unconfirmed |-> -x.sat,
                 apperances |-> new, unconfirmedApperances |-> newSpend]
      BY <2>3 DEF SumsOf, NoSums
    <3>. HIDE DEF add
    <3>. QED BY <1>2, <2>3, <3>1
  <2>4. CASE x.txid \in confirmed /\ x.spent \in confirmed
    <3>1. add = [balance |-> 0, received |-> x.sat, sent |-> x.sat, unconfirmed |-> 0,
                 apperances |-> new + newSpend, unconfirmedApperances |-> 0]
      BY <1>2, <2>4 DEF SumsOf, NoSums
    <3>. HIDE DEF add
    <3>. QED BY <1>2, <2>4, <3>1
  <2>. QED BY <2>1, <2>2, <2>3, <2>4
<1>. HIDE DEF add
<1>6. sums' \in Ints
  BY <1>3, <1>4, <1>5
<1>7. x.spent \in confirmed => x.spent # Unspent
  BY <1>2
<1>8. /\ sums'.received = sums.received + add.received
      /\ sums'.sent = sums.sent + add.sent
      /\ sums'.balance - sums.balance = add.balance
      /\ sums'.unconfirmed - sums.unconfirmed = add.unconfirmed
      /\ sums'.apperances = sums.apperances + add.apperances
  <2>1. /\ sums'.received = sums.received + add.received
        /\ sums'.sent = sums.sent + add.sent
        /\ sums'.balance = sums.balance + add.balance
        /\ sums'.unconfirmed = sums.unconfirmed + add.unconfirmed
        /\ sums'.apperances = sums.apperances + add.apperances
    BY <1>3, <1>4
  <2>2. sums.balance \in Int /\ add.balance \in Int /\ sums.unconfirmed \in Int /\ add.unconfirmed \in Int
    BY <1>4, <1>5
  <2>. QED BY <2>1, <2>2
<1>9. /\ x.txid \in confirmed /\ isNew <=> x.txid \in confirmed /\ x.txid \notin seen
      /\ x.spent \in confirmed /\ isNewSpend <=> x.spent \in confirmed /\ x.spent \notin seen
  BY <1>7 DEF isNew, isNewSpend
<1>10. sums'.apperances = sums.apperances
                    + (IF x.txid \in confirmed /\ x.txid \notin seen THEN 1 ELSE 0)
                    + (IF x.spent \in confirmed /\ x.spent \notin seen THEN 1 ELSE 0)
  BY <1>4, <1>5, <1>8, <1>9
<1>. QED BY <1>5, <1>6, <1>8, <1>10 DEF x

LEMMA AddSumsOK == ASSUME TotalsInv, AddTxItem PROVE SumsOK'
<1>. DEFINE x == txOut[passed + 1]
<1>1. passed \in 0..(Len(txOut) - 1) /\ OutputsOK /\ SumsOK
  BY DEF TotalsInv, OutputsOK, AddTxItem
<1>2. passed' = passed + 1 /\ txOut' = txOut /\ confirmed' = confirmed
  BY DEF AddTxItem
<1>3. /\ ConfirmedOf(passed)' = ConfirmedOf(passed + 1) /\ SentOf(passed)' = SentOf(passed + 1)
      /\ UnspentOf(passed)' = UnspentOf(passed + 1) /\ ComingOf(passed)' = ComingOf(passed + 1)
  BY <1>2 DEF ConfirmedOf, SentOf, UnspentOf, ComingOf, Sats
<1>4. /\ x.sat \in Nat
      /\ ConfirmedOf(passed) \in Int /\ SentOf(passed) \in Int
      /\ UnspentOf(passed) \in Int /\ ComingOf(passed) \in Int
      /\ ConfirmedOf(passed + 1) = ConfirmedOf(passed) + IF x.txid \in confirmed THEN x.sat ELSE 0
      /\ SentOf(passed + 1) = SentOf(passed) + IF x.spent \in confirmed THEN x.sat ELSE 0
      /\ UnspentOf(passed + 1) = UnspentOf(passed) + IF x.spent = Unspent THEN x.sat ELSE 0
      /\ ComingOf(passed + 1) = ComingOf(passed) + IF x.txid \notin confirmed /\ x.spent # Unspent
                                                   THEN x.sat ELSE 0
  BY <1>1, NextSums
<1>5. /\ sums' \in [balance : Int, received : Int, sent : Int, unconfirmed : Int,
                    apperances : Int, unconfirmedApperances : Int]
      /\ sums'.received = sums.received + IF x.txid \in confirmed THEN x.sat ELSE 0
      /\ sums'.sent = sums.sent + IF x.spent \in confirmed THEN x.sat ELSE 0
      /\ sums'.balance - sums.balance
           = IF x.txid \in confirmed /\ x.spent \notin confirmed THEN x.sat ELSE 0
      /\ (sums'.balance - sums.balance) + (sums'.unconfirmed - sums.unconfirmed)
           = IF x.spent = Unspent \/ x.txid \notin confirmed THEN x.sat ELSE 0
  BY AddedSums
<1>6. x.spent \in confirmed => x.txid \in confirmed
  BY <1>1 DEF OutputsOK
<1>7. sums \in [balance : Int, received : Int, sent : Int, unconfirmed : Int,
                apperances : Int, unconfirmedApperances : Int]
  BY <1>1 DEF SumsOK
<1>. HIDE DEF x
<1>8. /\ sums.balance \in Int /\ sums.received \in Int /\ sums.sent \in Int /\ sums.unconfirmed \in Int
       /\ sums'.balance \in Int /\ sums'.received \in Int /\ sums'.sent \in Int /\ sums'.unconfirmed \in Int
  BY <1>5, <1>7
<1>9. /\ sums.received = ConfirmedOf(passed) /\ sums.sent = SentOf(passed)
       /\ sums.balance = sums.received - sums.sent
       /\ sums.balance + sums.unconfirmed = UnspentOf(passed) + ComingOf(passed)
  BY <1>1 DEF SumsOK
<1>10. sums'.received = ConfirmedOf(passed + 1) /\ sums'.sent = SentOf(passed + 1)
  BY <1>4, <1>5, <1>9
<1>11. sums'.balance = sums'.received - sums'.sent
  <2>1. PICK r \in Int, t \in Int, b \in Int, q \in Int :
           /\ r = sums.received /\ t = sums.sent /\ b = sums.balance /\ q = x.sat
    BY <1>4, <1>8
  <2>2. PICK rr \in Int, tt \in Int, bb \in Int :
           /\ rr = sums'.received /\ tt = sums'.sent /\ bb = sums'.balance
    BY <1>8
  <2>3. /\ rr = r + IF x.txid \in confirmed THEN q ELSE 0
        /\ tt = t + IF x.spent \in confirmed THEN q ELSE 0
        /\ bb - b = IF x.txid \in confirmed /\ x.spent \notin confirmed THEN q ELSE 0
        /\ b = r - t
    BY <1>5, <1>9, <2>1, <2>2
  <2>4. bb = rr - tt
    <3>1. CASE x.spent \in confirmed
      BY <1>6, <2>3, <3>1
    <3>2. CASE x.spent \notin confirmed /\ x.txid \in confirmed
      BY <2>3, <3>2
    <3>3. CASE x.spent \notin confirmed /\ x.txid \notin confirmed
      BY <2>3, <3>3
    <3>. QED BY <3>1, <3>2, <3>3
  <2>. QED BY <2>2, <2>4
<1>12. sums'.balance + sums'.unconfirmed = UnspentOf(passed + 1) + ComingOf(passed + 1)
  <2>1. UnspentOf(passed + 1) + ComingOf(passed + 1) = UnspentOf(passed) + ComingOf(passed)
          + IF x.spent = Unspent \/ x.txid \notin confirmed THEN x.sat ELSE 0
    BY <1>4
  <2>. QED BY <1>4, <1>5, <1>8, <1>9, <2>1
<1>. QED BY <1>3, <1>5, <1>10, <1>11, <1>12 DEF SumsOK

\* What follows on a list of things that are all different.
LEMMA AppendNew ==
    ASSUME NEW T, NEW s \in Seq(T), NEW x \in T, IsFiniteSet(ToSet(s)),
           Len(s) = Cardinality(ToSet(s))
    PROVE  LET q == s \o (IF x \in ToSet(s) THEN <<>> ELSE <<x>>)
           IN  /\ q \in Seq(T) /\ ToSet(q) = ToSet(s) \cup {x} /\ IsFiniteSet(ToSet(q))
               /\ Len(q) = Cardinality(ToSet(q))
<1>1. CASE x \in ToSet(s)
  <2>1. s \o <<>> = s
    OBVIOUS
  <2>. QED BY <1>1, <2>1
<1>2. CASE x \notin ToSet(s)
  <2>. DEFINE q == s \o <<x>>
  <2>1. q \in Seq(T) /\ Len(q) = Len(s) + 1
        /\ \A i \in 1..Len(q) : q[i] = IF i <= Len(s) THEN s[i] ELSE x
    OBVIOUS
  <2>2. ToSet(q) = ToSet(s) \cup {x}
    <3>1. DOMAIN q = 1..(Len(s) + 1) /\ DOMAIN s = 1..Len(s) /\ Len(s) \in Nat
      BY <2>1
    <3>2. 1..(Len(s) + 1) = (1..Len(s)) \cup {Len(s) + 1}
      BY <3>1, NextNumber
    <3>3. (\A i \in 1..Len(s) : q[i] = s[i]) /\ q[Len(s) + 1] = x
      BY <2>1, <3>1
    <3>. HIDE DEF q
    <3>4. \A y : y \in ToSet(q) <=> \E i \in 1..(Len(s) + 1) : q[i] = y
      BY <3>1 DEF ToSet
    <3>5. \A y : y \in ToSet(s) <=> \E i \in 1..Len(s) : s[i] = y
      BY <3>1 DEF ToSet
    <3>6. ASSUME NEW y PROVE y \in ToSet(q) <=> y \in ToSet(s) \cup {x}
      BY <3>2, <3>3, <3>4, <3>5
    <3>. QED BY <3>6
  <2>3. IsFiniteSet(ToSet(q)) /\ Cardinality(ToSet(q)) = Cardinality(ToSet(s)) + 1
    BY <1>2, <2>2, FS_AddElement
  <2>. QED BY <1>2, <2>1, <2>2, <2>3
<1>. QED BY <1>1, <1>2

\* What it is to touch the address.
LEMMA TouchingIs ==
    ASSUME NEW I, NEW q
    PROVE  \A y : y \in (UNION {{q[i].txid, q[i].spent} : i \in I}) \ {Unspent}
                 <=> /\ y # Unspent
                     /\ \E i \in I : y = q[i].txid \/ y = q[i].spent
<1>1. ASSUME NEW y, NEW i \in I, y = q[i].txid \/ y = q[i].spent
      PROVE  y \in UNION {{q[j].txid, q[j].spent} : j \in I}
  BY <1>1
<1>2. ASSUME NEW y \in UNION {{q[j].txid, q[j].spent} : j \in I}
      PROVE  \E i \in I : y = q[i].txid \/ y = q[i].spent
  OBVIOUS
<1>. QED BY <1>1, <1>2

LEMMA AddListOK == ASSUME TotalsInv, AddTxItem PROVE ListOK'
<1>. DEFINE x == txOut[passed + 1]
            mid == list \o (IF x.txid \in ToSet(list) THEN <<>> ELSE <<x.txid>>)
<1>1. passed \in 0..(Len(txOut) - 1) /\ passed + 1 \in 1..Len(txOut) /\ OutputsOK /\ ListOK
  BY DEF TotalsInv, OutputsOK, AddTxItem
<1>2. passed' = passed + 1 /\ txOut' = txOut /\ confirmed' = confirmed
  BY DEF AddTxItem
<1>3. x \in Item /\ x.txid \in Payment /\ x.spent \in Payment \cup {Unspent} /\ x.spent # x.txid
  <2>1. x \in Item /\ x.spent # x.txid
    BY <1>1 DEF OutputsOK
  <2>. QED BY <2>1 DEF Item
<1>4. ToSet(list) = seen /\ Unspent \notin seen /\ list \in Seq(Payment)
      /\ IsFiniteSet(seen) /\ Len(list) = Cardinality(seen)
  <2>1. seen = Touching
    BY <1>1 DEF ListOK
  <2>2. Unspent \notin Touching
    BY DEF Touching
  <2>. QED BY <1>1, <2>1, <2>2 DEF ListOK
<1>5. Touching' = (seen \cup {x.txid, x.spent}) \ {Unspent}
  <2>1. 1..(passed + 1) = (1..passed) \cup {passed + 1}
    BY <1>1, NextNumber
  <2>2. \A y : y \in Touching <=> /\ y # Unspent
                                  /\ \E i \in 1..passed : y = txOut[i].txid \/ y = txOut[i].spent
    BY TouchingIs DEF Touching
  <2>3. \A y : y \in Touching' <=> /\ y # Unspent
                                   /\ \E i \in 1..(passed + 1) : y = txOut[i].txid \/ y = txOut[i].spent
    <3>1. Touching' = (UNION {{txOut[i].txid, txOut[i].spent} : i \in 1..(passed + 1)}) \ {Unspent}
      BY <1>2 DEF Touching
    <3>. HIDE DEF Touching
    <3>. QED BY <3>1, TouchingIs
  <2>4. seen = Touching
    BY <1>1 DEF ListOK
  <2>. HIDE DEF Touching
  <2>5. ASSUME NEW y PROVE y \in Touching' <=> y \in (seen \cup {x.txid, x.spent}) \ {Unspent}
    BY <2>1, <2>2, <2>3, <2>4
  <2>. QED BY <2>5
<1>6. seen' = Touching'
  BY <1>5 DEF AddTxItem
<1>. HIDE DEF x
<1>7. /\ mid \in Seq(Payment) /\ ToSet(mid) = seen \cup {x.txid} /\ IsFiniteSet(ToSet(mid))
      /\ Len(mid) = Cardinality(ToSet(mid))
  BY <1>3, <1>4, AppendNew
<1>8. list' = mid \o (IF x.spent # Unspent /\ x.spent \notin seen THEN <<x.spent>> ELSE <<>>)
  BY <1>4 DEF AddTxItem, x
<1>. HIDE DEF mid
<1>9. list' \in Seq(Payment) /\ ToSet(list') = seen' /\ IsFiniteSet(seen') /\ Len(list') = Cardinality(seen')
  <2>1. CASE x.spent = Unspent
    <3>1. list' = mid
      BY <1>7, <1>8, <2>1
    <3>2. seen' = seen \cup {x.txid}
      BY <1>3, <1>4, <1>5, <1>6, <2>1, TotalsConstants
    <3>. QED BY <1>7, <3>1, <3>2
  <2>2. CASE x.spent # Unspent
    <3>1. x.spent \in Payment /\ (x.spent \in ToSet(mid) <=> x.spent \in seen)
      BY <1>3, <1>7, <2>2
    <3>2. list' = mid \o (IF x.spent \in ToSet(mid) THEN <<>> ELSE <<x.spent>>)
      BY <1>8, <2>2, <3>1
    <3>3. seen' = ToSet(mid) \cup {x.spent}
      BY <1>3, <1>4, <1>5, <1>6, <1>7, <2>2, TotalsConstants
    <3>4. LET q == mid \o (IF x.spent \in ToSet(mid) THEN <<>> ELSE <<x.spent>>)
          IN  /\ q \in Seq(Payment) /\ ToSet(q) = ToSet(mid) \cup {x.spent} /\ IsFiniteSet(ToSet(q))
              /\ Len(q) = Cardinality(ToSet(q))
      BY <1>7, <3>1, AppendNew
    <3>. QED BY <3>2, <3>3, <3>4
  <2>. QED BY <2>1, <2>2
<1>10. sums'.apperances = Cardinality(seen' \cap confirmed)
  <2>. DEFINE a == (seen \cup {x.txid}) \cap confirmed
              b == seen' \cap confirmed
  <2>0. Unspent \notin confirmed
    BY <1>1, TotalsConstants DEF OutputsOK
  <2>1. /\ a = IF x.txid \in confirmed THEN (seen \cap confirmed) \cup {x.txid} ELSE seen \cap confirmed
        /\ b = IF x.spent \in confirmed THEN a \cup {x.spent} ELSE a
    BY <1>3, <1>5, <1>6, <2>0
  <2>2. IsFiniteSet(seen \cap confirmed) /\ Cardinality(seen \cap confirmed) \in Nat
    BY <1>4, FS_Subset, FS_CardinalityType
  <2>3. IsFiniteSet(a) /\ Cardinality(a) \in Nat /\ Cardinality(a) = Cardinality(seen \cap confirmed)
                    + (IF x.txid \in confirmed /\ x.txid \notin seen THEN 1 ELSE 0)
    <3>1. CASE x.txid \in confirmed
      <4>1. a = (seen \cap confirmed) \cup {x.txid}
        BY <2>1, <3>1
      <4>2. x.txid \in seen \cap confirmed <=> x.txid \in seen
        BY <3>1
      <4>. HIDE DEF a
      <4>3. IsFiniteSet(a) /\ Cardinality(a) = IF x.txid \in seen \cap confirmed
                  THEN Cardinality(seen \cap confirmed) ELSE Cardinality(seen \cap confirmed) + 1
        BY <2>2, <4>1, FS_AddElement
      <4>. QED BY <2>2, <3>1, <4>2, <4>3
    <3>2. CASE x.txid \notin confirmed
      <4>1. a = seen \cap confirmed
        BY <2>1, <3>2
      <4>. HIDE DEF a
      <4>. QED BY <2>2, <3>2, <4>1
    <3>. QED BY <3>1, <3>2
  <2>4. x.spent \in confirmed => (x.spent \in a <=> x.spent \in seen)
    BY <1>3
  <2>. HIDE DEF a, b
  <2>5. Cardinality(b) = Cardinality(a) + (IF x.spent \in confirmed /\ x.spent \notin seen THEN 1 ELSE 0)
    <3>1. CASE x.spent \in confirmed
      <4>1. b = a \cup {x.spent} /\ (x.spent \in a <=> x.spent \in seen)
        BY <2>1, <2>4, <3>1
      <4>2. Cardinality(b) = IF x.spent \in a THEN Cardinality(a) ELSE Cardinality(a) + 1
        BY <2>3, <4>1, FS_AddElement
      <4>. QED BY <2>3, <3>1, <4>1, <4>2
    <3>2. CASE x.spent \notin confirmed
      BY <2>1, <2>3, <3>2
    <3>. QED BY <3>1, <3>2
  <2>6. sums'.apperances = sums.apperances
                    + (IF x.txid \in confirmed /\ x.txid \notin seen THEN 1 ELSE 0)
                    + (IF x.spent \in confirmed /\ x.spent \notin seen THEN 1 ELSE 0)
    BY AddedSums DEF x
  <2>7. sums.apperances = Cardinality(seen \cap confirmed)
    BY <1>1 DEF ListOK
  <2>. QED BY <2>2, <2>3, <2>5, <2>6, <2>7 DEF b
<1>. QED BY <1>2, <1>6, <1>9, <1>10 DEF ListOK

LEMMA InitTotals == TotalsInit => TotalsInv
<1>. SUFFICES ASSUME TotalsInit PROVE TotalsInv
  OBVIOUS
<1>1. PICK n \in 0..MaxItems : txOut \in [1..n -> Item]
  BY DEF TotalsInit
<1>2. n \in Nat /\ txOut \in Seq(Item) /\ Len(txOut) = n
  BY <1>1, TotalsConstants
<1>3. ASSUME NEW i \in 1..Len(txOut)
      PROVE  /\ txOut[i].spent \in confirmed => txOut[i].txid \in confirmed
             /\ txOut[i].spent # txOut[i].txid
  <2>1. txOut[i] \in ToSet(txOut) /\ txOut[i] \in Item
    BY <1>2 DEF ToSet
  <2>2. AgreesWithItself(txOut, confirmed)
    BY DEF TotalsInit
  <2>3. PICK rank \in [Payment -> 1..Cardinality(Payment)] :
           \A x \in ToSet(txOut) : x.spent # Unspent => rank[x.txid] < rank[x.spent]
    BY <2>2 DEF AgreesWithItself
  <2>4. rank[txOut[i].txid] \in 1..Cardinality(Payment) /\ Cardinality(Payment) \in Nat
    BY <2>1, <2>3, TotalsConstants, FS_CardinalityType DEF Item
  <2>5. txOut[i].txid # Unspent
    BY <2>1, TotalsConstants DEF Item
  <2>6. txOut[i].spent # txOut[i].txid
    BY <2>1, <2>3, <2>4, <2>5
  <2>. QED BY <2>1, <2>2, <2>6 DEF AgreesWithItself
<1>4. OutputsOK
  BY <1>2, <1>3 DEF TotalsInit, OutputsOK
<1>5. ConfirmedOf(0) = 0 /\ SentOf(0) = 0 /\ UnspentOf(0) = 0 /\ ComingOf(0) = 0
  <2>1. 1..0 = {}
    OBVIOUS
  <2>. QED BY <2>1, SumOfNone DEF ConfirmedOf, SentOf, UnspentOf, ComingOf
<1>6. SumsOK
  BY <1>5 DEF TotalsInit, SumsOK, NoSums
<1>7. ListOK
  BY FS_EmptySet DEF TotalsInit, ListOK, Touching, ToSet, NoSums
<1>. QED BY <1>4, <1>6, <1>7 DEF TotalsInv

THEOREM TotalsInvariance == TotalsSpec => []TotalsInv
<1>1. TotalsInv /\ [TotalsNext]_totalsVars => TotalsInv'
  <2>. SUFFICES ASSUME TotalsInv, [TotalsNext]_totalsVars PROVE TotalsInv'
    OBVIOUS
  <2>1. CASE AddTxItem
    <3>1. OutputsOK'
      BY <2>1 DEF AddTxItem, TotalsInv, OutputsOK
    <3>. QED BY <2>1, <3>1, AddSumsOK, AddListOK DEF TotalsInv
  <2>2. CASE UNCHANGED totalsVars
    BY <2>2 DEF totalsVars, TotalsInv, OutputsOK, SumsOK, ListOK, Touching, ConfirmedOf, SentOf,
                UnspentOf, ComingOf, Sats
  <2>. QED BY <2>1, <2>2 DEF TotalsNext, AnswerTotals
<1>. QED BY <1>1, InitTotals, PTL DEF TotalsSpec

\* The sums of an address are those of their definitions, for any outputs and in any
\* order of them.
THEOREM RightSums == TotalsSpec => []SumsAreRight
<1>1. TotalsInv => SumsAreRight
  BY DEF TotalsInv, SumsOK, SumsAreRight, Value, ConfirmedOf, SentOf, UnspentOf, ComingOf, Sats
<1>. QED BY <1>1, TotalsInvariance, PTL

\* Every transaction is in the list once and counted once, in whatever roles and
\* however often it comes.
THEOREM EveryTxOnce == TotalsSpec => []EachTxOnce
<1>1. TotalsInv => EachTxOnce
  BY DEF TotalsInv, ListOK, EachTxOnce
<1>. QED BY <1>1, TotalsInvariance, PTL
==============================================================================
