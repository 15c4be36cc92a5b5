-------------------------- MODULE ExperimentProofs --------------------------
(***************************************************************************)
(* Theorems about Experiment for any seeds, any number of generations, any *)
(* batch, budget and elite, any rewards and any failures: the budget is an *)
(* exact count, the ledger is the run's history, ancestry is closed, no    *)
(* program is evaluated twice, and parents are the best of all trials.     *)
(***************************************************************************)
EXTENDS Experiment, FiniteSetTheorems, FunctionTheorems, SequenceTheorems,
        WellFoundedInduction, TLAPS

(* The trials there are after so many generations. *)
Quota(generations) == Smaller(Budget, generations * BatchSize)

(* How far the count of the trials is. *)
Counted ==
  /\ BudgetIsExact
  /\ pc \in {"propose", "backtest"} => Len(trials) = Quota(generation)
  /\ pc = "backtest" => Len(batch) = Size /\ generation < Generations
  /\ pc = "record" => Len(trials) = Quota(generation + 1) /\ generation < Generations
  /\ pc \in {"propose", "record", "done"} => batch = <<>>

(* Which trials are of which generation, and which have their record. *)
Recorded ==
  /\ LedgerIsHistory
  /\ pc \in {"propose", "backtest", "done"} => Len(records) = Len(trials)
  /\ pc \in {"propose", "backtest"} =>
       \A i \in 1..Len(trials) : trials[i].generation < generation
  /\ pc = "record" =>
       /\ \A i \in 1..Len(trials) : trials[i].generation <= generation
       /\ \A i \in (Len(records) + 1)..Len(trials) : trials[i].generation = generation

(* Which scores the parents were chosen by. *)
Ranked ==
  /\ pc \in {"propose", "record"} => Len(rewards) = Len(trials)
  /\ pc = "propose" => parents = Elite

(* Where the parents of the batch under way are. *)
Descended ==
  /\ LineageIsClosed
  /\ pc = "backtest" =>
       \A i \in 1..Len(batch) :
         batch[i].parent \subseteq Seen \union {batch[j].program : j \in 1..(i - 1)}

(* No program is both in the batch and among the trials, or twice in either. *)
Distinct ==
  /\ NoProgramTwice
  /\ pc = "backtest" =>
       /\ \A i, j \in 1..Len(batch) : batch[i].program = batch[j].program => i = j
       /\ \A i \in 1..Len(batch) : batch[i].program \notin Seen

IInv == TypeOK /\ Counted /\ Recorded /\ Ranked /\ Descended /\ Distinct
-----------------------------------------------------------------------------
(* Ranks in a finite set, by a strict total order given as a set of pairs. *)

Orders(R, S) ==
  /\ \A x \in S : <<x, x>> \notin R
  /\ \A x, y, z \in S : <<x, y>> \in R /\ <<y, z>> \in R => <<x, z>> \in R
  /\ \A x, y \in S : x # y => <<x, y>> \in R \/ <<y, x>> \in R

Place(x, R, S) == Cardinality(SetLessThan(x, R, S))

(* An element comes before another exactly if its place does, and places   *)
(* are numbers below the size of the set.                                  *)
LEMMA PlacesOrdered ==
  ASSUME NEW S, IsFiniteSet(S), NEW R, Orders(R, S)
  PROVE  /\ \A x \in S : Place(x, R, S) \in 0..(Cardinality(S) - 1)
         /\ \A x, y \in S : <<x, y>> \in R <=> Place(x, R, S) < Place(y, R, S)
<1> DEFINE below(x) == SetLessThan(x, R, S)
<1>1. \A x \in S : IsFiniteSet(below(x)) /\ Place(x, R, S) \in Nat
  <2> SUFFICES ASSUME NEW x \in S PROVE IsFiniteSet(below(x)) /\ Place(x, R, S) \in Nat
    OBVIOUS
  <2>1. below(x) \in SUBSET S
    BY DEF SetLessThan
  <2>2. IsFiniteSet(below(x))
    BY <2>1, FS_Subset
  <2> QED  BY <2>2, FS_CardinalityType DEF Place
<1>2. Cardinality(S) \in Nat
  BY FS_CardinalityType
<1>3. ASSUME NEW x \in S PROVE Place(x, R, S) < Cardinality(S)
  <2>1. below(x) \in SUBSET S /\ x \notin below(x)
    BY DEF SetLessThan, Orders
  <2>2. Cardinality(below(x)) <= Cardinality(S) /\ Cardinality(S) # Cardinality(below(x))
    BY <2>1, FS_Subset
  <2>3. Place(x, R, S) = Cardinality(below(x))
    BY DEF Place
  <2> HIDE DEF below
  <2> QED  BY <1>1, <1>2, <2>2, <2>3
<1>4. ASSUME NEW x \in S, NEW y \in S, <<x, y>> \in R
      PROVE  Place(x, R, S) < Place(y, R, S)
  <2>1. below(x) \in SUBSET below(y)
    BY <1>4 DEF SetLessThan, Orders
  <2>2. x \in below(y) /\ x \notin below(x)
    BY <1>4 DEF SetLessThan, Orders
  <2>3. Cardinality(below(x)) <= Cardinality(below(y)) /\ Cardinality(below(y)) # Cardinality(below(x))
    <3> HIDE DEF below
    <3> QED  BY <1>1, <2>1, <2>2, FS_Subset
  <2>4. Place(x, R, S) = Cardinality(below(x)) /\ Place(y, R, S) = Cardinality(below(y))
    BY DEF Place
  <2> HIDE DEF below
  <2> QED  BY <1>1, <2>3, <2>4
<1>5. ASSUME NEW x \in S, NEW y \in S, Place(x, R, S) < Place(y, R, S)
      PROVE  <<x, y>> \in R
  <2>1. x # y
    BY <1>1, <1>5
  <2>2. ~ (<<y, x>> \in R)
    BY <1>1, <1>4, <1>5
  <2> QED  BY <2>1, <2>2 DEF Orders
<1> QED  BY <1>1, <1>2, <1>3, <1>4, <1>5

(* Every place below the size of the set is somebody's, and nobody else's. *)
LEMMA PlacesFilled ==
  ASSUME NEW S, IsFiniteSet(S), NEW R, Orders(R, S)
  PROVE  /\ \A x, y \in S : Place(x, R, S) = Place(y, R, S) => x = y
         /\ \A k \in 0..(Cardinality(S) - 1) : \E x \in S : Place(x, R, S) = k
<1> DEFINE n == Cardinality(S)
           T == 0..(n - 1)
           f == [x \in S |-> Place(x, R, S)]
<1>1. n \in Nat
  BY FS_CardinalityType
<1>2. f \in [S -> T]
  BY PlacesOrdered
<1>3. \A x, y \in S : f[x] = f[y] => x = y
  <2> SUFFICES ASSUME NEW x \in S, NEW y \in S, x # y PROVE f[x] # f[y]
    OBVIOUS
  <2>1. Place(x, R, S) < Place(y, R, S) \/ Place(y, R, S) < Place(x, R, S)
    BY PlacesOrdered DEF Orders
  <2>2. Place(x, R, S) \in Int /\ Place(y, R, S) \in Int
    BY PlacesOrdered
  <2> QED  BY <2>1, <2>2
<1>4. f \in Injection(S, T)
  <2> HIDE DEF f, T
  <2> QED  BY <1>2, <1>3, Fun_IsInj
<1>5. IsFiniteSet(T) /\ Cardinality(T) = n
  <2> HIDE DEF n
  <2>1. 0 \in Int /\ n - 1 \in Int
    BY <1>1
  <2>2. Cardinality(T) = IF 0 > n - 1 THEN 0 ELSE n - 1 - 0 + 1
    BY <2>1, FS_Interval
  <2>3. IsFiniteSet(T)
    BY <2>1, FS_Interval
  <2> QED  BY <1>1, <2>2, <2>3
<1>6. f \in Surjection(S, T)
  <2> HIDE DEF f, T
  <2> QED  BY <1>4, <1>5, FS_Injection
<1>7. \A k \in T : \E x \in S : f[x] = k
  <2> HIDE DEF f, T
  <2> QED  BY <1>6 DEF Surjection
<1> QED  BY <1>3, <1>7

(* The elements of the first m places: as many as there can be. *)
LEMMA FirstPlaces ==
  ASSUME NEW S, IsFiniteSet(S), NEW R, Orders(R, S), NEW m \in Nat
  PROVE  LET T == {x \in S : Place(x, R, S) < m}
         IN  IsFiniteSet(T) /\ Cardinality(T) = Smaller(m, Cardinality(S))
<1> DEFINE n == Cardinality(S)
           T == {x \in S : Place(x, R, S) < m}
           l == Smaller(m, n)
           U == 0..(l - 1)
           f == [x \in T |-> Place(x, R, S)]
<1>1. n \in Nat /\ l \in Nat /\ l <= m /\ l <= n /\ (l = m \/ l = n)
  BY FS_CardinalityType DEF Smaller
<1>2. f \in [T -> U]
  <2> SUFFICES ASSUME NEW x \in T PROVE Place(x, R, S) \in U
    OBVIOUS
  <2>1. Place(x, R, S) \in 0..(n - 1) /\ Place(x, R, S) < m
    BY PlacesOrdered
  <2> HIDE DEF n, l
  <2> QED  BY <1>1, <2>1
<1>3. \A x, y \in T : f[x] = f[y] => x = y
  BY PlacesFilled
<1>4. f \in Injection(T, U)
  <2> HIDE DEF f, T, U
  <2> QED  BY <1>2, <1>3, Fun_IsInj
<1>5. IsFiniteSet(U) /\ Cardinality(U) = l
  <2> HIDE DEF l
  <2>1. 0 \in Int /\ l - 1 \in Int
    BY <1>1
  <2>2. Cardinality(U) = IF 0 > l - 1 THEN 0 ELSE l - 1 - 0 + 1
    BY <2>1, FS_Interval
  <2>3. IsFiniteSet(U)
    BY <2>1, FS_Interval
  <2> QED  BY <1>1, <2>2, <2>3
<1>6. \A k \in U : \E x \in T : f[x] = k
  <2> SUFFICES ASSUME NEW k \in U PROVE \E x \in T : Place(x, R, S) = k
    OBVIOUS
  <2>1. k \in 0..(n - 1) /\ k < m
    <3> HIDE DEF n, l
    <3> QED  BY <1>1
  <2>2. PICK x \in S : Place(x, R, S) = k
    BY <2>1, PlacesFilled
  <2> QED  BY <2>1, <2>2
<1>7. f \in Surjection(T, U)
  <2> HIDE DEF f, T, U
  <2> QED  BY <1>2, <1>6, Fun_IsSurj
<1>8. IsFiniteSet(T) /\ Cardinality(T) = Cardinality(U)
  <2> HIDE DEF f, T, U
  <2> QED  BY <1>4, <1>5, <1>7, FS_Injection
<1> QED  BY <1>5, <1>8
-----------------------------------------------------------------------------
(* The ranking of the trials and the seeds that are taken.                 *)

Ranking == {p \in (1..Len(trials)) \X (1..Len(trials)) : Ahead(p[1], p[2])}
SeedOrder == {p \in FreshSeeds \X FreshSeeds : p[1] < p[2]}

(* The numbers up to n are n. *)
LEMMA NumbersCounted ==
  ASSUME NEW n \in Nat
  PROVE  IsFiniteSet(1..n) /\ Cardinality(1..n) = n
<1>1. 1 \in Int /\ n \in Int
  OBVIOUS
<1>2. IsFiniteSet(1..n) /\ Cardinality(1..n) = IF 1 > n THEN 0 ELSE n - 1 + 1
  BY <1>1, FS_Interval
<1> QED  BY <1>2

(* A scored group has a number for every trial. *)
LEMMA GroupScored ==
  ASSUME TypeOK, Len(rewards) = Len(trials)
  PROVE  Len(trials) \in Nat /\ \A i \in 1..Len(trials) : rewards[i] \in Nat
<1>1. rewards \in Seq(Rewards) /\ Len(rewards) \in Nat /\ Rewards \subseteq Nat
  BY ExperimentAssumption DEF TypeOK
<1>2. \A i \in 1..Len(rewards) : rewards[i] \in Rewards
  BY <1>1
<1> QED  BY <1>1, <1>2

(* Trials of a scored group are ranked, with no ties. *)
LEMMA RankingOrders ==
  ASSUME TypeOK, Len(rewards) = Len(trials)
  PROVE  Orders(Ranking, 1..Len(trials))
<1>1. Len(trials) \in Nat /\ \A i \in 1..Len(trials) : rewards[i] \in Nat
  BY GroupScored
<1>2. \A i, j \in 1..Len(trials) : <<i, j>> \in Ranking <=> Ahead(i, j)
  BY DEF Ranking
<1>3. \A i \in 1..Len(trials) : ~ Ahead(i, i)
  BY <1>1 DEF Ahead
<1>4. \A i, j, k \in 1..Len(trials) : Ahead(i, j) /\ Ahead(j, k) => Ahead(i, k)
  BY <1>1 DEF Ahead
<1>5. \A i, j \in 1..Len(trials) : i # j => Ahead(i, j) \/ Ahead(j, i)
  BY <1>1 DEF Ahead
<1> HIDE DEF Ranking
<1> QED  BY <1>2, <1>3, <1>4, <1>5 DEF Orders

(* The elite are the first trials of the ranking. *)
LEMMA EliteIsFirst ==
  ASSUME TypeOK, Len(rewards) = Len(trials)
  PROVE  /\ Elite = {i \in 1..Len(trials) : Place(i, Ranking, 1..Len(trials)) < EliteCount}
         /\ Elite \subseteq 1..Len(trials)
         /\ Cardinality(Elite) = Smaller(EliteCount, Len(trials))
         /\ \A i \in Elite : \A j \in (1..Len(trials)) \ Elite : rewards[i] >= rewards[j]
<1> DEFINE S == 1..Len(trials)
<1>1. Len(trials) \in Nat /\ \A i \in S : rewards[i] \in Nat
  BY GroupScored
<1>2. IsFiniteSet(S) /\ Cardinality(S) = Len(trials)
  BY <1>1, NumbersCounted
<1>3. Orders(Ranking, S)
  BY RankingOrders
<1>4. ASSUME NEW i \in S
      PROVE  Place(i, Ranking, S) = Cardinality({j \in S : Ahead(j, i)})
  <2>1. SetLessThan(i, Ranking, S) = {j \in S : Ahead(j, i)}
    BY DEF SetLessThan, Ranking
  <2> QED  BY <2>1 DEF Place
<1>5. Elite = {i \in S : Place(i, Ranking, S) < EliteCount}
  BY <1>4 DEF Elite
<1>6. EliteCount \in Nat
  BY ExperimentAssumption
<1>7. Cardinality(Elite) = Smaller(EliteCount, Len(trials))
  BY <1>2, <1>3, <1>5, <1>6, FirstPlaces
<1>8. ASSUME NEW i \in Elite, NEW j \in S \ Elite
      PROVE  rewards[i] >= rewards[j]
  <2>1. i \in S /\ Place(i, Ranking, S) < EliteCount /\ ~ (Place(j, Ranking, S) < EliteCount)
    BY <1>5
  <2>2. Place(i, Ranking, S) \in Int /\ Place(j, Ranking, S) \in Int
    BY <1>2, <1>3, <2>1, PlacesOrdered
  <2>3. Place(i, Ranking, S) < Place(j, Ranking, S)
    BY <1>6, <2>1, <2>2
  <2>4. <<i, j>> \in Ranking
    BY <1>2, <1>3, <2>1, <2>3, PlacesOrdered
  <2>5. Ahead(i, j)
    BY <2>4 DEF Ranking
  <2> QED  BY <1>1, <2>1, <2>5 DEF Ahead
<1> QED  BY <1>5, <1>7, <1>8

(* The fresh seeds in their order. *)
LEMMA SeedsOrdered ==
  /\ FreshSeeds \subseteq 1..Len(Seeds) /\ IsFiniteSet(FreshSeeds)
  /\ Cardinality(FreshSeeds) \in Nat
  /\ Orders(SeedOrder, FreshSeeds)
  /\ \A i \in FreshSeeds : Before(i) = Place(i, SeedOrder, FreshSeeds)
<1>1. Len(Seeds) \in Nat
  BY ExperimentAssumption
<1>2. FreshSeeds \in SUBSET (1..Len(Seeds)) /\ IsFiniteSet(1..Len(Seeds))
  BY <1>1, FS_Interval DEF FreshSeeds
<1>3. IsFiniteSet(FreshSeeds)
  BY <1>2, FS_Subset
<1>4. Orders(SeedOrder, FreshSeeds)
  <2>1. FreshSeeds \subseteq Int
    BY <1>1, <1>2
  <2> QED  BY <2>1 DEF Orders, SeedOrder
<1>5. ASSUME NEW i \in FreshSeeds PROVE Before(i) = Place(i, SeedOrder, FreshSeeds)
  <2>1. SetLessThan(i, SeedOrder, FreshSeeds) = {j \in FreshSeeds : j < i}
    BY DEF SetLessThan, SeedOrder
  <2> QED  BY <2>1 DEF Before, Place
<1> QED  BY <1>2, <1>3, <1>4, <1>5, FS_CardinalityType

(* Every seed program is that of a fresh seed, its first occurrence. *)
LEMMA SeedsFresh ==
  ASSUME NEW i \in 1..Len(Seeds)
  PROVE  \E j \in FreshSeeds : Seeds[j] = Seeds[i]
<1> DEFINE T == {j \in 1..Len(Seeds) : Seeds[j] = Seeds[i]}
           less == OpToRel(<, Nat)
<1>1. Len(Seeds) \in Nat
  BY ExperimentAssumption
<1>2. T \subseteq Nat /\ T # {}
  BY <1>1
<1>3. PICK j \in T : \A k \in T : ~ (<<k, j>> \in less)
  <2> HIDE DEF T, less
  <2>1. IsWellFoundedOn(less, Nat)
    BY NatLessThanWellFounded DEF less
  <2> QED  BY <1>2, <2>1, WFMin
<1>4. \A k \in T : ~ (k < j)
  <2> SUFFICES ASSUME NEW k \in T, k < j PROVE FALSE
    OBVIOUS
  <2>1. k \in Nat /\ j \in Nat
    BY <1>2
  <2>2. <<k, j>> \in less
    BY <2>1 DEF OpToRel
  <2> QED  BY <1>3, <2>2
<1>5. \A k \in 1..(j - 1) : Seeds[k] # Seeds[j]
  <2> SUFFICES ASSUME NEW k \in 1..(j - 1), Seeds[k] = Seeds[j] PROVE FALSE
    OBVIOUS
  <2>1. k \in T /\ k < j
    BY <1>1
  <2> QED  BY <1>4, <2>1
<1>6. j \in FreshSeeds
  BY <1>5 DEF FreshSeeds
<1> QED  BY <1>6

(* The seeds of a batch of n places: at most n, one for each place that    *)
(* they fill, and all of them when they do not fill it.                    *)
LEMMA SeedsTaken ==
  ASSUME NEW n \in Nat
  PROVE  /\ TakenSeeds(n) \subseteq FreshSeeds
         /\ Cardinality(TakenSeeds(n)) \in 0..n
         /\ \A k \in 1..Cardinality(TakenSeeds(n)) :
              \E i \in TakenSeeds(n) : Before(i) = k - 1
         /\ \A i, j \in FreshSeeds : Before(i) = Before(j) => i = j
         /\ Cardinality(TakenSeeds(n)) < n =>
              \A i \in FreshSeeds : i \in TakenSeeds(n) /\ Before(i) \in 0..(Cardinality(TakenSeeds(n)) - 1)
<1> DEFINE S == FreshSeeds
           c == Cardinality(FreshSeeds)
           t == Cardinality(TakenSeeds(n))
<1>1. TakenSeeds(n) = {i \in S : Place(i, SeedOrder, S) < n}
  BY SeedsOrdered DEF TakenSeeds
<1>2. t = Smaller(n, c) /\ c \in Nat
  BY <1>1, SeedsOrdered, FirstPlaces
<1>3. \A i \in S : Before(i) \in 0..(c - 1)
  BY SeedsOrdered, PlacesOrdered
<1>4. \A k \in 0..(c - 1) : \E i \in S : Before(i) = k
  <2> SUFFICES ASSUME NEW k \in 0..(c - 1) PROVE \E i \in S : Before(i) = k
    OBVIOUS
  <2>1. PICK i \in S : Place(i, SeedOrder, S) = k
    BY SeedsOrdered, PlacesFilled
  <2> QED  BY <2>1, SeedsOrdered
<1>5. \A i, j \in S : Before(i) = Before(j) => i = j
  BY SeedsOrdered, PlacesFilled
<1> HIDE DEF c, t, S
<1>6. t \in 0..n /\ t <= c /\ (t < n => t = c)
  BY <1>2 DEF Smaller
<1>7. ASSUME NEW k \in 1..t PROVE \E i \in TakenSeeds(n) : Before(i) = k - 1
  <2>1. k - 1 \in 0..(c - 1) /\ k - 1 < n
    BY <1>2, <1>6
  <2>2. PICK i \in S : Before(i) = k - 1
    BY <1>4, <2>1
  <2> QED  BY <2>1, <2>2 DEF TakenSeeds, S
<1>8. ASSUME t < n, NEW i \in S PROVE i \in TakenSeeds(n) /\ Before(i) \in 0..(t - 1)
  <2>1. Before(i) \in 0..(t - 1) /\ Before(i) < n
    BY <1>2, <1>3, <1>6, <1>8
  <2> QED  BY <2>1 DEF TakenSeeds, S
<1> QED  BY <1>5, <1>6, <1>7, <1>8 DEF TakenSeeds, S, t
-----------------------------------------------------------------------------
(* Budget arithmetic.                                                      *)

(* A batch takes the trials from the quota of one generation to the next. *)
LEMMA QuotaGrows ==
  ASSUME NEW g \in Nat
  PROVE  /\ Quota(g) \in 0..Budget
         /\ Quota(0) = 0
         /\ g > 0 => Quota(g) > 0
         /\ Quota(g + 1) = Quota(g) + Smaller(BatchSize, Budget - Quota(g))
<1>1. BatchSize \in Nat \ {0} /\ Budget \in Nat \ {0}
  BY ExperimentAssumption
<1> DEFINE n == g * BatchSize
<1>2. n \in Nat /\ (g + 1) * BatchSize = n + BatchSize /\ 0 * BatchSize = 0
  BY <1>1
<1>3. g > 0 => n > 0
  <2> SUFFICES ASSUME g > 0 PROVE n > 0
    OBVIOUS
  <2>1. g - 1 \in Nat /\ n = (g - 1) * BatchSize + BatchSize
    BY <1>1
  <2>2. (g - 1) * BatchSize \in Nat
    BY <1>1, <2>1
  <2> HIDE DEF n
  <2> QED  BY <1>1, <2>1, <2>2
<1>4. /\ Quota(g) = Smaller(Budget, n) /\ Quota(0) = Smaller(Budget, 0)
      /\ Quota(g + 1) = Smaller(Budget, n + BatchSize)
  BY <1>2 DEF Quota
<1> HIDE DEF n
<1> QED  BY <1>1, <1>2, <1>3, <1>4 DEF Smaller

(* The quota does not grow beyond the budget, nor shrink. *)
LEMMA QuotaFull ==
  ASSUME NEW g \in 0..Generations, Quota(g) >= Budget \/ g = Generations
  PROVE  /\ Quota(g) = Smaller(Budget, Generations * BatchSize)
         /\ Quota(g) >= Budget <=> Generations * BatchSize >= Budget
<1>1. BatchSize \in Nat \ {0} /\ Budget \in Nat \ {0} /\ Generations \in Nat
  BY ExperimentAssumption
<1> DEFINE n == g * BatchSize
           rest == (Generations - g) * BatchSize
           all == Generations * BatchSize
<1>2. n \in Nat /\ rest \in Nat /\ all = n + rest /\ (g = Generations => rest = 0)
  BY <1>1
<1>3. Quota(g) = Smaller(Budget, n)
  BY DEF Quota
<1>4. g = Generations => n = all
  OBVIOUS
<1> HIDE DEF n, rest, all
<1>5. Quota(g) = Smaller(Budget, all) /\ (Quota(g) >= Budget <=> all >= Budget)
  BY <1>1, <1>2, <1>3, <1>4 DEF Smaller
<1> QED  BY <1>5 DEF all

-----------------------------------------------------------------------------
(* What propose() returns.                                                 *)

(* The sizes of a batch about to be proposed. *)
LEMMA SizeTyped ==
  ASSUME IInv, pc = "propose", More
  PROVE  /\ Size \in Nat \ {0} /\ Size = Smaller(BatchSize, Budget - Quota(generation))
         /\ generation \in Nat /\ generation < Generations
         /\ Len(trials) \in Nat /\ Len(trials) = Quota(generation)
         /\ Len(trials) + Size <= Budget
         /\ trials # <<>> => parents # {}
         /\ generation > 0 => trials # <<>>
<1>1. /\ BatchSize \in Nat \ {0} /\ Budget \in Nat \ {0} /\ Generations \in Nat
      /\ EliteCount \in Nat \ {0}
  BY ExperimentAssumption
<1>2. generation \in Nat /\ generation < Generations /\ Len(trials) \in Nat
  BY <1>1 DEF IInv, TypeOK, More
<1>3. Len(trials) = Quota(generation) /\ Quota(generation) \in 0..Budget
  BY <1>2, QuotaGrows DEF IInv, Counted
<1>4. Size = Smaller(BatchSize, Budget - Quota(generation)) /\ Budget - Quota(generation) > 0
  BY <1>3 DEF Size, Remaining, More
<1>5. Size \in Nat \ {0} /\ Len(trials) + Size <= Budget
  BY <1>1, <1>2, <1>3, <1>4 DEF Smaller
<1>6. ASSUME trials # <<>> PROVE parents # {}
  <2>1. Len(trials) > 0
    BY <1>6 DEF IInv, TypeOK
  <2>2. parents = Elite /\ Cardinality(Elite) = Smaller(EliteCount, Len(trials))
    BY EliteIsFirst DEF IInv, Ranked
  <2>3. Cardinality(Elite) > 0
    BY <1>1, <1>2, <2>1, <2>2 DEF Smaller
  <2>4. Cardinality({}) = 0
    BY FS_EmptySet
  <2> QED  BY <2>2, <2>3, <2>4
<1>7. ASSUME generation > 0 PROVE trials # <<>>
  <2>1. Len(trials) > 0
    BY <1>2, <1>3, <1>7, QuotaGrows
  <2> QED  BY <2>1
<1> QED  BY <1>2, <1>3, <1>4, <1>5, <1>6, <1>7

(* The seeds come first: no more than fit, without a parent, and in the    *)
(* first generation all of them unless they fill the batch.                *)
LEMMA SeedsProposed ==
  ASSUME generation \in Nat, Size \in Nat
  PROVE  /\ NewSeeds \in Seq(Programs) /\ Len(NewSeeds) \in 0..Size
         /\ \A k \in 1..Len(NewSeeds) : NewSeeds[k].parent = {}
         /\ generation = 0 /\ Len(NewSeeds) < Size =>
              \A i \in 1..Len(Seeds) :
                \E k \in 1..Len(NewSeeds) : NewSeeds[k].program = Seeds[i]
<1>1. CASE generation > 0
  <2>1. NewSeeds = <<>>
    BY <1>1 DEF NewSeeds, SeedProposals
  <2> QED  BY <1>1, <2>1
<1>2. CASE ~ (generation > 0)
  <2> DEFINE t == Cardinality(TakenSeeds(Size))
             seed(k) == CHOOSE i \in TakenSeeds(Size) : Before(i) = k - 1
             s == [k \in 1..t |-> [program |-> Seeds[seed(k)], parent |-> {}]]
  <2>1. NewSeeds = s
    BY <1>2 DEF NewSeeds, SeedProposals
  <2>2. t \in 0..Size
    BY SeedsTaken
  <2>3. ASSUME NEW k \in 1..t
        PROVE  seed(k) \in TakenSeeds(Size) /\ Before(seed(k)) = k - 1
    <3>1. \E i \in TakenSeeds(Size) : Before(i) = k - 1
      BY SeedsTaken
    <3> QED  BY <3>1
  <2>4. ASSUME NEW k \in 1..t PROVE Seeds[seed(k)] \in Nat
    <3>1. seed(k) \in 1..Len(Seeds)
      BY <2>3, SeedsOrdered, SeedsTaken
    <3> HIDE DEF seed
    <3> QED  BY <3>1, ExperimentAssumption
  <2> HIDE DEF seed, t
  <2>5. s \in [1..t -> Programs]
    BY <2>4 DEF Programs
  <2>6. s \in Seq(Programs) /\ Len(s) = t
    <3> HIDE DEF s
    <3> QED  BY <2>2, <2>5
  <2>7. \A k \in 1..t : s[k].parent = {} /\ s[k].program = Seeds[seed(k)]
    OBVIOUS
  <2> HIDE DEF s
  <2>8. ASSUME t < Size, NEW i \in 1..Len(Seeds)
        PROVE  \E k \in 1..t : s[k].program = Seeds[i]
    <3>1. PICK j \in FreshSeeds : Seeds[j] = Seeds[i]
      BY SeedsFresh
    <3>2. j \in TakenSeeds(Size) /\ Before(j) \in 0..(t - 1)
      BY <2>8, SeedsTaken DEF t
    <3>3. PICK k \in 1..t : k - 1 = Before(j)
      <4>1. PICK k \in Int : k = Before(j) + 1
        BY <2>2, <3>2
      <4>2. k \in 1..t /\ k - 1 = Before(j)
        BY <2>2, <3>2, <4>1
      <4> QED  BY <4>2
    <3>4. seed(k) = j
      <4>1. seed(k) \in FreshSeeds /\ Before(seed(k)) = Before(j)
        BY <2>3, <3>3, SeedsTaken
      <4> QED  BY <4>1, <3>1, SeedsTaken
    <3> QED  BY <2>7, <3>1, <3>4
  <2> QED  BY <2>1, <2>2, <2>6, <2>7, <2>8
<1> QED  BY <1>1, <1>2

(* The programs of the trials. *)
LEMMA SeenTyped ==
  ASSUME TypeOK
  PROVE  Seen \subseteq Nat /\ \A i \in 1..Len(trials) : trials[i].program \in Seen
<1>1. \A i \in 1..Len(trials) : trials[i] \in Trials
  BY DEF TypeOK
<1> QED  BY <1>1 DEF Trials, Seen

(* A mutant is a program made from one of the parents or seeds. *)
LEMMA MutantsTyped ==
  ASSUME TypeOK, NEW m \in Mutants
  PROVE  /\ m \in Programs
         /\ \E parent \in ParentPrograms : m.parent = {parent}
<1>1. ParentPrograms \subseteq Nat
  <2>1. \A i \in parents : trials[i].program \in Nat
    BY SeenTyped DEF TypeOK
  <2>2. \A i \in 1..Len(Seeds) : Seeds[i] \in Nat
    BY ExperimentAssumption
  <2> QED  BY <2>1, <2>2 DEF ParentPrograms
<1>2. PICK parent \in ParentPrograms : \E program \in Replacements(parent) :
         m = [program |-> program, parent |-> {parent}]
  BY DEF Mutants
<1>3. PICK program \in Replacements(parent) : m = [program |-> program, parent |-> {parent}]
  BY <1>2
<1>4. program \in Nat
  <2>1. parent \in Nat
    BY <1>1
  <2>2. /\ (IF parent = 0 THEN 0 ELSE parent - 1) \in Nat
        /\ parent + 1 \in Nat /\ parent \div 2 \in Nat /\ parent * 2 \in Nat
    BY <2>1
  <2> QED  BY <2>2 DEF Replacements
<1>5. {parent} \in SUBSET Nat
  BY <1>1
<1> QED  BY <1>3, <1>4, <1>5 DEF Programs

(* A batch is full and new, and its parents come before their children. *)
LEMMA BatchProposed ==
  ASSUME IInv, pc = "propose", More, NEW b \in Proposals
  PROVE  /\ b \in Seq(Programs) /\ Len(b) = Size
         /\ \A i, j \in 1..Len(b) : b[i].program = b[j].program => i = j
         /\ \A i \in 1..Len(b) : b[i].program \notin Seen
         /\ \A i \in 1..Len(b) : b[i].parent \subseteq Seen \union {b[j].program : j \in 1..(i - 1)}
<1> DEFINE filled == Len(NewSeeds)
<1>1. /\ Size \in Nat /\ generation \in Nat /\ TypeOK
      /\ NewSeeds \in Seq(Programs) /\ filled \in 0..Size
  BY SizeTyped, SeedsProposed DEF IInv
<1>2. PICK f \in [1..(Size - filled) -> Mutants] : b = NewSeeds \o f
  BY DEF Proposals
<1>3. /\ \A i, j \in 1..Len(b) : b[i].program = b[j].program => i = j
      /\ \A i \in 1..Len(b) : b[i].program \notin Seen
  BY DEF Proposals
<1>4. Mutants \subseteq Programs
  BY <1>1, MutantsTyped
<1>5. f \in Seq(Mutants) /\ f \in Seq(Programs) /\ Len(f) = Size - filled
  <2> HIDE DEF filled
  <2>1. Size - filled \in Nat
    BY <1>1
  <2>2. f \in Seq(Mutants) /\ Len(f) = Size - filled
    BY <1>2, <2>1
  <2>3. f \in [1..(Size - filled) -> Programs]
    BY <1>2, <1>4
  <2> QED  BY <2>1, <2>2, <2>3
<1>6. /\ b \in Seq(Programs) /\ Len(b) = Size
      /\ \A i \in 1..filled : b[i] = NewSeeds[i]
      /\ \A i \in 1..Len(b) : i \notin 1..filled => i - filled \in 1..Len(f) /\ b[i] = f[i - filled]
  BY <1>1, <1>2, <1>5
<1>7. ASSUME NEW i \in 1..Len(b)
      PROVE  b[i].parent \subseteq Seen \union {b[j].program : j \in 1..(i - 1)}
  <2>1. CASE i \in 1..filled
    <3>1. b[i].parent = {}
      BY <1>1, <1>6, <2>1, SeedsProposed
    <3> QED  BY <3>1
  <2>2. CASE i \notin 1..filled
    <3>1. b[i] \in Mutants /\ filled < i /\ filled < Size
      <4>1. b[i] = f[i - filled] /\ i - filled \in 1..Len(f)
        BY <1>6, <2>2
      <4>2. f[i - filled] \in Mutants
        BY <1>5, <4>1
      <4>3. filled < i /\ filled < Size
        <5> HIDE DEF filled
        <5> QED  BY <1>1, <1>6, <2>2
      <4> QED  BY <4>1, <4>2, <4>3
    <3>2. PICK parent \in ParentPrograms : b[i].parent = {parent}
      BY <1>1, <3>1, MutantsTyped
    <3>3. CASE parents # {}
      <4>1. parent \in Seen
        BY <3>3, <1>1 DEF ParentPrograms, Seen, TypeOK
      <4> QED  BY <3>2, <4>1
    <3>4. CASE parents = {}
      <4>1. generation = 0
        BY <1>1, <3>4, SizeTyped
      <4>2. PICK m \in 1..Len(Seeds) : parent = Seeds[m]
        BY <3>4 DEF ParentPrograms
      <4>3. PICK k \in 1..filled : NewSeeds[k].program = Seeds[m]
        BY <1>1, <3>1, <4>1, SeedsProposed
      <4>4. k \in 1..(i - 1) /\ b[k].program = parent
        <5>1. b[k] = NewSeeds[k]
          BY <1>6
        <5>2. k \in 1..(i - 1)
          <6> HIDE DEF filled
          <6> QED  BY <1>1, <3>1
        <5> QED  BY <4>2, <4>3, <5>1, <5>2
      <4> QED  BY <3>2, <4>4
    <3> QED  BY <3>3, <3>4
  <2> QED  BY <2>1, <2>2
<1> QED  BY <1>3, <1>6, <1>7
-----------------------------------------------------------------------------
(* The steps.                                                              *)

(* The invariant holds before the first step. *)
LEMMA InitHolds == Init => IInv
<1> SUFFICES ASSUME Init PROVE IInv
  OBVIOUS
<1>1. Generations \in Nat /\ Budget \in Nat \ {0} /\ Quota(0) = 0
  BY ExperimentAssumption, QuotaGrows
<1>2. TypeOK
  BY <1>1 DEF Init, TypeOK
<1>3. parents = Elite
  BY DEF Init, Elite
<1>4. Counted
  BY <1>1 DEF Init, Counted, BudgetIsExact
<1>5. Recorded /\ Ranked /\ Descended /\ Distinct
  BY <1>3 DEF Init, Recorded, LedgerIsHistory, Ranked, Descended, LineageIsClosed,
              Distinct, NoProgramTwice
<1> QED  BY <1>2, <1>4, <1>5 DEF IInv

(* A batch is proposed. *)
LEMMA ProposeKeeps == ASSUME IInv, Propose PROVE IInv'
<1>1. /\ pc = "propose" /\ More /\ batch' \in Proposals /\ pc' = "backtest" /\ evaluated' = 0
      /\ UNCHANGED <<generation, trials, rewards, parents, records>>
  BY DEF Propose
<1>2. /\ batch' \in Seq(Programs) /\ Len(batch') = Size
      /\ \A i, j \in 1..Len(batch') : batch'[i].program = batch'[j].program => i = j
      /\ \A i \in 1..Len(batch') : batch'[i].program \notin Seen
      /\ \A i \in 1..Len(batch') :
           batch'[i].parent \subseteq Seen \union {batch'[j].program : j \in 1..(i - 1)}
  BY <1>1, BatchProposed
<1>3. /\ generation < Generations /\ Len(trials) + Size <= Budget /\ Len(trials) = Quota(generation)
      /\ Len(trials) \in Nat /\ Size \in Nat
  BY <1>1, SizeTyped
<1>4. Seen' = Seen /\ Size' = Size
  BY <1>1 DEF Seen, Size, Remaining
<1>5. TypeOK'
  BY <1>1, <1>2, <1>3 DEF IInv, TypeOK
<1>6. Counted'
  BY <1>1, <1>2, <1>3, <1>4 DEF Counted, BudgetIsExact
<1>7. Recorded' /\ Ranked'
  BY <1>1 DEF IInv, Recorded, LedgerIsHistory, Ranked
<1>8. Descended' /\ Distinct'
  BY <1>1, <1>2, <1>4 DEF IInv, Descended, LineageIsClosed, Distinct, NoProgramTwice
<1> QED  BY <1>5, <1>6, <1>7, <1>8 DEF IInv

(* A function on the numbers up to n is a sequence of length n. *)
LEMMA FunctionTyped ==
  ASSUME NEW S, NEW n \in Nat, NEW f \in [1..n -> S]
  PROVE  f \in Seq(S) /\ Len(f) = n
  OBVIOUS

(* A concatenation has the elements of both, the second ones shifted. *)
LEMMA ConcatTyped ==
  ASSUME NEW S, NEW s \in Seq(S), NEW t \in Seq(S)
  PROVE  /\ s \o t \in Seq(S) /\ Len(s \o t) = Len(s) + Len(t)
         /\ \A i \in 1..Len(s) : (s \o t)[i] = s[i]
         /\ \A i \in 1..Len(s \o t) : i \notin 1..Len(s) =>
              i - Len(s) \in 1..Len(t) /\ (s \o t)[i] = t[i - Len(s)]
  OBVIOUS

(* The trials with a scored or failed batch among them. *)
LEMMA TrialsExtended ==
  ASSUME IInv, pc = "backtest", trials' = trials \o NewTrials
  PROVE  /\ trials' \in Seq(Trials) /\ Len(trials) \in Nat /\ Len(batch) \in Nat
         /\ Len(trials') = Len(trials) + Len(batch)
         /\ \A i \in 1..Len(trials) : trials'[i] = trials[i]
         /\ \A i \in 1..Len(trials') : i \notin 1..Len(trials) =>
              /\ i - Len(trials) \in 1..Len(batch)
              /\ trials'[i].program = batch[i - Len(trials)].program
              /\ trials'[i].parent = batch[i - Len(trials)].parent
              /\ trials'[i].generation = generation
<1>1. /\ trials \in Seq(Trials) /\ batch \in Seq(Programs) /\ generation \in Nat
      /\ Len(trials) \in Nat /\ Len(batch) \in Nat
  BY ExperimentAssumption DEF IInv, TypeOK
<1>2. \A i \in 1..Len(batch) : batch[i] \in Programs
  BY <1>1
<1>3. \A i \in 1..Len(batch) : NewTrials[i] \in Trials
  BY <1>1, <1>2 DEF NewTrials, Programs, Trials
<1>4. NewTrials \in Seq(Trials) /\ Len(NewTrials) = Len(batch)
  <2>1. NewTrials \in [1..Len(batch) -> Trials]
    BY <1>3 DEF NewTrials
  <2> QED  BY <1>1, <2>1, FunctionTyped
<1>5. \A i \in 1..Len(batch) :
        /\ NewTrials[i].program = batch[i].program /\ NewTrials[i].parent = batch[i].parent
        /\ NewTrials[i].generation = generation
  BY DEF NewTrials
<1>6. /\ trials' \in Seq(Trials) /\ Len(trials') = Len(trials) + Len(batch)
      /\ \A i \in 1..Len(trials) : trials'[i] = trials[i]
      /\ \A i \in 1..Len(trials') : i \notin 1..Len(trials) =>
           i - Len(trials) \in 1..Len(batch) /\ trials'[i] = NewTrials[i - Len(trials)]
  <2> DEFINE c == trials \o NewTrials
             Joined(s, t) ==
               /\ s \o t \in Seq(Trials) /\ Len(s \o t) = Len(s) + Len(t)
               /\ \A i \in 1..Len(s) : (s \o t)[i] = s[i]
               /\ \A i \in 1..Len(s \o t) : i \notin 1..Len(s) =>
                    i - Len(s) \in 1..Len(t) /\ (s \o t)[i] = t[i - Len(s)]
  <2>1. /\ c \in Seq(Trials) /\ Len(c) = Len(trials) + Len(NewTrials)
        /\ \A i \in 1..Len(trials) : c[i] = trials[i]
        /\ \A i \in 1..Len(c) : i \notin 1..Len(trials) =>
             i - Len(trials) \in 1..Len(NewTrials) /\ c[i] = NewTrials[i - Len(trials)]
    <3>1. \A s, t \in Seq(Trials) : Joined(s, t)
      BY ConcatTyped
    <3>2. Joined(trials, NewTrials)
      <4> HIDE DEF Joined
      <4> QED  BY <1>1, <1>4, <3>1
    <3> QED  BY <3>2
  <2>2. trials' = c
    OBVIOUS
  <2> HIDE DEF c, Joined
  <2> QED  BY <1>4, <2>1, <2>2
<1>7. ASSUME NEW i \in 1..Len(trials'), i \notin 1..Len(trials)
      PROVE  /\ i - Len(trials) \in 1..Len(batch)
             /\ trials'[i].program = batch[i - Len(trials)].program
             /\ trials'[i].parent = batch[i - Len(trials)].parent
             /\ trials'[i].generation = generation
  <2>1. i - Len(trials) \in 1..Len(batch) /\ trials'[i] = NewTrials[i - Len(trials)]
    BY <1>6, <1>7
  <2> QED  BY <1>5, <2>1
<1> QED  BY <1>1, <1>6, <1>7

(* The history, ancestry and programs of the trials with the batch among   *)
(* them are those that were true of the batch.                             *)
LEMMA ExtensionKeeps ==
  ASSUME IInv, pc = "backtest", trials' = trials \o NewTrials, records' = records
  PROVE  LedgerIsHistory' /\ LineageIsClosed' /\ NoProgramTwice'
<1>1. /\ Len(trials) \in Nat /\ Len(batch) \in Nat
      /\ Len(trials') = Len(trials) + Len(batch)
      /\ \A i \in 1..Len(trials) : trials'[i] = trials[i]
      /\ \A i \in 1..Len(trials') : i \notin 1..Len(trials) =>
           /\ i - Len(trials) \in 1..Len(batch)
           /\ trials'[i].program = batch[i - Len(trials)].program
           /\ trials'[i].parent = batch[i - Len(trials)].parent
           /\ trials'[i].generation = generation
  BY TrialsExtended
<1>2. /\ generation \in Nat /\ \A i \in 1..Len(trials) : trials[i].generation \in Nat
  <2>1. \A i \in 1..Len(trials) : trials[i] \in Trials
    BY DEF IInv, TypeOK
  <2>2. generation \in Nat
    BY ExperimentAssumption DEF IInv, TypeOK
  <2> QED  BY <2>1, <2>2 DEF Trials
<1>3. LedgerIsHistory'
  <2>1. Len(records) = Len(trials) /\ \A i \in 1..Len(trials) : trials[i].generation < generation
    BY DEF IInv, Recorded
  <2>2. ASSUME NEW i \in 1..Len(trials)
        PROVE  {j \in 1..Len(trials') : trials'[j].generation <= trials'[i].generation}
                 = {j \in 1..Len(trials) : trials[j].generation <= trials[i].generation}
    <3>1. \A j \in 1..Len(trials') :
            trials'[j].generation <= trials'[i].generation <=>
              j \in 1..Len(trials) /\ trials[j].generation <= trials[i].generation
      BY <1>1, <1>2, <2>1
    <3>2. 1..Len(trials) \subseteq 1..Len(trials')
      BY <1>1
    <3> QED  BY <3>1, <3>2
  <2>3. Len(records') <= Len(trials')
    BY <1>1, <2>1
  <2>4. ASSUME NEW i \in 1..Len(records')
        PROVE  /\ records'[i].index = i - 1
               /\ records'[i].program = trials'[i].program
               /\ records'[i].parent = trials'[i].parent
               /\ records'[i].generation = trials'[i].generation
               /\ records'[i].trialCount =
                    Cardinality({j \in 1..Len(trials') : trials'[j].generation <= trials'[i].generation})
    <3>1. i \in 1..Len(trials) /\ i \in 1..Len(records) /\ records'[i] = records[i] /\ trials'[i] = trials[i]
      BY <1>1, <2>1
    <3>2. records[i].trialCount =
            Cardinality({j \in 1..Len(trials) : trials[j].generation <= trials[i].generation})
      BY <3>1 DEF IInv, Recorded, LedgerIsHistory
    <3>3. records'[i].trialCount =
            Cardinality({j \in 1..Len(trials') : trials'[j].generation <= trials'[i].generation})
      BY <2>2, <3>1, <3>2
    <3> QED  BY <3>1, <3>3 DEF IInv, Recorded, LedgerIsHistory
  <2> QED  BY <2>3, <2>4 DEF LedgerIsHistory
<1>4. ASSUME NEW x \in Seen
      PROVE  \E j \in 1..Len(trials) : trials'[j].program = x
  BY <1>1 DEF Seen
<1>5. LineageIsClosed'
  <2> SUFFICES ASSUME NEW i \in 1..Len(trials'), NEW x \in trials'[i].parent
               PROVE  \E j \in 1..(i - 1) : trials'[j].program = x
    BY DEF LineageIsClosed
  <2>1. CASE i \in 1..Len(trials)
    <3>1. x \in trials[i].parent
      BY <1>1, <2>1
    <3>2. PICK j \in 1..(i - 1) : trials[j].program = x
      BY <2>1, <3>1 DEF IInv, Descended, LineageIsClosed
    <3>3. j \in 1..Len(trials)
      BY <1>1, <2>1
    <3> QED  BY <1>1, <3>2, <3>3
  <2>2. CASE i \notin 1..Len(trials)
    <3> DEFINE k == i - Len(trials)
    <3>1. k \in 1..Len(batch) /\ x \in batch[k].parent
      BY <1>1, <2>2
    <3>2. x \in Seen \/ \E j \in 1..(k - 1) : batch[j].program = x
      BY <3>1 DEF IInv, Descended
    <3>3. CASE x \in Seen
      <4>1. PICK j \in 1..Len(trials) : trials'[j].program = x
        BY <1>4, <3>3
      <4>2. j \in 1..(i - 1)
        BY <1>1, <2>2
      <4> QED  BY <4>1, <4>2
    <3>4. ASSUME NEW j \in 1..(k - 1), batch[j].program = x
          PROVE  \E m \in 1..(i - 1) : trials'[m].program = x
      <4>1. PICK m \in 1..(i - 1) : m = Len(trials) + j
        BY <1>1, <3>1
      <4>2. m \in 1..Len(trials') /\ m \notin 1..Len(trials) /\ m - Len(trials) = j
        BY <1>1, <3>1, <4>1
      <4>3. trials'[m].program = batch[j].program
        BY <1>1, <4>2
      <4> QED  BY <3>4, <4>3
    <3> QED  BY <3>2, <3>3, <3>4
  <2> QED  BY <2>1, <2>2
<1>6. NoProgramTwice'
  <2> SUFFICES ASSUME NEW i \in 1..Len(trials'), NEW j \in 1..Len(trials'),
                      trials'[i].program = trials'[j].program
               PROVE  i = j
    BY DEF NoProgramTwice
  <2>1. \A m \in 1..Len(trials) : trials'[m].program \in Seen
    BY <1>1 DEF Seen
  <2>2. \A m \in 1..Len(trials') : m \notin 1..Len(trials) => trials'[m].program \notin Seen
    BY <1>1 DEF IInv, Distinct
  <2>3. CASE i \in 1..Len(trials) /\ j \in 1..Len(trials)
    BY <1>1, <2>3 DEF IInv, Distinct, NoProgramTwice
  <2>4. CASE i \notin 1..Len(trials) /\ j \notin 1..Len(trials)
    <3>1. i - Len(trials) = j - Len(trials)
      BY <1>1, <2>4 DEF IInv, Distinct
    <3> QED  BY <1>1, <3>1
  <2> QED  BY <2>1, <2>2, <2>3, <2>4
<1> QED  BY <1>3, <1>5, <1>6

(* A generation is scored: its trials join the others. *)
LEMMA RescoreKeeps == ASSUME IInv, Rescore PROVE IInv'
<1>1. /\ pc = "backtest" /\ trials' = trials \o NewTrials /\ pc' = "record"
      /\ rewards' \in [1..Len(trials') -> Rewards] /\ batch' = <<>> /\ evaluated' = 0
      /\ generation' = generation /\ parents' = parents /\ records' = records
  BY DEF Rescore
<1>2. /\ trials' \in Seq(Trials) /\ Len(trials) \in Nat /\ Len(batch) \in Nat
      /\ Len(trials') = Len(trials) + Len(batch)
      /\ \A i \in 1..Len(trials) : trials'[i] = trials[i]
      /\ \A i \in 1..Len(trials') : i \notin 1..Len(trials) => trials'[i].generation = generation
  BY <1>1, TrialsExtended
<1>3. LedgerIsHistory' /\ LineageIsClosed' /\ NoProgramTwice'
  BY <1>1, ExtensionKeeps
<1>4. rewards' \in Seq(Rewards) /\ Len(rewards') = Len(trials')
  <2>1. Len(trials') \in Nat
    BY <1>2
  <2> QED  BY <1>1, <2>1, FunctionTyped
<1>5. generation \in Nat /\ generation < Generations /\ Len(trials) = Quota(generation) /\ Len(batch) = Size
  BY <1>1, ExperimentAssumption DEF IInv, TypeOK, Counted
<1>6. Len(trials') = Quota(generation + 1) /\ Quota(generation + 1) <= Budget
  <2>1. Size = Smaller(BatchSize, Budget - Quota(generation))
    BY <1>5 DEF Size, Remaining
  <2>2. Quota(generation + 1) = Quota(generation) + Smaller(BatchSize, Budget - Quota(generation))
    BY <1>5, QuotaGrows
  <2>3. Quota(generation + 1) \in 0..Budget
    BY <1>5, QuotaGrows
  <2> QED  BY <1>2, <1>5, <2>1, <2>2, <2>3, ExperimentAssumption
<1>7. TypeOK'
  <2>1. parents' \subseteq 1..Len(trials')
    BY <1>1, <1>2 DEF IInv, TypeOK
  <2> QED  BY <1>1, <1>2, <1>4, <2>1 DEF IInv, TypeOK
<1>8. Counted'
  <2>1. Len(trials') + Len(batch') <= Budget
    BY <1>1, <1>2, <1>6, ExperimentAssumption
  <2> QED  BY <1>1, <1>5, <1>6, <2>1 DEF Counted, BudgetIsExact
<1>9. Recorded'
  <2>1. Len(records) = Len(trials) /\ \A i \in 1..Len(trials) : trials[i].generation < generation
    BY <1>1 DEF IInv, Recorded
  <2>2. \A i \in 1..Len(trials) : trials[i].generation \in Nat
    <3>1. \A i \in 1..Len(trials) : trials[i] \in Trials
      BY DEF IInv, TypeOK
    <3> QED  BY <3>1 DEF Trials
  <2>3. \A i \in 1..Len(trials') : trials'[i].generation <= generation
    BY <1>2, <1>5, <2>1, <2>2
  <2>4. \A i \in (Len(records) + 1)..Len(trials') : trials'[i].generation = generation
    BY <1>2, <2>1
  <2> QED  BY <1>1, <1>3, <2>3, <2>4 DEF Recorded
<1>10. Ranked' /\ Descended' /\ Distinct'
  BY <1>1, <1>3, <1>4 DEF Ranked, Descended, Distinct
<1> QED  BY <1>7, <1>8, <1>9, <1>10 DEF IInv

(* The scorer raises: the trials are in, their scores are not. *)
LEMMA RescoreRaisesKeeps == ASSUME IInv, RescoreRaises PROVE IInv'
<1>1. /\ pc = "backtest" /\ trials' = trials \o NewTrials /\ pc' = "failed"
      /\ batch' = <<>> /\ evaluated' = 0
      /\ UNCHANGED <<generation, rewards, parents, records>>
  BY DEF RescoreRaises
<1>2. /\ trials' \in Seq(Trials) /\ Len(trials) \in Nat /\ Len(batch) \in Nat
      /\ Len(trials') = Len(trials) + Len(batch)
  BY <1>1, TrialsExtended
<1>3. LedgerIsHistory' /\ LineageIsClosed' /\ NoProgramTwice'
  BY <1>1, ExtensionKeeps
<1>4. TypeOK'
  <2>1. parents' \subseteq 1..Len(trials')
    BY <1>1, <1>2 DEF IInv, TypeOK
  <2> QED  BY <1>1, <1>2, <2>1 DEF IInv, TypeOK
<1>5. Counted'
  <2>1. Len(trials') + Len(batch') <= Budget
    BY <1>1, <1>2 DEF IInv, Counted, BudgetIsExact
  <2> QED  BY <1>1, <2>1 DEF Counted, BudgetIsExact
<1>6. Recorded' /\ Ranked' /\ Descended' /\ Distinct'
  BY <1>1, <1>3 DEF Recorded, Ranked, Descended, Distinct
<1> QED  BY <1>4, <1>5, <1>6 DEF IInv

(* A record of the generation under way counts every trial. *)
LEMMA AppendRecordKeeps == ASSUME IInv, AppendRecord PROVE IInv'
<1> DEFINE n == Len(records) + 1
<1>1. /\ pc = "record" /\ Len(records) < Len(trials) /\ records' = Append(records, Record(n))
      /\ UNCHANGED <<pc, generation, trials, batch, evaluated, rewards, parents>>
  BY DEF AppendRecord
<1>2. /\ Len(trials) \in Nat /\ Len(records) \in Nat /\ records \in Seq(TrialRecords)
      /\ n \in 1..Len(trials) /\ n \in 1..Len(rewards)
  BY <1>1 DEF IInv, TypeOK, Ranked
<1>3. trials[n] \in Trials /\ rewards[n] \in Rewards
  BY <1>2 DEF IInv, TypeOK
<1>4. Record(n) \in TrialRecords
  BY <1>2, <1>3 DEF Record, TrialRecords, Trials
<1>5. /\ records' \in Seq(TrialRecords) /\ Len(records') = n
      /\ \A i \in 1..Len(records) : records'[i] = records[i]
      /\ records'[n] = Record(n)
  BY <1>1, <1>2, <1>4
<1>6. {j \in 1..Len(trials) : trials[j].generation <= trials[n].generation} = 1..Len(trials)
  <2>1. n \in (Len(records) + 1)..Len(trials)
    BY <1>2
  <2>2. trials[n].generation = generation
    BY <1>1, <2>1 DEF IInv, Recorded
  <2> QED  BY <1>1, <2>2 DEF IInv, Recorded
<1>7. LedgerIsHistory'
  <2>1. ASSUME NEW i \in 1..Len(records')
        PROVE  /\ records'[i].index = i - 1
               /\ records'[i].program = trials[i].program
               /\ records'[i].parent = trials[i].parent
               /\ records'[i].generation = trials[i].generation
               /\ records'[i].trialCount =
                    Cardinality({j \in 1..Len(trials) : trials[j].generation <= trials[i].generation})
    <3>1. CASE i \in 1..Len(records)
      BY <1>5, <3>1 DEF IInv, Recorded, LedgerIsHistory
    <3>2. CASE i \notin 1..Len(records)
      <4>1. i = n
        BY <1>2, <1>5, <3>2
      <4>2. Cardinality(1..Len(trials)) = Len(trials)
        BY <1>2, NumbersCounted
      <4>3. records'[i] = Record(i)
        BY <1>5, <4>1
      <4>4. Len(trials) = Cardinality({j \in 1..Len(trials) : trials[j].generation <= trials[i].generation})
        BY <1>6, <4>1, <4>2
      <4>5. /\ Record(i).index = i - 1 /\ Record(i).program = trials[i].program
            /\ Record(i).parent = trials[i].parent /\ Record(i).generation = trials[i].generation
            /\ Record(i).trialCount = Len(trials)
        BY DEF Record
      <4> HIDE DEF n
      <4> QED  BY <4>3, <4>4, <4>5, Zenon
    <3> QED  BY <3>1, <3>2
  <2>2. Len(records') <= Len(trials)
    BY <1>2, <1>5
  <2> QED  BY <1>1, <2>1, <2>2 DEF LedgerIsHistory
<1>8. Recorded'
  <2>1. \A i \in (Len(records') + 1)..Len(trials) : i \in (Len(records) + 1)..Len(trials)
    BY <1>2, <1>5
  <2> QED  BY <1>1, <1>7, <2>1 DEF IInv, Recorded
<1>9. TypeOK'
  BY <1>1, <1>5 DEF IInv, TypeOK
<1>10. Elite' = Elite
  BY <1>1 DEF Elite, Ahead
<1>11. Counted' /\ Ranked' /\ Descended' /\ Distinct'
  BY <1>1, <1>10
  DEF IInv, Counted, BudgetIsExact, StopReason, Ranked, Descended, LineageIsClosed, Distinct, NoProgramTwice
<1> QED  BY <1>8, <1>9, <1>11 DEF IInv

(* Parents are chosen once every trial has its record. *)
LEMMA SelectParentsKeeps == ASSUME IInv, SelectParents PROVE IInv'
<1>1. /\ pc = "record" /\ Len(records) = Len(trials) /\ parents' = Elite
      /\ generation' = generation + 1 /\ pc' = "propose"
      /\ UNCHANGED <<trials, batch, evaluated, rewards, records>>
  BY DEF SelectParents
<1>2. /\ generation \in Nat /\ generation < Generations /\ Generations \in Nat
      /\ \A i \in 1..Len(trials) : trials[i].generation \in Nat
  <2>1. \A i \in 1..Len(trials) : trials[i] \in Trials
    BY DEF IInv, TypeOK
  <2> QED  BY <1>1, <2>1, ExperimentAssumption DEF IInv, TypeOK, Counted, Trials
<1>3. TypeOK'
  <2>1. parents' \subseteq 1..Len(trials)
    BY <1>1 DEF Elite
  <2>2. generation' \in 0..Generations
    BY <1>1, <1>2
  <2> QED  BY <1>1, <2>1, <2>2 DEF IInv, TypeOK
<1>4. Counted'
  BY <1>1 DEF IInv, Counted, BudgetIsExact
<1>5. Recorded'
  <2>1. \A i \in 1..Len(trials) : trials[i].generation < generation + 1
    BY <1>1, <1>2 DEF IInv, Recorded
  <2> QED  BY <1>1, <2>1 DEF IInv, Recorded, LedgerIsHistory
<1>6. Elite' = Elite
  BY <1>1 DEF Elite, Ahead
<1>7. Ranked' /\ Descended' /\ Distinct'
  BY <1>1, <1>6 DEF IInv, Ranked, Descended, LineageIsClosed, Distinct, NoProgramTwice
<1> QED  BY <1>3, <1>4, <1>5, <1>7 DEF IInv

(* The run ends with the quota of all its generations. *)
LEMMA FinishKeeps == ASSUME IInv, Finish PROVE IInv'
<1>1. /\ pc = "propose" /\ ~ More /\ pc' = "done"
      /\ UNCHANGED <<generation, trials, batch, evaluated, rewards, parents, records>>
  BY DEF Finish
<1>2. /\ generation \in 0..Generations /\ Generations \in Nat /\ Budget \in Nat
      /\ Len(trials) = Quota(generation) /\ Quota(generation) \in Nat
  BY <1>1, QuotaGrows, ExperimentAssumption DEF IInv, TypeOK, Counted
<1>3. Quota(generation) >= Budget \/ generation = Generations
  BY <1>1, <1>2 DEF More, Remaining
<1>4. /\ Quota(generation) = Smaller(Budget, Generations * BatchSize)
      /\ Quota(generation) >= Budget <=> Generations * BatchSize >= Budget
  BY <1>2, <1>3, QuotaFull
<1>5. BudgetIsExact'
  BY <1>1, <1>2, <1>4 DEF IInv, Counted, BudgetIsExact, StopReason
<1>6. TypeOK' /\ Counted'
  BY <1>1, <1>5 DEF IInv, TypeOK, Counted
<1>7. Recorded' /\ Ranked'
  BY <1>1 DEF IInv, Recorded, LedgerIsHistory, Ranked
<1>8. Descended' /\ Distinct'
  BY <1>1 DEF IInv, Descended, LineageIsClosed, Distinct, NoProgramTwice
<1> QED  BY <1>6, <1>7, <1>8 DEF IInv

(* A backtest that returns, and a failure that leaves everything as it is. *)
LEMMA OthersKeep ==
  ASSUME IInv, ProposeExhausted \/ Backtest \/ BacktestRaises \/ AppendRaises
  PROVE  IInv'
<1>1. /\ pc' = pc \/ pc' = "failed"
      /\ pc' = pc => pc = "backtest"
      /\ UNCHANGED <<generation, trials, batch, rewards, parents, records>>
  BY DEF ProposeExhausted, Backtest, BacktestRaises, AppendRaises
<1>2. evaluated' \in 0..Len(batch)
  BY DEF IInv, TypeOK, ProposeExhausted, Backtest, BacktestRaises, AppendRaises
<1>3. TypeOK'
  BY <1>1, <1>2 DEF IInv, TypeOK
<1>4. Seen' = Seen /\ Size' = Size
  BY <1>1 DEF Seen, Size, Remaining
<1>5. Counted'
  BY <1>1, <1>4 DEF IInv, Counted, BudgetIsExact
<1>6. Recorded' /\ Ranked'
  BY <1>1 DEF IInv, Recorded, LedgerIsHistory, Ranked
<1>7. Descended'
  BY <1>1, <1>4 DEF IInv, Descended, LineageIsClosed
<1>8. Distinct'
  BY <1>1, <1>4 DEF IInv, Distinct, NoProgramTwice
<1> QED  BY <1>3, <1>5, <1>6, <1>7, <1>8 DEF IInv

(* A step that changes nothing. *)
LEMMA StutterKeeps == ASSUME IInv, UNCHANGED vars PROVE IInv'
<1>1. UNCHANGED <<pc, generation, trials, batch, evaluated, rewards, parents, records>>
  BY DEF vars
<1>2. Seen' = Seen /\ Size' = Size /\ Elite' = Elite /\ StopReason' = StopReason
  BY <1>1 DEF Seen, Size, Remaining, Elite, Ahead, StopReason
<1> QED
  BY <1>1, <1>2
  DEF IInv, TypeOK, Counted, BudgetIsExact, Recorded, LedgerIsHistory, Ranked, Descended, LineageIsClosed,
      Distinct, NoProgramTwice

(* Every step keeps the invariant. *)
LEMMA StepKeeps == IInv /\ [Next]_vars => IInv'
<1> SUFFICES ASSUME IInv, [Next]_vars PROVE IInv'
  OBVIOUS
<1>1. CASE Propose
  BY <1>1, ProposeKeeps
<1>2. CASE Rescore
  BY <1>2, RescoreKeeps
<1>3. CASE RescoreRaises
  BY <1>3, RescoreRaisesKeeps
<1>4. CASE AppendRecord
  BY <1>4, AppendRecordKeeps
<1>5. CASE SelectParents
  BY <1>5, SelectParentsKeeps
<1>6. CASE Finish
  BY <1>6, FinishKeeps
<1>7. CASE ProposeExhausted \/ Backtest \/ BacktestRaises \/ AppendRaises
  BY <1>7, OthersKeep
<1>8. CASE UNCHANGED vars
  BY <1>8, StutterKeeps
<1> QED
  BY <1>1, <1>2, <1>3, <1>4, <1>5, <1>6, <1>7, <1>8 DEF Next, Over

-----------------------------------------------------------------------------
(* The inductive invariant: the types, how many trials there are, which of *)
(* them have a record, how the parents were chosen, and where the batch    *)
(* under way descends from.                                                *)
THEOREM Invariance == Spec => []IInv
  BY InitHolds, StepKeeps, PTL DEF Spec

(* Every variable of the run keeps its kind, and a parent is always one of *)
(* the trials (TypeOK).                                                    *)
THEOREM TypeCorrect == Spec => []TypeOK
<1>1. IInv => TypeOK
  BY DEF IInv
<1> QED  BY <1>1, Invariance, PTL

(* The evaluation budget is never exceeded, and a run that ends used it up *)
(* or had all its generations, as its stop reason says (BudgetIsExact).    *)
THEOREM BudgetIsExactHolds == Spec => []BudgetIsExact
<1>1. IInv => BudgetIsExact
  BY DEF IInv, Counted
<1> QED  BY <1>1, Invariance, PTL

(* The ledger is a prefix of the run's history, each record counting the   *)
(* trials of its generation and those before it (LedgerIsHistory).         *)
THEOREM LedgerIsHistoryHolds == Spec => []LedgerIsHistory
<1>1. IInv => LedgerIsHistory
  BY DEF IInv, Recorded
<1> QED  BY <1>1, Invariance, PTL

(* A run that ends has a record for every proposal (CompletedIsRecorded).  *)
THEOREM CompletedIsRecordedHolds == Spec => []CompletedIsRecorded
<1>1. ASSUME IInv PROVE CompletedIsRecorded
  <2> SUFFICES ASSUME pc = "done" PROVE Len(records) = Len(trials) + Len(batch)
    BY DEF CompletedIsRecorded
  <2>1. Len(records) = Len(trials) /\ batch = <<>> /\ Len(trials) \in Nat
    BY <1>1 DEF IInv, TypeOK, Recorded, Counted
  <2> QED  BY <2>1
<1> QED  BY <1>1, Invariance, PTL

(* Every parent a trial names is the program of an earlier trial, also     *)
(* where mutants of seeds share a batch with them (LineageIsClosed).       *)
THEOREM LineageIsClosedHolds == Spec => []LineageIsClosed
<1>1. IInv => LineageIsClosed
  BY DEF IInv, Descended
<1> QED  BY <1>1, Invariance, PTL

(* No program is evaluated twice in a run (NoProgramTwice). *)
THEOREM NoProgramTwiceHolds == Spec => []NoProgramTwice
<1>1. IInv => NoProgramTwice
  BY DEF IInv, Distinct
<1> QED  BY <1>1, Invariance, PTL

(* The parents of a generation are the best of all the trials, and as many *)
(* as there can be (ParentsAreBest).                                       *)
THEOREM ParentsAreBestHolds == Spec => []ParentsAreBest
<1>1. ASSUME IInv PROVE ParentsAreBest
  <2> SUFFICES ASSUME pc = "propose"
               PROVE  /\ Cardinality(parents) = Smaller(EliteCount, Len(trials))
                      /\ \A i \in parents : \A j \in (1..Len(trials)) \ parents : rewards[i] >= rewards[j]
    BY DEF ParentsAreBest
  <2>1. TypeOK /\ Len(rewards) = Len(trials) /\ parents = Elite
    BY <1>1 DEF IInv, Ranked
  <2> QED  BY <2>1, EliteIsFirst
<1> QED  BY <1>1, Invariance, PTL

(* Where nothing raises, ADR 0003 holds as it is written: every proposal   *)
(* has its record when the run is over, also when the evolver gave up      *)
(* (EveryProposalRecorded).  The executor, the scorer and the ledger are   *)
(* all that can leave a proposal without one.                              *)
THEOREM RecordedUnlessRaised == Faulty = FALSE => (Spec => []EveryProposalRecorded)
<1> SUFFICES ASSUME Faulty = FALSE  PROVE Spec => []EveryProposalRecorded
  OBVIOUS
<1> DEFINE GaveUp == pc = "failed" => Len(records) = Len(trials) /\ batch = <<>>
<1>1. Init => GaveUp
  BY DEF Init
<1>2. ASSUME IInv, GaveUp, [Next]_vars  PROVE GaveUp'
  <2>1. CASE ProposeExhausted
    <3>1. Len(records) = Len(trials) /\ batch = <<>> /\ UNCHANGED <<records, trials, batch>>
      BY <1>2, <2>1 DEF ProposeExhausted, IInv, Counted, Recorded
    <3> QED  BY <3>1
  <2>2. CASE Next /\ ~ProposeExhausted /\ ~Over
    <3>1. pc' # "failed"
      BY <2>2 DEF Next, Propose, Backtest, BacktestRaises, Rescore, RescoreRaises, AppendRecord,
           AppendRaises, SelectParents, Finish
    <3> QED  BY <3>1
  <2>3. CASE UNCHANGED vars
    BY <1>2, <2>3 DEF vars
  <2> QED  BY <1>2, <2>1, <2>2, <2>3 DEF Next, Over
<1>3. ASSUME IInv, GaveUp  PROVE EveryProposalRecorded
  <2> SUFFICES ASSUME pc \in {"done", "failed"}  PROVE Len(records) = Len(trials) + Len(batch)
    BY DEF EveryProposalRecorded
  <2>1. Len(records) = Len(trials) /\ batch = <<>> /\ Len(trials) \in Nat
    BY <1>3 DEF IInv, TypeOK, Recorded, Counted
  <2> QED  BY <2>1
<1> HIDE DEF GaveUp
<1> QED  BY <1>1, <1>2, <1>3, Invariance, PTL DEF Spec
=============================================================================
