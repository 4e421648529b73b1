----------------------- MODULE ProfileDataHandlerProofs -----------------------
(***************************************************************************)
(* Proofs about ProfileDataHandler, for samples of any size, any groups of *)
(* checks and any number of filters.                                       *)
(*                                                                         *)
(* The locations of a profile are found anew in every loop, by a cursor    *)
(* that moves on; with contiguous records it finds the same ones each time  *)
(* (WalkInv).  On that rests what the caches hold: where nothing is pending *)
(* a lookup in the cache of the sample, then in the obs space, gives what  *)
(* the checks have found (SampleInv), and so do the cache of the profile    *)
(* (CacheInv) and what is left of the holders (HoldersInv).                *)
(***************************************************************************)
EXTENDS ProfileDataHandler, FiniteSetTheorems, WellFoundedInduction, TLAPS

-----------------------------------------------------------------------------
(* Ranks in a finite set that R orders totally.                            *)

Below(S, R, x) == {y \in S : <<y, x>> \in R}

Orders(R, S) ==
  /\ \A x \in S : <<x, x>> \notin R
  /\ \A x, y \in S : x = y \/ <<x, y>> \in R \/ <<y, x>> \in R
  /\ \A x, y, z \in S : <<x, y>> \in R /\ <<y, z>> \in R => <<x, z>> \in R

LEMMA BelowGrows ==
  ASSUME NEW S, IsFiniteSet(S), NEW R, Orders(R, S), NEW x \in S, NEW y \in S, <<x, y>> \in R
  PROVE  Cardinality(Below(S, R, x)) < Cardinality(Below(S, R, y))
<1>1. Below(S, R, x) \subseteq Below(S, R, y)
  BY DEF Below, Orders
<1>2. x \in Below(S, R, y) /\ x \notin Below(S, R, x)
  BY DEF Below, Orders
<1>3. IsFiniteSet(Below(S, R, x)) /\ IsFiniteSet(Below(S, R, y))
  BY FS_Subset DEF Below
<1>4. /\ Cardinality(Below(S, R, x)) \in Nat /\ Cardinality(Below(S, R, y)) \in Nat
      /\ Cardinality(Below(S, R, x)) <= Cardinality(Below(S, R, y))
      /\ Cardinality(Below(S, R, x)) # Cardinality(Below(S, R, y))
  BY <1>1, <1>2, <1>3, FS_Subset, FS_CardinalityType
<1> QED
  BY <1>4

(* One element has each rank.                                              *)
OnePerRank(S, R) ==
  /\ \A x \in S : Cardinality(Below(S, R, x)) \in 0 .. Cardinality(S) - 1
  /\ \A x, y \in S : Cardinality(Below(S, R, x)) = Cardinality(Below(S, R, y)) => x = y
  /\ \A k \in 0 .. Cardinality(S) - 1 : \E x \in S : Cardinality(Below(S, R, x)) = k

LEMMA RanksAreBijective ==
  ASSUME NEW S, IsFiniteSet(S), NEW R, Orders(R, S)
  PROVE  OnePerRank(S, R)
<1> DEFINE rank(x) == Cardinality(Below(S, R, x))
           f       == [x \in S |-> rank(x)]
           T       == 0 .. Cardinality(S) - 1
<1>1. Cardinality(S) \in Nat
  BY FS_CardinalityType
<1>2. ASSUME NEW x \in S PROVE rank(x) \in T
  <2>1. Below(S, R, x) \subseteq S /\ x \notin Below(S, R, x)
    BY DEF Below, Orders
  <2>2. rank(x) \in Nat /\ rank(x) <= Cardinality(S) /\ rank(x) # Cardinality(S)
    BY <2>1, FS_Subset, FS_CardinalityType
  <2> QED
    BY <1>1, <2>2
<1>3. ASSUME NEW x \in S, NEW y \in S, rank(x) = rank(y) PROVE x = y
  <2>1. <<x, y>> \in R => rank(x) < rank(y)
    BY BelowGrows
  <2>2. <<y, x>> \in R => rank(y) < rank(x)
    BY BelowGrows
  <2>3. rank(x) \in Int /\ rank(y) \in Int
    BY <1>2
  <2> QED
    BY <1>3, <2>1, <2>2, <2>3 DEF Orders
<1>4. f \in Injection(S, T)
  BY <1>2, <1>3 DEF Injection, IsInjective
<1>5. IsFiniteSet(T) /\ Cardinality(T) = Cardinality(S)
  <2>1. Cardinality(S) - 1 \in Int
    BY <1>1
  <2>2. IsFiniteSet(T) /\ Cardinality(T) = IF 0 > Cardinality(S) - 1 THEN 0 ELSE (Cardinality(S) - 1) - 0 + 1
    BY <2>1, FS_Interval
  <2> QED
    BY <1>1, <2>2
<1>6. f \in Surjection(S, T)
  BY <1>4, <1>5, FS_Injection
<1>7. \A k \in T : \E x \in S : rank(x) = k
  BY <1>6 DEF Surjection
<1> QED
  BY <1>2, <1>3, <1>7 DEF OnePerRank

(* A sequence of the elements by their ranks has each of them once.        *)
Lists(s, S) ==
  /\ DOMAIN s = 1 .. Cardinality(S)
  /\ \A k \in DOMAIN s : s[k] \in S
  /\ \A k, l \in DOMAIN s : s[k] = s[l] => k = l
  /\ \A i \in S : \E k \in DOMAIN s : s[k] = i

LEMMA RankedLists ==
  ASSUME NEW S, IsFiniteSet(S), NEW R, Orders(R, S)
  PROVE  Lists([k \in 1 .. Cardinality(S) |->
                  CHOOSE i \in S : Cardinality(Below(S, R, i)) = k - 1], S)
<1> DEFINE rank(x) == Cardinality(Below(S, R, x))
           at(k)   == CHOOSE i \in S : rank(i) = k - 1
           s       == [k \in 1 .. Cardinality(S) |-> at(k)]
<1>1. Cardinality(S) \in Nat
  BY FS_CardinalityType
<1>2. /\ \A x \in S : rank(x) \in 0 .. Cardinality(S) - 1
      /\ \A x, y \in S : rank(x) = rank(y) => x = y
      /\ \A k \in 0 .. Cardinality(S) - 1 : \E x \in S : rank(x) = k
  BY RanksAreBijective DEF OnePerRank
<1>3. ASSUME NEW k \in 1 .. Cardinality(S) PROVE at(k) \in S /\ rank(at(k)) = k - 1
  <2>1. k - 1 \in 0 .. Cardinality(S) - 1
    BY <1>1
  <2>2. \E x \in S : rank(x) = k - 1
    BY <1>2, <2>1
  <2> QED
    BY <2>2
<1>4. ASSUME NEW i \in S PROVE \E k \in 1 .. Cardinality(S) : at(k) = i
  <2>1. rank(i) + 1 \in 1 .. Cardinality(S) /\ (rank(i) + 1) - 1 = rank(i)
    BY <1>1, <1>2
  <2>2. at(rank(i) + 1) \in S /\ rank(at(rank(i) + 1)) = rank(i)
    BY <1>3, <2>1
  <2> QED
    BY <1>2, <2>1, <2>2
<1>5. ASSUME NEW k \in 1 .. Cardinality(S), NEW l \in 1 .. Cardinality(S), at(k) = at(l)
      PROVE  k = l
  <2>1. k - 1 = l - 1
    BY <1>3, <1>5
  <2> QED
    BY <1>1, <2>1
<1>6. DOMAIN s = 1 .. Cardinality(S) /\ \A k \in DOMAIN s : s[k] = at(k)
  OBVIOUS
<1> HIDE DEF at, rank, s
<1>7. Lists(s, S)
  BY <1>3, <1>4, <1>5, <1>6 DEF Lists
<1> QED
  BY <1>7 DEF s, at, rank

(* Up and down.                                                            *)
LEMMA InOrderLists ==
  ASSUME NEW S, IsFiniteSet(S), S \subseteq Int
  PROVE  Lists(InOrder(S), S)
<1> DEFINE R == {p \in S \X S : p[1] < p[2]}
<1>1. \A x, y \in S : x \in Int /\ y \in Int /\ (<<x, y>> \in R <=> x < y)
  OBVIOUS
<1>2. Orders(R, S)
  <2> HIDE DEF R
  <2> QED
    BY <1>1 DEF Orders
<1>3. \A i \in S : Below(S, R, i) = {l \in S : l < i}
  <2> HIDE DEF R
  <2> QED
    BY <1>1 DEF Below
<1> HIDE DEF R
<1>4. InOrder(S) = [k \in 1 .. Cardinality(S) |->
                      CHOOSE i \in S : Cardinality(Below(S, R, i)) = k - 1]
  <2>1. \A i \in S : Cardinality({l \in S : l < i}) = Cardinality(Below(S, R, i))
    BY <1>3
  <2> DEFINE up(k)   == CHOOSE i \in S : Cardinality({l \in S : l < i}) = k - 1
             rank(k) == CHOOSE i \in S : Cardinality(Below(S, R, i)) = k - 1
  <2>2. \A k : up(k) = rank(k)
    BY <2>1
  <2>3. InOrder(S) = [k \in 1 .. Cardinality(S) |-> up(k)]
    BY DEF InOrder
  <2>4. [k \in 1 .. Cardinality(S) |-> up(k)] = [k \in 1 .. Cardinality(S) |-> rank(k)]
    <3> HIDE DEF up, rank
    <3> QED
      BY <2>2
  <2> QED
    BY <2>3, <2>4
<1> QED
  BY <1>2, <1>4, RankedLists

LEMMA recidxLists ==
  ASSUME NEW r, IsFiniteSet(RecordLocs(r)), RecordLocs(r) \subseteq Int
  PROVE  Lists(recidx(r), RecordLocs(r))
<1> DEFINE S == RecordLocs(r)
           R == {p \in S \X S : p[1] > p[2]}
<1>1. \A x, y \in S : x \in Int /\ y \in Int /\ (<<x, y>> \in R <=> x > y)
  OBVIOUS
<1>2. Orders(R, S)
  <2> HIDE DEF R, S
  <2> QED
    BY <1>1 DEF Orders
<1>3. \A i \in S : Below(S, R, i) = {l \in S : l > i}
  <2> HIDE DEF R, S
  <2> QED
    BY <1>1 DEF Below
<1>4. recidx(r) = [k \in 1 .. Cardinality(S) |->
                     CHOOSE i \in S : Cardinality(Below(S, R, i)) = k - 1]
  <2> HIDE DEF R
  <2> QED
    BY <1>3 DEF recidx
<1> HIDE DEF R
<1> QED
  BY <1>2, <1>4, RankedLists

-----------------------------------------------------------------------------
(* The sample.                                                             *)

n      == Len(sample.profileNums)
num(i) == sample.profileNums[i]

Given == ProfilesAssumption /\ sample \in Samples

Contiguous ==
  \A i, k \in Locs : num(i) = num(k) => \A j \in i .. k : num(j) = num(i)

LEMMA SampleTypes ==
  ASSUME Given
  PROVE  /\ n \in Nat /\ n >= 1 /\ Locs = 1 .. n /\ Locs \subseteq Nat /\ IsFiniteSet(Locs)
         /\ 1 \in Locs
         /\ \A i \in Locs : num(i) \in Nat /\ num(i) \in Records /\ i \in RecordLocs(num(i))
         /\ Records \subseteq Nat /\ IsFiniteSet(Records) /\ nrecs \in Nat /\ nrecs >= 1
         /\ \A r : /\ RecordLocs(r) \subseteq Locs /\ IsFiniteSet(RecordLocs(r))
                   /\ \A i \in RecordLocs(r) : num(i) = r
         /\ \A r \in Records : RecordLocs(r) # {}
<1>1. sample.profileNums \in Seq(Nat) /\ sample.profileNums # <<>>
  BY DEF Given, ProfilesAssumption
<1>2. /\ n \in Nat /\ n >= 1 /\ Locs = 1 .. n /\ Locs \subseteq Nat /\ 1 \in Locs
      /\ \A i \in Locs : num(i) \in Nat
  BY <1>1 DEF n, Locs, num
<1>3. IsFiniteSet(Locs)
  BY <1>2, FS_Interval
<1>4. Records = {num(i) : i \in Locs} /\ Records \subseteq Nat
  BY <1>2 DEF Records, num
<1>5. /\ \A i \in Locs : num(i) \in Records /\ i \in RecordLocs(num(i))
      /\ \A r : RecordLocs(r) \subseteq Locs /\ \A i \in RecordLocs(r) : num(i) = r
      /\ \A r \in Records : RecordLocs(r) # {}
  BY <1>4 DEF RecordLocs, num
<1>6. IsFiniteSet(Records)
  <2> DEFINE f == [i \in Locs |-> num(i)]
  <2>1. f \in Surjection(Locs, Records)
    BY <1>4 DEF Surjection
  <2> QED
    BY <1>3, <2>1, FS_Surjection
<1>7. nrecs \in Nat /\ nrecs >= 1
  <2>1. Records # {}
    BY <1>2, <1>5
  <2>2. nrecs \in Nat /\ nrecs # 0
    BY <1>6, <2>1, FS_CardinalityType, FS_EmptySet DEF nrecs
  <2> QED
    BY <2>2
<1>8. \A r : IsFiniteSet(RecordLocs(r))
  BY <1>3, <1>5, FS_Subset
<1> QED
  BY <1>2, <1>3, <1>4, <1>5, <1>6, <1>7, <1>8

(* Every set of numbers has a least member, and a set below a bound has a    *)
(* greatest one.                                                           *)
LEMMA LeastMember ==
  ASSUME NEW S \in SUBSET Nat, S # {}
  PROVE  \E x \in S : \A y \in S : x <= y
<1> DEFINE T == {0 .. x : x \in S}
<1>1. T \subseteq FiniteSubsetsOf(Nat) /\ T # {}
  <2>1. \A x \in S : IsFiniteSet(0 .. x) /\ 0 .. x \subseteq Nat
    <3>1. \A x \in S : x \in Int
      OBVIOUS
    <3> QED
      BY <3>1, FS_Interval
  <2> QED
    BY <2>1 DEF FiniteSubsetsOf
<1>2. PICK t \in T : \A v \in T : ~ (<<v, t>> \in StrictSubsetOrdering(Nat))
  BY <1>1, FS_StrictSubsetOrderingWellFounded, WFMin
<1>3. PICK x \in S : t = 0 .. x
  OBVIOUS
<1>4. ASSUME NEW y \in S PROVE x <= y
  <2>1. 0 .. y \in T /\ 0 .. y \in SUBSET Nat /\ 0 .. x \in SUBSET Nat
    OBVIOUS
  <2>2. <<0 .. y, 0 .. x>> \notin StrictSubsetOrdering(Nat)
    BY <1>2, <1>3, <2>1
  <2>3. ~(0 .. y \subseteq 0 .. x /\ 0 .. y # 0 .. x)
    BY <2>1, <2>2 DEF StrictSubsetOrdering
  <2>4. y < x => x \notin 0 .. y /\ x \in 0 .. x /\ 0 .. y \subseteq 0 .. x
    OBVIOUS
  <2> QED
    BY <2>3, <2>4
<1> QED
  BY <1>4

LEMMA GreatestMember ==
  ASSUME NEW S \in SUBSET Nat, S # {}, NEW b \in Nat, \A x \in S : x <= b
  PROVE  \E x \in S : \A y \in S : y <= x
<1> DEFINE D == {b - x : x \in S}
<1>1. D \in SUBSET Nat /\ D # {}
  <2>1. \A x \in S : x \in Nat /\ b - x \in Nat
    OBVIOUS
  <2> QED
    BY <2>1
<1>2. PICK d \in D : \A y \in D : d <= y
  <2> HIDE DEF D
  <2> QED
    BY <1>1, LeastMember
<1>3. PICK x \in S : d = b - x
  OBVIOUS
<1>4. ASSUME NEW y \in S PROVE y <= x
  <2>1. b - y \in D
    OBVIOUS
  <2>2. b - x <= b - y
    BY <1>2, <1>3, <2>1
  <2>3. x \in Int /\ y \in Int
    OBVIOUS
  <2> QED
    BY <2>2, <2>3
<1> QED
  BY <1>4

(* A sample whose locations are not sorted, and which is validated, has as   *)
(* many profiles as records, or the constructor has thrown: its records are *)
(* contiguous.                                                             *)
LEMMA ValidatedIsContiguous ==
  ASSUME Given, sample.sort = "none", sample.ValidateTotalNumProf, ~Throws
  PROVE  Contiguous
<1> DEFINE Starts == {i \in Locs : i = 1 \/ num(i) # num(i - 1)}
           f      == [i \in Starts |-> num(i)]
<1>1. Cardinality(Starts) = Cardinality(Records) /\ Starts \subseteq Locs
  BY DEF Throws, nrecs, num
<1>2. /\ Locs = 1 .. n /\ n \in Nat /\ IsFiniteSet(Starts) /\ Locs \subseteq Nat
      /\ \A i \in Locs : num(i) \in Records /\ i \in RecordLocs(num(i))
      /\ \A r : RecordLocs(r) \subseteq Locs /\ \A i \in RecordLocs(r) : num(i) = r
      /\ \A r \in Records : RecordLocs(r) # {}
  BY <1>1, SampleTypes, FS_Subset
<1>3. ASSUME NEW r \in Records PROVE \E i \in Starts : num(i) = r /\ \A l \in RecordLocs(r) : i <= l
  <2>1. PICK i \in RecordLocs(r) : \A l \in RecordLocs(r) : i <= l
    BY <1>2, LeastMember
  <2>2. i \in Locs /\ num(i) = r
    BY <1>2
  <2>3. i # 1 => i - 1 \in Locs /\ i - 1 \notin RecordLocs(r)
    BY <1>2, <2>1, <2>2
  <2>4. i # 1 => num(i - 1) # r
    BY <1>2, <2>3
  <2> QED
    BY <2>1, <2>2, <2>4
<1>4. f \in Surjection(Starts, Records)
  <2>1. f \in [Starts -> Records]
    BY <1>1, <1>2
  <2>2. \A r \in Records : \E i \in Starts : f[i] = r
    BY <1>3
  <2> QED
    BY <2>1, <2>2 DEF Surjection
<1>5. \A i, l \in Starts : num(i) = num(l) => i = l
  <2>1. f \in Injection(Starts, Records)
    BY <1>1, <1>2, <1>4, FS_SurjSameCardinalityImpliesInj
  <2> QED
    BY <2>1 DEF Injection, IsInjective
<1>6. SUFFICES ASSUME NEW i \in Locs, NEW k \in Locs, num(i) = num(k), NEW j \in i .. k,
                      num(j) # num(i)
               PROVE  FALSE
  BY DEF Contiguous
<1> DEFINE later == {l \in RecordLocs(num(i)) : l > j}
<1>7. j \in Locs /\ i \in Int /\ j \in Int /\ k \in Int /\ i <= j /\ k \in later /\ later \subseteq Nat
  <2>1. i \in 1 .. n /\ k \in 1 .. n /\ n \in Int
    BY <1>2
  <2>2. j \in 1 .. n /\ i <= j /\ j <= k /\ j # k
    BY <1>6, <2>1
  <2>3. k \in RecordLocs(num(i)) /\ RecordLocs(num(i)) \subseteq Nat
    BY <1>2, <1>6
  <2> QED
    BY <1>2, <2>1, <2>2, <2>3
<1>8. PICK m \in later : \A l \in later : m <= l
  BY <1>7, LeastMember
<1>9. m \in Starts
  <2>1. m \in Locs /\ num(m) = num(i) /\ m > j /\ m # 1
    BY <1>2, <1>7
  <2>2. m - 1 \in Locs /\ m - 1 \notin later
    BY <1>2, <1>8, <2>1
  <2>3. num(m - 1) = num(i) => m - 1 > j
    BY <1>2, <1>6, <1>7, <2>1, <2>2
  <2>4. num(m - 1) # num(i)
    BY <1>2, <2>2, <2>3
  <2> QED
    BY <2>1, <2>4
<1>10. PICK s \in Starts : num(s) = num(i) /\ \A l \in RecordLocs(num(i)) : s <= l
  BY <1>2, <1>3
<1>11. s <= i /\ m > j /\ num(m) = num(i) /\ s \in Int /\ m \in Int
  BY <1>2, <1>7, <1>8, <1>10
<1>12. s = m
  BY <1>5, <1>9, <1>10, <1>11
<1> QED
  BY <1>7, <1>11, <1>12

LEMMA NumsAscend ==
  ASSUME Given, Contiguous
  PROVE  \A i, k \in Locs : i <= k => num(i) <= num(k)
<1> SUFFICES ASSUME NEW i \in Locs, NEW k \in Locs, i <= k PROVE num(i) <= num(k)
  OBVIOUS
<1>1. i \in Int /\ k \in Int /\ num(i) \in Int /\ num(k) \in Int /\ Locs = 1 .. n /\ n \in Nat
  BY SampleTypes
<1>2. CASE i = k
  BY <1>1, <1>2
<1>3. CASE i < k
  <2>1. num(i) <= num(k) \/ \E j \in 1 .. i : num(j) = num(k)
    BY <1>3 DEF Given, ProfilesAssumption, Locs, num
  <2>2. ASSUME NEW j \in 1 .. i, num(j) = num(k) PROVE num(i) = num(k)
    <3>1. j \in Locs /\ i \in j .. k
      BY <1>1, <1>3
    <3> QED
      BY <2>2, <3>1 DEF Contiguous
  <2> QED
    BY <1>1, <2>1, <2>2
<1> QED
  BY <1>1, <1>2, <1>3

-----------------------------------------------------------------------------
(* Profiles: the records in order, and the locations of each that a check   *)
(* works on.                                                               *)

RecordAt(j) == CHOOSE r \in Records : Rank(r) = j

First(r) == CHOOSE i \in RecordLocs(r) : \A l \in RecordLocs(r) : i <= l

LocsOf(j) ==
  LET selected == InOrder(Selected(RecordAt(j)))
  IN [k \in DOMAIN selected |->
        IF sample.sort = "descending"
        THEN recidx(RecordAt(j))[selected[k] - First(RecordAt(j)) + 1]
        ELSE selected[k]]

Reach(j) == {LocsOf(j)[k] : k \in DOMAIN LocsOf(j)}

LEMMA RanksOfRecords ==
  ASSUME Given
  PROVE  /\ \A r \in Records : Rank(r) \in 1 .. nrecs /\ RecordAt(Rank(r)) = r
         /\ \A j \in 1 .. nrecs : RecordAt(j) \in Records /\ Rank(RecordAt(j)) = j
<1> DEFINE R == {p \in Records \X Records : p[1] < p[2]}
<1>1. Records \subseteq Nat /\ IsFiniteSet(Records) /\ nrecs \in Nat /\ nrecs = Cardinality(Records)
  BY SampleTypes DEF nrecs
<1>2. \A x, y \in Records : <<x, y>> \in R <=> x < y
  OBVIOUS
<1>3. Orders(R, Records)
  <2> HIDE DEF R
  <2>1. \A x \in Records : x \in Int
    BY <1>1
  <2> QED
    BY <1>2, <2>1 DEF Orders
<1>4. \A r \in Records : Rank(r) = Cardinality(Below(Records, R, r)) + 1
  <2>1. \A r \in Records : Below(Records, R, r) = {s \in Records : s < r}
    <3> HIDE DEF R
    <3> QED
      BY <1>2 DEF Below
  <2> QED
    BY <2>1 DEF Rank
<1> HIDE DEF R
<1>5. /\ \A x \in Records : Cardinality(Below(Records, R, x)) \in 0 .. Cardinality(Records) - 1
      /\ \A x, y \in Records :
           Cardinality(Below(Records, R, x)) = Cardinality(Below(Records, R, y)) => x = y
      /\ \A k \in 0 .. Cardinality(Records) - 1 :
           \E x \in Records : Cardinality(Below(Records, R, x)) = k
  <2>1. OnePerRank(Records, R)
    BY <1>1, <1>3, RanksAreBijective
  <2> QED
    BY <2>1 DEF OnePerRank
<1>9. \A x \in Records : Cardinality(Below(Records, R, x)) \in Int
  BY <1>1, <1>5
<1>6. \A r \in Records : Rank(r) \in 1 .. nrecs
  BY <1>1, <1>4, <1>5
<1>7. ASSUME NEW j \in 1 .. nrecs PROVE RecordAt(j) \in Records /\ Rank(RecordAt(j)) = j
  <2>1. j - 1 \in 0 .. Cardinality(Records) - 1
    BY <1>1
  <2>2. PICK r \in Records : Cardinality(Below(Records, R, r)) = j - 1
    BY <1>5, <2>1
  <2>3. Rank(r) = j
    BY <1>1, <1>4, <2>2
  <2> QED
    BY <2>3 DEF RecordAt
<1>8. ASSUME NEW r \in Records PROVE RecordAt(Rank(r)) = r
  <2>1. RecordAt(Rank(r)) \in Records /\ Rank(RecordAt(Rank(r))) = Rank(r)
    BY <1>6, <1>7
  <2>2. /\ Rank(r) = Cardinality(Below(Records, R, r)) + 1
        /\ Rank(r) = Cardinality(Below(Records, R, RecordAt(Rank(r)))) + 1
    BY <1>4, <2>1
  <2>3. /\ Cardinality(Below(Records, R, r)) \in Int
        /\ Cardinality(Below(Records, R, RecordAt(Rank(r)))) \in Int
    BY <1>9, <2>1
  <2>4. Cardinality(Below(Records, R, r)) = Cardinality(Below(Records, R, RecordAt(Rank(r))))
    BY <2>2, <2>3
  <2> QED
    BY <1>5, <2>1, <2>4
<1> QED
  BY <1>6, <1>7, <1>8

LEMMA RecordIsInterval ==
  ASSUME Given, Contiguous, NEW r \in Records
  PROVE  /\ First(r) \in RecordLocs(r) /\ First(r) \in Nat
         /\ Cardinality(RecordLocs(r)) \in Nat \ {0}
         /\ RecordLocs(r) = First(r) .. First(r) + Cardinality(RecordLocs(r)) - 1
<1>1. /\ n \in Nat /\ Locs = 1 .. n /\ RecordLocs(r) \subseteq Locs /\ RecordLocs(r) # {}
      /\ RecordLocs(r) \in SUBSET Nat /\ \A i \in RecordLocs(r) : i <= n
      /\ \A i \in Locs : i \in RecordLocs(num(i))
      /\ \A i \in RecordLocs(r) : num(i) = r
  BY SampleTypes
<1>2. First(r) \in RecordLocs(r) /\ \A l \in RecordLocs(r) : First(r) <= l
  BY <1>1, LeastMember DEF First
<1>3. PICK b \in RecordLocs(r) : \A l \in RecordLocs(r) : l <= b
  BY <1>1, GreatestMember
<1>4. RecordLocs(r) = First(r) .. b
  <2>1. \A j \in First(r) .. b : j \in RecordLocs(r)
    <3> SUFFICES ASSUME NEW j \in First(r) .. b PROVE j \in RecordLocs(r)
      OBVIOUS
    <3>1. First(r) \in Locs /\ b \in Locs /\ num(First(r)) = r /\ num(b) = r
      BY <1>1, <1>2
    <3>2. num(j) = r
      BY <3>1 DEF Contiguous
    <3>3. j \in Locs
      BY <1>1, <3>1
    <3> QED
      BY <1>1, <3>2, <3>3
  <2>2. \A l \in RecordLocs(r) : l \in First(r) .. b
    BY <1>1, <1>2, <1>3
  <2> QED
    BY <2>1, <2>2
<1>5. First(r) \in Nat /\ b \in Nat /\ First(r) <= b
  BY <1>1, <1>2, <1>3
<1>6. Cardinality(RecordLocs(r)) = b - First(r) + 1
  BY <1>4, <1>5, FS_Interval
<1> QED
  BY <1>2, <1>4, <1>5, <1>6

(* The record that follows one begins where it ends.                       *)
LEMMA NextRecord ==
  ASSUME Given, Contiguous, NEW j \in 1 .. nrecs
  PROVE  LET next == First(RecordAt(j)) + Cardinality(RecordLocs(RecordAt(j)))
         IN /\ j < nrecs => /\ next \in Locs /\ next = First(RecordAt(j + 1))
                            /\ num(next) = RecordAt(j + 1)
            /\ j = nrecs => next = n + 1
<1> DEFINE r    == RecordAt(j)
           size == Cardinality(RecordLocs(r))
           next == First(r) + size
           low  == {t \in Records : t < r}
<1>1. /\ n \in Nat /\ Locs = 1 .. n /\ Records \subseteq Nat /\ IsFiniteSet(Records)
      /\ nrecs \in Nat /\ nrecs = Cardinality(Records)
      /\ \A i \in Locs : i \in Nat /\ num(i) \in Records /\ i \in RecordLocs(num(i))
      /\ RecordLocs(r) \subseteq Locs
      /\ \A s : \A i \in RecordLocs(s) : num(i) = s /\ i \in Locs
  BY SampleTypes DEF nrecs
<1>2. r \in Records /\ Rank(r) = j /\ r \in Nat
  BY <1>1, RanksOfRecords
<1>3. /\ First(r) \in RecordLocs(r) /\ First(r) \in Nat /\ size \in Nat \ {0}
      /\ RecordLocs(r) = First(r) .. next - 1
  <2>1. RecordLocs(r) = First(r) .. First(r) + size - 1
    BY <1>2, RecordIsInterval
  <2> QED
    BY <1>2, <2>1, RecordIsInterval
<1>4. IsFiniteSet(low) /\ Cardinality(low) \in Nat /\ Cardinality(low) + 1 = j
  <2>1. IsFiniteSet(low)
    BY <1>1, FS_Subset
  <2> QED
    BY <1>2, <2>1, FS_CardinalityType DEF Rank
<1>5. next \in Nat /\ next - 1 \in RecordLocs(r) /\ next - 1 \in Locs
  <2>1. next \in Nat /\ First(r) <= next - 1
    BY <1>3
  <2> HIDE DEF next, r, size
  <2>2. next - 1 \in First(r) .. next - 1
    BY <1>3, <2>1
  <2> QED
    BY <1>1, <1>3, <2>1, <2>2
<1>6. \A i \in Locs : i <= next - 1 => num(i) <= r
  <2>1. num(next - 1) = r
    BY <1>1, <1>5
  <2> QED
    BY <1>5, <2>1, NumsAscend
<1> HIDE DEF next, r, size
<1>7. CASE next \in Locs
  <2> DEFINE s == num(next)
  <2>1. s \in Records /\ s \in Nat /\ s # r /\ r < s
    <3>1. next \notin RecordLocs(r)
      BY <1>3, <1>5
    <3>2. s # r /\ s \in Records
      BY <1>1, <1>7, <3>1
    <3>3. First(r) \in Locs /\ num(First(r)) = r
      BY <1>1, <1>3
    <3>5. First(r) <= next
      <4>1. First(r) \in First(r) .. next - 1
        BY <1>3
      <4> QED
        BY <1>5, <4>1
    <3>4. r <= s
      BY <1>7, <3>3, <3>5, NumsAscend
    <3>6. s \in Nat
      BY <1>1, <3>2
    <3> QED
      BY <1>2, <3>2, <3>4, <3>6
  <2>2. \A i \in Locs : i < next => num(i) <= r
    BY <1>1, <1>5, <1>6
  <2>3. {t \in Records : t < s} = low \cup {r}
    <3>1. ASSUME NEW t \in Records, t < s PROVE t <= r
      <4>1. PICK i \in Locs : t = num(i)
        BY DEF Records, num
      <4>2. ~(next <= i)
        <5>1. next <= i => s <= t
          BY <1>7, <4>1, NumsAscend
        <5> QED
          BY <1>1, <2>1, <3>1, <5>1
      <4>3. i < next
        BY <1>1, <1>5, <4>2
      <4> QED
        BY <2>2, <4>1, <4>3
    <3>2. \A t \in Records : t \in Nat
      BY <1>1
    <3>3. \A t \in Records : t < s <=> t <= r
      BY <1>2, <2>1, <3>1, <3>2
    <3>4. \A t \in Records : t <= r <=> t < r \/ t = r
      BY <1>2, <3>2
    <3> QED
      BY <1>2, <3>3, <3>4
  <2>4. Rank(s) = j + 1
    <3>1. r \notin low
      BY <1>2
    <3>2. Cardinality(low \cup {r}) = Cardinality(low) + 1
      BY <1>4, <3>1, FS_AddElement
    <3> QED
      BY <1>4, <2>3, <3>2 DEF Rank
  <2>5. s = RecordAt(j + 1) /\ j + 1 \in 1 .. nrecs
    BY <2>1, <2>4, RanksOfRecords
  <2>6. First(s) = next
    <3>1. next \in RecordLocs(s)
      BY <1>1, <1>7
    <3>2. ASSUME NEW l \in RecordLocs(s) PROVE next <= l
      <4>1. l \in Locs /\ num(l) = s /\ l \in Nat
        BY <1>1
      <4>2. l < next => s <= r
        BY <2>2, <4>1
      <4>3. ~(l < next)
        BY <1>2, <2>1, <4>2
      <4> QED
        BY <1>5, <4>1, <4>3
    <3>3. First(s) \in RecordLocs(s) /\ \A l \in RecordLocs(s) : First(s) <= l
      BY <3>1, <3>2 DEF First
    <3>4. First(s) <= next /\ next <= First(s) /\ First(s) \in Nat
      BY <1>1, <3>1, <3>2, <3>3
    <3> QED
      BY <1>5, <3>4
  <2>7. j < nrecs /\ num(next) = RecordAt(j + 1) /\ next = First(RecordAt(j + 1))
    BY <1>1, <2>5, <2>6
  <2> QED
    BY <1>1, <1>7, <2>7 DEF next, r, size
<1>8. CASE next \notin Locs
  <2>1. next = n + 1
    BY <1>1, <1>5, <1>8
  <2>2. low = Records \ {r}
    <3>1. \A t \in Records : t <= r
      <4>1. \A i \in Locs : i <= next - 1
        BY <1>1, <2>1
      <4> QED
        BY <1>6, <4>1 DEF Records, num
    <3>2. \A t \in Records : t \in Nat /\ (t < r <=> t # r)
      BY <1>1, <1>2, <3>1
    <3> QED
      BY <3>2
  <2>3. Cardinality(low) = nrecs - 1
    BY <1>1, <1>2, <2>2, FS_RemoveElement
  <2>4. j = nrecs
    BY <1>1, <1>4, <2>3
  <2> QED
    BY <1>1, <2>1, <2>4 DEF next, r, size
<1> QED
  BY <1>7, <1>8

LEMMA FirstRecord ==
  ASSUME Given, Contiguous
  PROVE  RecordAt(1) = num(1) /\ First(RecordAt(1)) = 1
<1>1. /\ 1 \in Locs /\ Locs \subseteq Nat /\ Records \subseteq Nat /\ num(1) \in Records
      /\ Locs = 1 .. n /\ 1 \in RecordLocs(num(1)) /\ RecordLocs(num(1)) \subseteq Locs
  BY SampleTypes
<1>2. {t \in Records : t < num(1)} = {}
  <2>1. ASSUME NEW t \in Records PROVE ~(t < num(1))
    <3>1. PICK i \in Locs : t = num(i)
      BY DEF Records, num
    <3>2. 1 <= i
      BY <1>1
    <3>3. num(1) <= t
      BY <1>1, <3>1, <3>2, NumsAscend
    <3>4. t \in Nat /\ num(1) \in Nat
      BY <1>1
    <3> QED
      BY <3>3, <3>4
  <2> QED
    BY <2>1
<1>3. Rank(num(1)) = 1
  BY <1>2, FS_EmptySet DEF Rank
<1>4. RecordAt(1) = num(1)
  BY <1>1, <1>3, RanksOfRecords
<1>5. First(num(1)) = 1
  <2>1. \A l \in RecordLocs(num(1)) : l \in Nat /\ 1 <= l
    BY <1>1
  <2>2. First(num(1)) \in RecordLocs(num(1)) /\ First(num(1)) <= 1
    BY <1>1, <2>1 DEF First
  <2>3. First(num(1)) \in Nat /\ 1 <= First(num(1))
    BY <2>1, <2>2
  <2> QED
    BY <2>2, <2>3
<1> QED
  BY <1>4, <1>5

(* A profile has no location twice, and none of another record.            *)
LEMMA LocsOfProfile ==
  ASSUME Given, Contiguous, NEW j \in 1 .. nrecs
  PROVE  /\ Cardinality(Selected(RecordAt(j))) \in Nat
         /\ DOMAIN LocsOf(j) = 1 .. Cardinality(Selected(RecordAt(j)))
         /\ \A k \in DOMAIN LocsOf(j) : LocsOf(j)[k] \in RecordLocs(RecordAt(j))
         /\ \A k, l \in DOMAIN LocsOf(j) : LocsOf(j)[k] = LocsOf(j)[l] => k = l
         /\ \/ sample.sort # "descending"
            \/ Selected(RecordAt(j)) \in {{}, RecordLocs(RecordAt(j))}
            => Reach(j) = Selected(RecordAt(j))
<1> DEFINE r        == RecordAt(j)
           S        == Selected(r)
           selected == InOrder(S)
           size     == Cardinality(RecordLocs(r))
<1>1. /\ r \in Records /\ RecordLocs(r) \subseteq Nat /\ IsFiniteSet(RecordLocs(r))
      /\ S \subseteq RecordLocs(r) /\ IsFiniteSet(S) /\ Cardinality(S) \in Nat
  <2>1. r \in Records /\ RecordLocs(r) \subseteq Nat /\ IsFiniteSet(RecordLocs(r))
    BY SampleTypes, RanksOfRecords
  <2>2. S \subseteq RecordLocs(r)
    BY DEF Selected
  <2> QED
    BY <2>1, <2>2, FS_Subset, FS_CardinalityType
<1>2. Lists(selected, S) /\ Lists(recidx(r), RecordLocs(r))
  BY <1>1, InOrderLists, recidxLists
<1>3. /\ First(r) \in Nat /\ size \in Nat \ {0}
      /\ RecordLocs(r) = First(r) .. First(r) + size - 1
  BY <1>1, RecordIsInterval
<1> HIDE DEF r, S, selected, size
<1> DEFINE place(i) == IF sample.sort = "descending" THEN recidx(r)[i - First(r) + 1] ELSE i
<1>4. LocsOf(j) = [k \in DOMAIN selected |-> place(selected[k])]
  BY DEF LocsOf, r, S, selected
<1>5. ASSUME NEW i \in RecordLocs(r)
      PROVE  i - First(r) + 1 \in DOMAIN recidx(r) /\ place(i) \in RecordLocs(r)
  <2>1. i - First(r) + 1 \in 1 .. size
    BY <1>3
  <2> QED
    BY <1>2, <2>1 DEF Lists, size
<1>6. ASSUME NEW i \in RecordLocs(r), NEW l \in RecordLocs(r), place(i) = place(l) PROVE i = l
  <2>1. CASE sample.sort = "descending"
    <3>1. i - First(r) + 1 = l - First(r) + 1
      BY <1>2, <1>5, <1>6, <2>1 DEF Lists
    <3> QED
      BY <1>1, <1>3, <3>1
  <2> QED
    BY <1>6, <2>1
<1>7. ASSUME NEW i \in RecordLocs(r) PROVE \E l \in RecordLocs(r) : place(l) = i
  <2>1. CASE sample.sort = "descending"
    <3>1. PICK k \in DOMAIN recidx(r) : recidx(r)[k] = i
      BY <1>2 DEF Lists
    <3>2. k \in 1 .. size
      BY <1>2 DEF Lists, size
    <3>3. First(r) + k - 1 \in RecordLocs(r) /\ (First(r) + k - 1) - First(r) + 1 = k
      BY <1>3, <3>2
    <3> QED
      BY <2>1, <3>1, <3>3
  <2> QED
    BY <2>1
<1> HIDE DEF place
<1>8. /\ DOMAIN LocsOf(j) = 1 .. Cardinality(S)
      /\ \A k \in DOMAIN LocsOf(j) : /\ selected[k] \in S /\ k \in DOMAIN selected
                                     /\ LocsOf(j)[k] = place(selected[k])
  BY <1>2, <1>4 DEF Lists
<1>9. \A k \in DOMAIN LocsOf(j) : LocsOf(j)[k] \in RecordLocs(r)
  BY <1>1, <1>5, <1>8
<1>10. \A k, l \in DOMAIN LocsOf(j) : LocsOf(j)[k] = LocsOf(j)[l] => k = l
  <2>1. \A k, l \in DOMAIN LocsOf(j) : LocsOf(j)[k] = LocsOf(j)[l] => selected[k] = selected[l]
    BY <1>1, <1>6, <1>8
  <2> QED
    BY <1>2, <1>8, <2>1 DEF Lists
<1>11. Reach(j) = {place(i) : i \in S}
  <2>1. \A i \in S : \E k \in DOMAIN LocsOf(j) : selected[k] = i
    BY <1>2, <1>8 DEF Lists
  <2> QED
    BY <1>8, <2>1 DEF Reach
<1>12. sample.sort # "descending" \/ S \in {{}, RecordLocs(r)} => Reach(j) = S
  <2>1. CASE sample.sort # "descending"
    BY <1>11, <2>1 DEF place
  <2>2. CASE S = {}
    BY <1>11, <2>2
  <2>3. CASE S = RecordLocs(r)
    <3>1. \A i \in S : place(i) \in S
      BY <1>5, <2>3 DEF place
    <3> QED
      BY <1>7, <1>11, <2>3, <3>1
  <2> QED
    BY <2>1, <2>2, <2>3
<1> QED
  BY <1>1, <1>8, <1>9, <1>10, <1>12 DEF r, S

LEMMA ReachOfProfile ==
  ASSUME Given, Contiguous
  PROVE  /\ \A j \in 1 .. nrecs : /\ Reach(j) \subseteq Locs
                                  /\ \A i \in Reach(j) : num(i) = RecordAt(j)
         /\ \A j, l \in 1 .. nrecs : j # l => Reach(j) \cap Reach(l) = {}
<1>1. ASSUME NEW j \in 1 .. nrecs, NEW i \in Reach(j) PROVE i \in Locs /\ num(i) = RecordAt(j)
  <2>1. i \in RecordLocs(RecordAt(j))
    BY <1>1, LocsOfProfile DEF Reach
  <2> QED
    BY <2>1, SampleTypes
<1>2. ASSUME NEW j \in 1 .. nrecs, NEW l \in 1 .. nrecs, RecordAt(j) = RecordAt(l) PROVE j = l
  BY <1>2, RanksOfRecords
<1> QED
  BY <1>1, <1>2

LEMMA SampleKept ==
  ASSUME sample' = sample
  PROVE  /\ Locs' = Locs /\ Records' = Records /\ nrecs' = nrecs /\ n' = n
         /\ \A i : num(i)' = num(i)
         /\ \A r : Rank(r)' = Rank(r)
         /\ \A r : First(r)' = First(r)
         /\ \A j : RecordAt(j)' = RecordAt(j)
         /\ \A j : LocsOf(j)' = LocsOf(j)
         /\ \A j : Reach(j)' = Reach(j)
         /\ Contiguous' = Contiguous /\ Given' = Given /\ Throws' = Throws
<1>1. Locs' = Locs /\ Records' = Records /\ nrecs' = nrecs /\ n' = n
  BY DEF Locs, Records, nrecs, n
<1>2. \A i : num(i)' = num(i)
  BY DEF num
<1>3. \A r : Rank(r)' = Rank(r)
  BY DEF Rank, Records, Locs
<1>4. \A r : First(r)' = First(r)
  BY DEF First, RecordLocs, Locs
<1>5. \A j : RecordAt(j)' = RecordAt(j)
  BY DEF RecordAt, Rank, Records, Locs
<1>6. \A j : LocsOf(j)' = LocsOf(j)
  BY DEF LocsOf, InOrder, Selected, recidx, First, RecordAt, Rank, Records, RecordLocs, Locs
<1>7. \A j : Reach(j)' = Reach(j)
  BY <1>6 DEF Reach
<1>8. Contiguous' = Contiguous
  BY DEF Contiguous, num, Locs
<1>9. Given' = Given
  BY DEF Given
<1>10. Throws' = Throws
  BY DEF Throws, nrecs, Records, Locs
<1> QED
  BY <1>1, <1>2, <1>3, <1>4, <1>5, <1>6, <1>7, <1>8, <1>9, <1>10

-----------------------------------------------------------------------------
(* Where the filter is, and the walk through the profiles: initialising the *)
(* next one leads to the same locations in every loop.                     *)

ShapeInv ==
  /\ sample \in Samples
  /\ pc \in {"start", "initialise", "use", "update", "done", "thrown"}
  /\ loop \in {"none", "check", "fill", "move"}
  /\ loop = "none" <=> pc \in {"start", "done", "thrown"}
  /\ pc = "update" => loop = "check"
  /\ pc = "thrown" <=> Throws
  /\ group \in 1 .. Len(sample.groups) + 1
  /\ pc = "done" <=> group = Len(sample.groups) + 1
  /\ loop = "check" => sample.groups[group] = "profile"
  /\ loop \in {"fill", "move"} => sample.groups[group] = "sample"

WalkInv ==
  loop # "none" =>
    /\ jprof \in 0 .. nrecs
    /\ cursor.profIndex = IF jprof < nrecs THEN First(RecordAt(jprof + 1)) ELSE n + 1
    /\ jprof < nrecs => cursor.toFind = RecordAt(jprof + 1) /\ cursor.record = jprof + 1
    /\ pc \in {"use", "update"} => /\ jprof >= 1 /\ cursor.current = RecordAt(jprof)
                                   /\ profileIndices = LocsOf(jprof)

LEMMA ShapeInit == ProfilesAssumption /\ Init => ShapeInv
<1> SUFFICES ASSUME ProfilesAssumption, Init PROVE ShapeInv
  OBVIOUS
<1>1. sample.groups \in Seq({"profile", "sample", "filter"}) /\ sample.groups # <<>>
  BY DEF Init, ProfilesAssumption
<1>2. Len(sample.groups) \in Nat /\ Len(sample.groups) >= 1
  BY <1>1
<1> QED
  BY <1>2 DEF Init, ShapeInv

LEMMA ShapeStep ==
  ASSUME ProfilesAssumption, ShapeInv, [Next]_vars
  PROVE  /\ ShapeInv' /\ sample' = sample /\ Given
         /\ StartFilter => group < Len(sample.groups)
<1>1. sample' = sample
  BY DEF Next, StartFilter, StartGroup, initialiseNextProfile, runChecks, updateProfile,
         fillHolder, checkEntireSample, moveHolder, writeQuantitiesToObsdb, Stopped, vars
<1>2. /\ Given /\ sample.groups \in Seq({"profile", "sample", "filter"}) /\ sample.groups # <<>>
      /\ sample.groups[Len(sample.groups)] # "filter"
  BY DEF Given, ProfilesAssumption, ShapeInv
<1>3. /\ Len(sample.groups) \in Nat /\ Len(sample.groups) >= 1
      /\ \A g \in 1 .. Len(sample.groups) : sample.groups[g] \in {"profile", "sample", "filter"}
  BY <1>2
<1>4. Throws' = Throws
  BY <1>1, SampleKept
<1>5. pc = "start" => group \in 1 .. Len(sample.groups)
  BY <1>3 DEF ShapeInv
<1>6. StartFilter => group < Len(sample.groups)
  BY <1>2, <1>3, <1>5 DEF StartFilter
<1>7. ShapeInv'
  <2>1. CASE StartFilter
    BY <1>1, <1>3, <1>4, <1>5, <1>6, <2>1 DEF StartFilter, ShapeInv
  <2>2. CASE StartGroup
    BY <1>1, <1>3, <1>4, <1>5, <2>2 DEF StartGroup, ShapeInv
  <2>3. CASE initialiseNextProfile
    BY <1>1, <1>3, <1>4, <2>3 DEF initialiseNextProfile, ShapeInv
  <2>4. CASE runChecks \/ updateProfile \/ fillHolder
    BY <1>1, <1>3, <1>4, <2>4 DEF runChecks, updateProfile, fillHolder, ShapeInv
  <2>5. CASE checkEntireSample \/ moveHolder
    BY <1>1, <1>3, <1>4, <2>5 DEF checkEntireSample, moveHolder, ShapeInv
  <2>6. CASE writeQuantitiesToObsdb
    BY <1>1, <1>3, <1>4, <2>6 DEF writeQuantitiesToObsdb, ShapeInv
  <2>7. CASE Stopped \/ UNCHANGED vars
    BY <1>1, <1>4, <2>7 DEF Stopped, vars, ShapeInv
  <2> QED
    BY <2>1, <2>2, <2>3, <2>4, <2>5, <2>6, <2>7 DEF Next
<1> QED
  BY <1>1, <1>2, <1>6, <1>7

LEMMA InitialiseWalk ==
  ASSUME Given, Contiguous, ShapeInv, WalkInv, initialiseNextProfile
  PROVE  WalkInv'
<1> DEFINE r    == RecordAt(jprof + 1)
           size == Cardinality(RecordLocs(r))
<1>1. /\ loop # "none" /\ pc = "initialise" /\ jprof < nrecs /\ jprof \in 0 .. nrecs
      /\ nrecs \in Nat /\ jprof + 1 \in 1 .. nrecs
      /\ jprof' = jprof + 1 /\ pc' = "use" /\ sample' = sample /\ loop' = loop
  BY SampleTypes DEF initialiseNextProfile, ShapeInv, WalkInv
<1>2. /\ cursor.profIndex = First(r) /\ cursor.toFind = r /\ cursor.record = jprof + 1
  BY <1>1 DEF WalkInv
<1>3. /\ r \in Records /\ First(r) \in RecordLocs(r) /\ First(r) \in Nat /\ size \in Nat \ {0}
      /\ RecordLocs(r) = First(r) .. First(r) + size - 1
  BY <1>1, RanksOfRecords, RecordIsInterval
<1>4. Run = RecordLocs(r)
  <2>1. \A i \in Locs : i \in Nat /\ i \in RecordLocs(num(i))
    BY SampleTypes
  <2>2. RecordLocs(r) \subseteq Locs /\ \A i \in RecordLocs(r) : num(i) = r
    BY SampleTypes
  <2>3. Run = {i \in Locs : First(r) <= i /\ \A k \in First(r) .. i : num(k) = r}
    BY <1>2 DEF Run, num
  <2> HIDE DEF r, size
  <2>4. ASSUME NEW i \in Run PROVE i \in RecordLocs(r)
    <3>1. i \in Locs /\ First(r) <= i /\ i \in First(r) .. i
      BY <1>3, <2>1, <2>3
    <3>2. num(i) = r
      BY <2>3, <3>1
    <3> QED
      BY <2>1, <3>1, <3>2
  <2>5. ASSUME NEW i \in RecordLocs(r) PROVE i \in Run
    <3>1. i \in Locs /\ First(r) <= i /\ \A k \in First(r) .. i : k \in RecordLocs(r)
      BY <1>3, <2>2
    <3> QED
      BY <2>2, <2>3, <3>1
  <2> QED
    BY <2>4, <2>5
<1>5. profileIndices' = LocsOf(jprof + 1)
  <2>1. profileIndices' = NextIndices
    BY DEF initialiseNextProfile, updateNextProfileIndices
  <2>2. Run \cap sample.apply = Selected(r)
    BY <1>4 DEF Selected
  <2>3. \A i : sortedLocation(i) = IF sample.sort = "descending" THEN recidx(r)[i - First(r) + 1] ELSE i
    BY <1>2 DEF sortedLocation, RecordAt
  <2>4. NextIndices = [k \in DOMAIN InOrder(Selected(r)) |-> sortedLocation(InOrder(Selected(r))[k])]
    BY <2>2 DEF NextIndices
  <2> DEFINE selected == InOrder(Selected(r))
             place(i) == IF sample.sort = "descending" THEN recidx(r)[i - First(r) + 1] ELSE i
  <2>5. LocsOf(jprof + 1) = [k \in DOMAIN selected |-> place(selected[k])]
    BY DEF LocsOf
  <2>6. NextIndices = [k \in DOMAIN selected |-> place(selected[k])]
    <3> HIDE DEF selected
    <3>1. NextIndices = [k \in DOMAIN selected |-> sortedLocation(selected[k])]
      BY <2>4 DEF selected
    <3>2. \A i : sortedLocation(i) = place(i)
      BY <2>3
    <3> HIDE DEF place
    <3> QED
      BY <3>1, <3>2
  <2> QED
    BY <2>1, <2>5, <2>6
<1>6. /\ cursor'.current = r /\ cursor'.profIndex = First(r) + size
      /\ First(r) + size \in Locs => /\ cursor'.toFind = num(First(r) + size)
                                     /\ cursor'.record = jprof + 2
  <2>1. cursor' = [profIndex |-> First(r) + size, current |-> r,
                   toFind |-> IF First(r) + size \in Locs THEN num(First(r) + size) ELSE r,
                   record |-> IF First(r) + size \in Locs THEN (jprof + 1) + 1 ELSE jprof + 1]
    BY <1>2, <1>4 DEF initialiseNextProfile, updateNextProfileIndices, num
  <2> HIDE DEF r, size
  <2> QED
    BY <1>1, <2>1
<1>7. /\ jprof + 1 < nrecs => /\ First(r) + size \in Locs
                              /\ First(r) + size = First(RecordAt((jprof + 1) + 1))
                              /\ num(First(r) + size) = RecordAt((jprof + 1) + 1)
      /\ jprof + 1 = nrecs => First(r) + size = n + 1
  BY <1>1, NextRecord
<1>8. /\ nrecs' = nrecs /\ n' = n /\ \A x : First(x)' = First(x)
      /\ \A j : RecordAt(j)' = RecordAt(j) /\ LocsOf(j)' = LocsOf(j)
  BY <1>1, SampleKept
<1>9. cursor'.profIndex = IF jprof' < nrecs THEN First(RecordAt(jprof' + 1)) ELSE n + 1
  BY <1>1, <1>6, <1>7
<1>10. jprof' < nrecs => cursor'.toFind = RecordAt(jprof' + 1) /\ cursor'.record = jprof' + 1
  BY <1>1, <1>6, <1>7
<1>11. /\ jprof' \in 0 .. nrecs /\ jprof' >= 1 /\ cursor'.current = RecordAt(jprof')
       /\ profileIndices' = LocsOf(jprof')
  BY <1>1, <1>5, <1>6
<1>12. PICK j : j = jprof'
  OBVIOUS
<1>13. First(RecordAt(j + 1))' = First(RecordAt(j + 1))
  <2>1. PICK x : x = RecordAt(j + 1)
    OBVIOUS
  <2>2. RecordAt(j + 1)' = x /\ First(x)' = First(x)
    BY <1>8, <2>1
  <2> QED
    BY <2>1, <2>2
<1> QED
  BY <1>8, <1>9, <1>10, <1>11, <1>12, <1>13 DEF WalkInv

LEMMA WalkStep ==
  ASSUME Given, Contiguous, ShapeInv, WalkInv, [Next]_vars, sample' = sample
  PROVE  WalkInv'
<1>0. /\ nrecs' = nrecs /\ n' = n /\ nrecs \in Nat /\ nrecs >= 1
      /\ \A j : RecordAt(j)' = RecordAt(j) /\ LocsOf(j)' = LocsOf(j)
  BY SampleKept, SampleTypes
<1>1. CASE initialiseNextProfile
  BY <1>1, InitialiseWalk
<1>2. ASSUME jprof' = 0, cursor' = Reset, pc' = "initialise" PROVE WalkInv'
  <2>1. cursor'.profIndex = 1 /\ cursor'.toFind = num(1) /\ cursor'.record = 1
    BY <1>2 DEF Reset, num
  <2>2. RecordAt(1) = num(1) /\ First(RecordAt(1)) = 1
    BY FirstRecord
  <2>3. RecordAt(0 + 1)' = num(1) /\ First(RecordAt(0 + 1))' = 1
    <3>1. PICK x : x = RecordAt(1)
      OBVIOUS
    <3>2. First(x)' = First(x) /\ RecordAt(1)' = x
      BY <1>0, <3>1, SampleKept
    <3> QED
      BY <2>2, <3>1, <3>2
  <2> QED
    BY <1>0, <1>2, <2>1, <2>3 DEF WalkInv
<1>3. CASE StartGroup \/ checkEntireSample
  BY <1>2, <1>3 DEF StartGroup, checkEntireSample
<1>4. CASE StartFilter \/ writeQuantitiesToObsdb
  BY <1>4 DEF StartFilter, writeQuantitiesToObsdb, WalkInv, ShapeInv
<1>5. CASE runChecks \/ updateProfile \/ fillHolder \/ moveHolder \/ Stopped \/ UNCHANGED vars
  <2>1. /\ UNCHANGED <<loop, jprof, cursor, profileIndices>> \/ (loop' = "none" /\ loop = "none")
        /\ pc' \in {"use", "update"} => pc \in {"use", "update"}
    BY <1>5 DEF runChecks, updateProfile, fillHolder, moveHolder, Stopped, vars
  <2>2. CASE loop' = "none"
    BY <2>2 DEF WalkInv
  <2>3. CASE loop' # "none"
    <3>1. UNCHANGED <<loop, jprof, cursor, profileIndices>>
      BY <2>1, <2>3
    <3>2. PICK j : j = jprof
      OBVIOUS
    <3>3. First(RecordAt(j + 1))' = First(RecordAt(j + 1))
      <4>1. PICK x : x = RecordAt(j + 1)
        OBVIOUS
      <4>2. RecordAt(j + 1)' = x /\ First(x)' = First(x)
        BY <1>0, <4>1, SampleKept
      <4> QED
        BY <4>1, <4>2
    <3> QED
      BY <1>0, <2>1, <3>1, <3>2, <3>3 DEF WalkInv
  <2> QED
    BY <2>2, <2>3
<1> QED
  BY <1>1, <1>3, <1>4, <1>5 DEF Next

-----------------------------------------------------------------------------
(* What the caches and the obs space should hold: the value at i, and those *)
(* of the profile j.                                                       *)

Vars == {"flags", "report", "errors"}

Dom(var)    == IF var = "errors" /\ sample.errorsPerProfile THEN 1 .. nrecs ELSE Locs
At(var, j)  == IF var = "errors" /\ sample.errorsPerProfile THEN <<j>> ELSE LocsOf(j)
AtSet(var, j) == {At(var, j)[k] : k \in DOMAIN At(var, j)}

IsFailed(j) == found.errors[RecordAt(j)] > sample.nErrorsFail

IsFirst(i) == \E j \in 1 .. nrecs : 1 \in DOMAIN LocsOf(j) /\ i = LocsOf(j)[1]

Truth(var, i) ==
  IF var = "flags" THEN IF i \in found.flags THEN 1 ELSE 0
  ELSE IF var = "report" THEN IF \E j \in 1 .. nrecs : i \in Reach(j) /\ IsFailed(j) THEN 1 ELSE 0
  ELSE IF sample.errorsPerProfile THEN found.errors[RecordAt(i)]
  ELSE IF IsFirst(i) THEN found.errors[num(i)] ELSE 0

Image(var, j) == [k \in DOMAIN At(var, j) |-> Truth(var, At(var, j)[k])]

(* The values of a variable in the cache s of the sample, or behind it.     *)
Value(s, var) == IF var \in DOMAIN s THEN s[var]
                 ELSE IF var \in DOMAIN obsdb THEN obsdb[var] ELSE Default(var)

(* What has been found is where a check has looked.                        *)
FoundInv ==
  /\ found \in [flags : SUBSET Locs, errors : [Records -> Nat]]
  /\ found.flags \subseteq UNION {Reach(j) : j \in 1 .. nrecs}
  /\ \A j \in 1 .. nrecs : DOMAIN LocsOf(j) = {} => found.errors[RecordAt(j)] = 0

LEMMA EmptyFunction ==
  ASSUME NEW f, DOMAIN f = {}, f = [x \in DOMAIN f |-> f[x]]
  PROVE  f = <<>>
OBVIOUS

LEMMA AtOfProfile ==
  ASSUME Given, Contiguous, NEW var \in Vars, NEW j \in 1 .. nrecs
  PROVE  /\ Dom(var) # {}
         /\ AtSet(var, j) \subseteq Dom(var)
         /\ \A k, l \in DOMAIN At(var, j) : At(var, j)[k] = At(var, j)[l] => k = l
         /\ \A k \in DOMAIN At(var, j) : At(var, j)[k] \in AtSet(var, j)
         /\ \A l \in 1 .. nrecs : j # l => AtSet(var, j) \cap AtSet(var, l) = {}
         /\ DOMAIN At(var, j) # {} => 1 \in DOMAIN At(var, j)
         /\ var # "errors" => AtSet(var, j) = Reach(j) /\ At(var, j) = LocsOf(j) /\ Dom(var) = Locs
<1>1. /\ 1 \in Locs /\ nrecs \in Nat /\ nrecs >= 1 /\ Reach(j) \subseteq Locs
      /\ \A l \in 1 .. nrecs : j # l => Reach(j) \cap Reach(l) = {}
      /\ \A k, l \in DOMAIN LocsOf(j) : LocsOf(j)[k] = LocsOf(j)[l] => k = l
      /\ \A k \in DOMAIN LocsOf(j) : LocsOf(j)[k] \in Reach(j)
  BY SampleTypes, ReachOfProfile, LocsOfProfile DEF Reach
<1>2. DOMAIN LocsOf(j) # {} => 1 \in DOMAIN LocsOf(j)
  BY LocsOfProfile
<1>3. CASE var = "errors" /\ sample.errorsPerProfile
  <2>1. \A l : At(var, l) = <<l>> /\ AtSet(var, l) = {l}
    BY <1>3 DEF At, AtSet
  <2>2. Dom(var) = 1 .. nrecs /\ 1 \in 1 .. nrecs
    BY <1>1, <1>3 DEF Dom
  <2>3. DOMAIN <<j>> = {1} /\ <<j>>[1] = j
    OBVIOUS
  <2>4. AtSet(var, j) \subseteq Dom(var) /\ Dom(var) # {}
    BY <2>1, <2>2
  <2>5. /\ DOMAIN At(var, j) # {} => 1 \in DOMAIN At(var, j)
        /\ \A k, l \in DOMAIN At(var, j) : At(var, j)[k] = At(var, j)[l] => k = l
        /\ \A k \in DOMAIN At(var, j) : At(var, j)[k] \in AtSet(var, j)
    BY <2>1, <2>3
  <2>6. \A l \in 1 .. nrecs : j # l => AtSet(var, j) \cap AtSet(var, l) = {}
    BY <2>1
  <2> QED
    BY <1>3, <2>4, <2>5, <2>6
<1>4. CASE ~(var = "errors" /\ sample.errorsPerProfile)
  <2>1. \A l : At(var, l) = LocsOf(l) /\ AtSet(var, l) = Reach(l)
    BY <1>4 DEF At, AtSet, Reach
  <2>2. Dom(var) = Locs
    BY <1>4 DEF Dom
  <2> QED
    BY <1>1, <1>2, <1>4, <2>1, <2>2
<1> QED
  BY <1>3, <1>4

LEMMA TruthOfProfile ==
  ASSUME Given, Contiguous, FoundInv, NEW j \in 1 .. nrecs
  PROVE  /\ \A i : Truth("flags", i) = IF i \in found.flags THEN 1 ELSE 0
         /\ \A i \in Reach(j) : Truth("report", i) = IF IsFailed(j) THEN 1 ELSE 0
         /\ 1 \in DOMAIN At("errors", j) =>
              Truth("errors", At("errors", j)[1]) = found.errors[RecordAt(j)]
         /\ \A k \in DOMAIN At("errors", j) \ {1} : Truth("errors", At("errors", j)[k]) = 0
         /\ found.errors[RecordAt(j)] \in Nat /\ sample.nErrorsFail \in Nat
<1>1. /\ \A l \in 1 .. nrecs : j # l => Reach(j) \cap Reach(l) = {}
      /\ \A i \in Reach(j) : num(i) = RecordAt(j)
  BY ReachOfProfile
<1>2. \A i \in Reach(j) : Truth("report", i) = IF IsFailed(j) THEN 1 ELSE 0
  BY <1>1 DEF Truth
<1>3. \A l \in 1 .. nrecs : \A k \in DOMAIN LocsOf(l) : LocsOf(l)[k] \in Reach(l)
  BY DEF Reach
<1> DEFINE Errors ==
             /\ 1 \in DOMAIN At("errors", j) =>
                  Truth("errors", At("errors", j)[1]) = found.errors[RecordAt(j)]
             /\ \A k \in DOMAIN At("errors", j) \ {1} : Truth("errors", At("errors", j)[k]) = 0
<1>4. ASSUME sample.errorsPerProfile PROVE Errors
  <2>1. At("errors", j) = <<j>> /\ \A i : Truth("errors", i) = found.errors[RecordAt(i)]
    BY <1>4 DEF At, Truth
  <2>2. DOMAIN <<j>> = {1} /\ <<j>>[1] = j
    OBVIOUS
  <2> QED
    BY <2>1, <2>2
<1>5. ASSUME ~sample.errorsPerProfile PROVE Errors
  <2>1. At("errors", j) = LocsOf(j)
    BY <1>5 DEF At
  <2>2. 1 \in DOMAIN LocsOf(j) => Truth("errors", LocsOf(j)[1]) = found.errors[RecordAt(j)]
    <3> SUFFICES ASSUME 1 \in DOMAIN LocsOf(j)
                 PROVE  Truth("errors", LocsOf(j)[1]) = found.errors[RecordAt(j)]
      OBVIOUS
    <3>1. IsFirst(LocsOf(j)[1]) /\ num(LocsOf(j)[1]) = RecordAt(j)
      BY <1>1, <1>3 DEF IsFirst
    <3> QED
      BY <1>5, <3>1 DEF Truth
  <2>3. ASSUME NEW k \in DOMAIN LocsOf(j), k # 1 PROVE ~IsFirst(LocsOf(j)[k])
    <3>1. ASSUME NEW l \in 1 .. nrecs, 1 \in DOMAIN LocsOf(l), LocsOf(j)[k] = LocsOf(l)[1] PROVE FALSE
      <4>1. l = j
        BY <1>1, <1>3, <3>1
      <4> QED
        BY <2>3, <3>1, <4>1, LocsOfProfile
    <3> QED
      BY <3>1 DEF IsFirst
  <2>4. \A i : ~IsFirst(i) => Truth("errors", i) = 0
    BY <1>5 DEF Truth
  <2> QED
    BY <2>1, <2>2, <2>3, <2>4
<1>6. \A i : Truth("flags", i) = IF i \in found.flags THEN 1 ELSE 0
  BY DEF Truth
<1>7. found.errors[RecordAt(j)] \in Nat /\ sample.nErrorsFail \in Nat
  BY RanksOfRecords DEF FoundInv, Given, ProfilesAssumption
<1>8. Errors
  BY <1>4, <1>5 DEF Given, ProfilesAssumption
<1> QED
  BY <1>2, <1>6, <1>7, <1>8

LEMMA TruthIsNat ==
  ASSUME Given, Contiguous, FoundInv, NEW var \in Vars, NEW i \in Dom(var)
  PROVE  Truth(var, i) \in Nat
<1>1. CASE var = "errors" /\ sample.errorsPerProfile
  <2>1. RecordAt(i) \in Records
    BY <1>1, RanksOfRecords DEF Dom
  <2> QED
    BY <1>1, <2>1 DEF Truth, FoundInv
<1>2. CASE var = "errors" /\ ~sample.errorsPerProfile
  <2>1. num(i) \in Records
    BY <1>2, SampleTypes DEF Dom
  <2> QED
    BY <1>2, <2>1 DEF Truth, FoundInv
<1>3. CASE var # "errors"
  BY <1>3 DEF Truth, Vars
<1> QED
  BY <1>1, <1>2, <1>3

-----------------------------------------------------------------------------
(* The caches.                                                             *)

LEMMA SampleGetLoads ==
  ASSUME {"flags", "report"} \subseteq DOMAIN obsdb, NEW s, NEW var \in Vars
  PROVE  /\ DOMAIN SampleGet(s, var) = DOMAIN s \cup {var}
         /\ \A v \in DOMAIN s : SampleGet(s, var)[v] = s[v]
         /\ SampleGet(s, var)[var] = Value(s, var)
         /\ \A v : Value(SampleGet(s, var), v) = Value(s, v)
<1>1. CASE var \in DOMAIN s
  BY <1>1 DEF SampleGet, Value
<1>2. CASE var \notin DOMAIN s
  <2>1. SampleGet(s, var) = With(s, var, Value(s, var))
    BY <1>2 DEF SampleGet, Value, Vars
  <2>2. SampleGet(s, var) = [v \in {var} \cup DOMAIN s |-> IF v \in {var} THEN Value(s, var) ELSE s[v]]
    BY <2>1 DEF With, Over
  <2>3. /\ DOMAIN SampleGet(s, var) = DOMAIN s \cup {var}
        /\ \A v \in DOMAIN s : SampleGet(s, var)[v] = s[v]
        /\ SampleGet(s, var)[var] = Value(s, var)
    BY <1>2, <2>2
  <2>4. \A v : Value(SampleGet(s, var), v) = Value(s, v)
    BY <2>3 DEF Value
  <2> QED
    BY <2>3, <2>4
<1> QED
  BY <1>1, <1>2

Part(all, at) == [k \in DOMAIN at |-> all[at[k]]]

Adds(g, d, var, x) ==
  /\ DOMAIN g = DOMAIN d \cup {var} /\ \A v \in DOMAIN d : g[v] = d[v]
  /\ var \notin DOMAIN d => g[var] = x
  /\ d = [v \in DOMAIN d |-> d[v]] => g = [v \in DOMAIN g |-> g[v]]

LEMMA getLoads ==
  ASSUME {"flags", "report"} \subseteq DOMAIN obsdb, NEW d, NEW s, NEW var \in Vars,
         Value(s, var) # <<>>
  PROVE  Adds(get(d, s, var), d, var, Part(Value(s, var), Indices(var)))
<1>1. CASE var \in DOMAIN d
  BY <1>1 DEF get, Adds
<1>2. CASE var \notin DOMAIN d
  <2> DEFINE x == Part(Value(s, var), Indices(var))
  <2>1. SampleGet(s, var)[var] = Value(s, var)
    BY SampleGetLoads
  <2>2. get(d, s, var) = With(d, var, x)
    BY <1>2, <2>1 DEF get, Part
  <2> HIDE DEF x
  <2>3. get(d, s, var) = [v \in {var} \cup DOMAIN d |-> IF v \in {var} THEN x ELSE d[v]]
    BY <2>2 DEF With, Over
  <2>4. /\ DOMAIN get(d, s, var) = DOMAIN d \cup {var} /\ get(d, s, var)[var] = x
        /\ \A v \in DOMAIN d : get(d, s, var)[v] = d[v]
        /\ get(d, s, var) = [v \in DOMAIN get(d, s, var) |-> get(d, s, var)[v]]
    BY <1>2, <2>3
  <2> QED
    BY <2>4 DEF x, Adds
<1> QED
  BY <1>1, <1>2

(* Values arrive at the locations of the profile and nowhere else.         *)
LEMMA UpdatedArrive ==
  ASSUME NEW D, NEW all \in [D -> Nat], D # {}, NEW at, NEW values, DOMAIN values = DOMAIN at,
         \A k, l \in DOMAIN at : at[k] = at[l] => k = l,
         \A k \in DOMAIN at : at[k] \in D /\ values[k] \in Nat
  PROVE  /\ Updated(all, values, at) \in [D -> Nat]
         /\ \A k \in DOMAIN at : Updated(all, values, at)[at[k]] = values[k]
         /\ \A i \in D : (\A k \in DOMAIN at : at[k] # i) => Updated(all, values, at)[i] = all[i]
<1>1. all # <<>>
  OBVIOUS
<1>2. CASE values = <<>>
  BY <1>2 DEF Updated
<1>3. CASE values # <<>>
  <2> DEFINE k(i) == CHOOSE l \in DOMAIN at : at[l] = i
  <2>1. Updated(all, values, at) =
          [i \in D |-> IF \E l \in DOMAIN at : at[l] = i THEN values[k(i)] ELSE all[i]]
    BY <1>1, <1>3 DEF Updated
  <2>2. \A i \in D : (\E l \in DOMAIN at : at[l] = i) => k(i) \in DOMAIN at /\ at[k(i)] = i
    OBVIOUS
  <2> HIDE DEF k
  <2>3. \A l \in DOMAIN at : k(at[l]) = l
    BY <2>2
  <2> QED
    BY <2>1, <2>2, <2>3
<1> QED
  BY <1>2, <1>3

LEMMA IndicesAt ==
  ASSUME Given, Contiguous, ShapeInv, WalkInv, pc \in {"use", "update"}
  PROVE  /\ jprof \in 1 .. nrecs /\ profileIndices = LocsOf(jprof) /\ cursor.current = RecordAt(jprof)
         /\ \A var \in Vars : Indices(var) = At(var, jprof)
<1>1. /\ jprof \in 1 .. nrecs /\ profileIndices = LocsOf(jprof) /\ cursor.current = RecordAt(jprof)
      /\ nrecs \in Nat
  BY SampleTypes DEF ShapeInv, WalkInv
<1>2. Rank(cursor.current) = jprof
  BY <1>1, RanksOfRecords
<1> QED
  BY <1>1, <1>2 DEF Indices, At

-----------------------------------------------------------------------------
(* updateProfileInformation: what is in the cache d of the profile j is     *)
(* right, and so becomes what is in the cache of the sample.               *)

Loaded(d, s) == get(get(d, s, "report"), s, "errors")
Final(d, s)  == setFinalReportFlags(Loaded(d, s))
Stored(d, s) == UpdatedSample(Final(d, s), SampleGet(SampleGet(s, "report"), "errors"))

Typed(s) == /\ DOMAIN s \subseteq Vars
            /\ \A var \in Vars : Value(s, var) \in [Dom(var) -> Nat]

(* A report may wait to be rejected: it has not been looked at.             *)
Ready(d, s, j) ==
  /\ DOMAIN d \subseteq DOMAIN s
  /\ \A var \in DOMAIN d : d[var] = Image(var, j)
  /\ \A var \in {"flags", "errors"} \ DOMAIN d : \A i \in AtSet(var, j) : Value(s, var)[i] = Truth(var, i)
  /\ "report" \notin DOMAIN d => \A i \in Reach(j) : Value(s, "report")[i] <= Truth("report", i)

LEMMA UpdatedSampleValues ==
  ASSUME Given, Contiguous, FoundInv, ShapeInv, WalkInv, pc \in {"use", "update"},
         NEW s, Typed(s), NEW f, DOMAIN f \subseteq DOMAIN s,
         \A var \in DOMAIN f : f[var] = Image(var, jprof)
  PROVE  /\ DOMAIN UpdatedSample(f, s) = DOMAIN s
         /\ Typed(UpdatedSample(f, s))
         /\ \A var \in Vars : \A i \in Dom(var) :
              Value(UpdatedSample(f, s), var)[i] =
                IF var \in DOMAIN f /\ i \in AtSet(var, jprof) THEN Truth(var, i) ELSE Value(s, var)[i]
<1> DEFINE u == UpdatedSample(f, s)
<1>1. DOMAIN u = DOMAIN s /\ DOMAIN s \subseteq Vars
  BY DEF UpdatedSample, Typed
<1>2. jprof \in 1 .. nrecs /\ \A var \in Vars : Indices(var) = At(var, jprof)
  BY IndicesAt
<1>3. ASSUME NEW var \in Vars
      PROVE  /\ Value(u, var) \in [Dom(var) -> Nat]
             /\ \A i \in Dom(var) :
                  Value(u, var)[i] =
                    IF var \in DOMAIN f /\ i \in AtSet(var, jprof) THEN Truth(var, i) ELSE Value(s, var)[i]
  <2>1. CASE var \notin DOMAIN f
    <3>1. Value(u, var) = Value(s, var)
      BY <1>1, <2>1 DEF Value, UpdatedSample
    <3> QED
      BY <2>1, <3>1 DEF Typed
  <2>2. CASE var \in DOMAIN f
    <3>1. /\ Value(u, var) = Updated(s[var], f[var], At(var, jprof)) /\ Value(s, var) = s[var]
          /\ s[var] \in [Dom(var) -> Nat]
      BY <1>1, <1>2, <2>2 DEF Value, UpdatedSample, Typed
    <3>2. /\ DOMAIN f[var] = DOMAIN At(var, jprof)
          /\ \A k \in DOMAIN At(var, jprof) : f[var][k] = Truth(var, At(var, jprof)[k])
      BY <2>2 DEF Image
    <3>3. /\ Dom(var) # {}
          /\ \A k, l \in DOMAIN At(var, jprof) : At(var, jprof)[k] = At(var, jprof)[l] => k = l
          /\ \A k \in DOMAIN At(var, jprof) : At(var, jprof)[k] \in Dom(var)
      BY <1>2, AtOfProfile
    <3>4. \A k \in DOMAIN At(var, jprof) : f[var][k] \in Nat
      BY <3>2, <3>3, TruthIsNat
    <3> DEFINE after == Updated(s[var], f[var], At(var, jprof))
    <3>5. /\ after \in [Dom(var) -> Nat]
          /\ \A k \in DOMAIN At(var, jprof) : after[At(var, jprof)[k]] = f[var][k]
          /\ \A i \in Dom(var) : (\A k \in DOMAIN At(var, jprof) : At(var, jprof)[k] # i) => after[i] = s[var][i]
      BY <3>1, <3>2, <3>3, <3>4, UpdatedArrive
    <3> HIDE DEF after
    <3>6. \A i \in Dom(var) : after[i] = IF i \in AtSet(var, jprof) THEN Truth(var, i) ELSE s[var][i]
      BY <3>2, <3>5 DEF AtSet
    <3>7. Value(u, var) = after
      BY <3>1 DEF after
    <3> QED
      BY <2>2, <3>1, <3>5, <3>6, <3>7
  <2> QED
    BY <2>1, <2>2
<1> HIDE DEF u
<1>4. Typed(u)
  BY <1>1, <1>3 DEF Typed
<1> QED
  BY <1>1, <1>3, <1>4 DEF u

LEMMA LoadedValues ==
  ASSUME Given, Contiguous, FoundInv, ShapeInv, WalkInv, pc \in {"use", "update"},
         {"flags", "report"} \subseteq DOMAIN obsdb,
         NEW d, NEW s, Typed(s), Ready(d, s, jprof)
  PROVE  /\ DOMAIN Loaded(d, s) = DOMAIN d \cup {"report", "errors"}
         /\ \A var \in {"flags", "errors"} \cap DOMAIN Loaded(d, s) : Loaded(d, s)[var] = Image(var, jprof)
         /\ DOMAIN Loaded(d, s)["report"] = DOMAIN LocsOf(jprof)
         /\ Loaded(d, s)["report"] = [k \in DOMAIN LocsOf(jprof) |-> Loaded(d, s)["report"][k]]
         /\ \A k \in DOMAIN LocsOf(jprof) :
              /\ Loaded(d, s)["report"][k] \in Nat
              /\ Loaded(d, s)["report"][k] <= Truth("report", LocsOf(jprof)[k])
<1> DEFINE r == get(d, s, "report")
           l == Loaded(d, s)
<1>1. jprof \in 1 .. nrecs /\ \A var \in Vars : Indices(var) = At(var, jprof)
  BY IndicesAt
<1>2. /\ \A var \in Vars : Value(s, var) \in [Dom(var) -> Nat] /\ Dom(var) # {}
      /\ At("report", jprof) = LocsOf(jprof) /\ Dom("report") = Locs
      /\ \A var \in Vars : \A k \in DOMAIN At(var, jprof) :
           At(var, jprof)[k] \in AtSet(var, jprof) /\ At(var, jprof)[k] \in Dom(var)
      /\ AtSet("report", jprof) = Reach(jprof)
  BY <1>1, AtOfProfile DEF Typed, Vars
<1>3. \A var \in Vars : Value(s, var) # <<>>
  BY <1>2
<1>4. /\ DOMAIN r = DOMAIN d \cup {"report"} /\ \A v \in DOMAIN d : r[v] = d[v]
      /\ "report" \notin DOMAIN d =>
           r["report"] = Part(Value(s, "report"), LocsOf(jprof))
  <2>1. "report" \in Vars /\ Indices("report") = LocsOf(jprof) /\ Value(s, "report") # <<>>
    BY <1>1, <1>2, <1>3 DEF Vars
  <2>2. Adds(r, d, "report", Part(Value(s, "report"), LocsOf(jprof)))
    BY <2>1, getLoads
  <2> QED
    BY <2>2 DEF Adds
<1> HIDE DEF r
<1>5. /\ DOMAIN l = DOMAIN r \cup {"errors"} /\ \A v \in DOMAIN r : l[v] = r[v]
      /\ "errors" \notin DOMAIN r =>
           l["errors"] = Part(Value(s, "errors"), At("errors", jprof))
  <2>1. "errors" \in Vars /\ Indices("errors") = At("errors", jprof) /\ Value(s, "errors") # <<>>
    BY <1>1, <1>3 DEF Vars
  <2>2. l = get(r, s, "errors")
    BY DEF Loaded, r
  <2> HIDE DEF l
  <2>3. Adds(l, r, "errors", Part(Value(s, "errors"), At("errors", jprof)))
    BY <2>1, <2>2, getLoads
  <2> QED
    BY <2>3 DEF Adds
<1> HIDE DEF l
<1>6. l["errors"] = Image("errors", jprof)
  <2>1. CASE "errors" \in DOMAIN d
    BY <1>4, <1>5, <2>1 DEF Ready
  <2>2. CASE "errors" \notin DOMAIN d
    <3>1. \A k \in DOMAIN At("errors", jprof) :
            Value(s, "errors")[At("errors", jprof)[k]] = Truth("errors", At("errors", jprof)[k])
      BY <1>2, <2>2 DEF Ready, Vars
    <3>2. l["errors"] = [k \in DOMAIN At("errors", jprof) |-> Value(s, "errors")[At("errors", jprof)[k]]]
      BY <1>4, <1>5, <2>2 DEF Part
    <3> QED
      BY <3>1, <3>2 DEF Image
  <2> QED
    BY <2>1, <2>2
<1>7. "flags" \in DOMAIN l => l["flags"] = Image("flags", jprof)
  BY <1>4, <1>5 DEF Ready
<1>8. /\ DOMAIN l["report"] = DOMAIN LocsOf(jprof)
      /\ l["report"] = [k \in DOMAIN LocsOf(jprof) |-> l["report"][k]]
      /\ \A k \in DOMAIN LocsOf(jprof) :
           l["report"][k] \in Nat /\ l["report"][k] <= Truth("report", LocsOf(jprof)[k])
  <2>1. l["report"] = r["report"]
    BY <1>4, <1>5
  <2>2. \A k \in DOMAIN LocsOf(jprof) : /\ LocsOf(jprof)[k] \in Reach(jprof) /\ LocsOf(jprof)[k] \in Locs
                                        /\ Truth("report", LocsOf(jprof)[k]) \in Nat
    BY <1>2, TruthIsNat DEF Vars
  <2>3. CASE "report" \in DOMAIN d
    <3>1. r["report"] = [k \in DOMAIN LocsOf(jprof) |-> Truth("report", LocsOf(jprof)[k])]
      BY <1>2, <1>4, <2>3 DEF Ready, Image
    <3> QED
      BY <2>1, <2>2, <3>1
  <2>4. CASE "report" \notin DOMAIN d
    <3>1. r["report"] = [k \in DOMAIN LocsOf(jprof) |-> Value(s, "report")[LocsOf(jprof)[k]]]
      BY <1>4, <2>4 DEF Part
    <3>2. \A k \in DOMAIN LocsOf(jprof) :
            /\ Value(s, "report")[LocsOf(jprof)[k]] \in Nat
            /\ Value(s, "report")[LocsOf(jprof)[k]] <= Truth("report", LocsOf(jprof)[k])
      BY <1>2, <2>2, <2>4 DEF Ready, Vars
    <3> QED
      BY <2>1, <3>1, <3>2
  <2> QED
    BY <2>3, <2>4
<1> QED
  BY <1>4, <1>5, <1>6, <1>7, <1>8 DEF l

LEMMA FinalValues ==
  ASSUME Given, Contiguous, FoundInv, ShapeInv, WalkInv, pc \in {"use", "update"},
         {"flags", "report"} \subseteq DOMAIN obsdb,
         NEW d, NEW s, Typed(s), Ready(d, s, jprof)
  PROVE  /\ DOMAIN Final(d, s) = DOMAIN d \cup {"report", "errors"}
         /\ \A var \in DOMAIN Final(d, s) : Final(d, s)[var] = Image(var, jprof)
<1> DEFINE l == Loaded(d, s)
           f == Final(d, s)
           locs == LocsOf(jprof)
           errors == found.errors[RecordAt(jprof)]
<1>1. /\ jprof \in 1 .. nrecs /\ DOMAIN d \subseteq Vars
      /\ DOMAIN At("errors", jprof) # {} => 1 \in DOMAIN At("errors", jprof)
      /\ At("report", jprof) = locs
  BY IndicesAt, AtOfProfile DEF Ready, Typed, Vars
<1>2. /\ DOMAIN l = DOMAIN d \cup {"report", "errors"}
      /\ \A var \in {"flags", "errors"} \cap DOMAIN l : l[var] = Image(var, jprof)
      /\ DOMAIN l["report"] = DOMAIN locs
      /\ l["report"] = [k \in DOMAIN locs |-> l["report"][k]]
      /\ \A k \in DOMAIN locs : l["report"][k] \in Nat /\ l["report"][k] <= Truth("report", locs[k])
  BY LoadedValues
<1>3. /\ \A k \in DOMAIN locs : Truth("report", locs[k]) = IF IsFailed(jprof) THEN 1 ELSE 0
      /\ 1 \in DOMAIN At("errors", jprof) => Truth("errors", At("errors", jprof)[1]) = errors
      /\ errors \in Nat /\ sample.nErrorsFail \in Nat
  BY <1>1, TruthOfProfile DEF Reach
<1>4. /\ DOMAIN l["errors"] = DOMAIN At("errors", jprof)
      /\ 1 \in DOMAIN At("errors", jprof) => l["errors"][1] = errors
  <2>1. l["errors"] = Image("errors", jprof)
    BY <1>2
  <2>2. l["errors"] = [k \in DOMAIN At("errors", jprof) |-> Truth("errors", At("errors", jprof)[k])]
    BY <2>1 DEF Image
  <2> HIDE DEF l, errors
  <2> QED
    BY <1>3, <2>2
<1>5. f = IF l["errors"] # <<>> /\ l["errors"][1] > sample.nErrorsFail
          THEN [l EXCEPT !["report"] = [k \in DOMAIN @ |-> reject(@[k])]]
          ELSE l
  BY DEF Final, setFinalReportFlags
<1>6. l["errors"] # <<>> <=> DOMAIN At("errors", jprof) # {}
  <2>1. l["errors"] = [k \in DOMAIN At("errors", jprof) |-> Truth("errors", At("errors", jprof)[k])]
    BY <1>2 DEF Image
  <2> QED
    BY <1>4, <2>1
<1>7. DOMAIN locs # {} /\ IsFailed(jprof) => l["errors"] # <<>> /\ l["errors"][1] > sample.nErrorsFail
  <2>1. DOMAIN locs # {} => DOMAIN At("errors", jprof) # {}
    BY DEF At
  <2> QED
    BY <1>1, <1>4, <1>6, <2>1 DEF IsFailed
<1>8. ~IsFailed(jprof) => ~(l["errors"] # <<>> /\ l["errors"][1] > sample.nErrorsFail)
  BY <1>1, <1>4, <1>6 DEF IsFailed
<1> HIDE DEF l, f, locs, errors
<1>9. /\ DOMAIN f = DOMAIN l /\ \A var \in DOMAIN l \ {"report"} : f[var] = l[var]
      /\ f["report"] = l["report"] \/ f["report"] = [k \in DOMAIN locs |-> reject(l["report"][k])]
      /\ IsFailed(jprof) /\ DOMAIN locs # {} => f["report"] = [k \in DOMAIN locs |-> reject(l["report"][k])]
      /\ ~IsFailed(jprof) => f["report"] = l["report"]
  BY <1>2, <1>5, <1>7, <1>8
<1>10. f["report"] = [k \in DOMAIN locs |-> IF IsFailed(jprof) THEN 1 ELSE 0]
  <2>1. CASE DOMAIN locs = {}
    BY <1>2, <1>9, <2>1
  <2>2. CASE DOMAIN locs # {} /\ IsFailed(jprof)
    <3>1. \A k \in DOMAIN locs : l["report"][k] \in {0, 1}
      BY <1>2, <1>3, <2>2
    <3>2. reject(0) = 1 /\ reject(1) = 1
      BY DEF reject, isRejected
    <3>3. \A k \in DOMAIN locs : reject(l["report"][k]) = 1
      BY <3>1, <3>2
    <3> QED
      BY <1>9, <2>2, <3>3
  <2>3. CASE ~IsFailed(jprof)
    <3>1. \A k \in DOMAIN locs : l["report"][k] = 0
      BY <1>2, <1>3, <2>3
    <3> QED
      BY <1>2, <1>9, <2>3, <3>1
  <2> QED
    BY <2>1, <2>2, <2>3
<1>11. f["report"] = Image("report", jprof)
  BY <1>1, <1>3, <1>10 DEF Image
<1>12. \A var \in DOMAIN f : f[var] = Image(var, jprof)
  BY <1>1, <1>2, <1>9, <1>11 DEF Vars
<1> QED
  BY <1>2, <1>9, <1>12 DEF f

LEMMA FlaggedValues ==
  ASSUME Given, Contiguous, FoundInv, ShapeInv, WalkInv, pc \in {"use", "update"},
         NEW f, "report" \in DOMAIN f,
         \A var \in {"flags", "report"} \cap DOMAIN f : f[var] = Image(var, jprof)
  PROVE  Flagged(f) = {"flags"} \X (IF "flags" \in DOMAIN f THEN found.flags \cap Reach(jprof) ELSE {})
                      \cup FilterVars \X (IF IsFailed(jprof) THEN Reach(jprof) ELSE {})
<1> DEFINE locs == LocsOf(jprof)
<1>1. jprof \in 1 .. nrecs /\ profileIndices = locs
  BY IndicesAt
<1>2. /\ At("flags", jprof) = locs /\ At("report", jprof) = locs
      /\ \A k \in DOMAIN locs : locs[k] \in Reach(jprof)
      /\ \A i \in Reach(jprof) : \E k \in DOMAIN locs : locs[k] = i
  BY <1>1, AtOfProfile DEF Vars, Reach
<1>3. /\ \A i : Truth("flags", i) = IF i \in found.flags THEN 1 ELSE 0
      /\ \A i \in Reach(jprof) : Truth("report", i) = IF IsFailed(jprof) THEN 1 ELSE 0
  BY <1>1, TruthOfProfile
<1>4. isRejected(1) /\ ~isRejected(0)
  BY DEF isRejected
<1>5. \A var \in {"flags", "report"} \cap DOMAIN f :
        \A k \in DOMAIN locs : f[var] # <<>> /\ f[var][k] = Truth(var, locs[k])
  <2> SUFFICES ASSUME NEW var \in {"flags", "report"} \cap DOMAIN f, NEW k \in DOMAIN locs
               PROVE  f[var] # <<>> /\ f[var][k] = Truth(var, locs[k])
    OBVIOUS
  <2>1. f[var] = [l \in DOMAIN locs |-> Truth(var, locs[l])]
    BY <1>2 DEF Image
  <2> HIDE DEF locs
  <2> QED
    BY <2>1
<1> HIDE DEF locs
<1>6. \A var : RejectedIn(f, var) = {locs[k] : k \in {k \in DOMAIN locs : var \in DOMAIN f /\ f[var] # <<>> /\ isRejected(f[var][k])}}
  BY <1>1 DEF RejectedIn
<1>7. RejectedIn(f, "flags") = IF "flags" \in DOMAIN f THEN found.flags \cap Reach(jprof) ELSE {}
  <2>1. CASE "flags" \in DOMAIN f
    <3>1. \A k \in DOMAIN locs : isRejected(f["flags"][k]) <=> locs[k] \in found.flags
      BY <1>3, <1>4, <1>5, <2>1
    <3>2. RejectedIn(f, "flags") = {locs[k] : k \in {k \in DOMAIN locs : locs[k] \in found.flags}}
      BY <1>5, <1>6, <2>1, <3>1
    <3> QED
      BY <1>2, <2>1, <3>2
  <2> QED
    BY <1>6, <2>1
<1>8. RejectedIn(f, "report") = IF IsFailed(jprof) THEN Reach(jprof) ELSE {}
  <2>1. \A k \in DOMAIN locs : f["report"] # <<>> /\ (isRejected(f["report"][k]) <=> IsFailed(jprof))
    BY <1>2, <1>3, <1>4, <1>5
  <2>2. RejectedIn(f, "report") = {locs[k] : k \in {k \in DOMAIN locs : IsFailed(jprof)}}
    BY <1>6, <2>1
  <2> QED
    BY <1>2, <2>2
<1> QED
  BY <1>7, <1>8 DEF Flagged

(* The cache e is s with what d holds of the profile j, and x is what that  *)
(* flags.                                                                  *)
Stores(e, x, d, s, j) ==
  /\ Typed(e) /\ DOMAIN e = DOMAIN s \cup {"report", "errors"}
  /\ \A var \in Vars : \A i \in Dom(var) :
       Value(e, var)[i] = IF i \in AtSet(var, j) /\ var \in DOMAIN d \cup {"report", "errors"}
                          THEN Truth(var, i) ELSE Value(s, var)[i]
  /\ x = {"flags"} \X (IF "flags" \in DOMAIN d THEN found.flags \cap Reach(j) ELSE {})
         \cup FilterVars \X (IF IsFailed(j) THEN Reach(j) ELSE {})

LEMMA StoredValues ==
  ASSUME Given, Contiguous, FoundInv, ShapeInv, WalkInv, pc \in {"use", "update"},
         {"flags", "report"} \subseteq DOMAIN obsdb,
         NEW d, NEW s, Typed(s), Ready(d, s, jprof)
  PROVE  Stores(Stored(d, s), Flagged(Final(d, s)), d, s, jprof)
<1> DEFINE f == Final(d, s)
           r == SampleGet(s, "report")
           t == SampleGet(r, "errors")
<1>1. DOMAIN r = DOMAIN s \cup {"report"} /\ \A v : Value(r, v) = Value(s, v)
  BY SampleGetLoads DEF Vars
<1> HIDE DEF r
<1>2. DOMAIN t = DOMAIN r \cup {"errors"} /\ \A v : Value(t, v) = Value(r, v)
  BY SampleGetLoads DEF Vars
<1>3. DOMAIN f = DOMAIN d \cup {"report", "errors"} /\ \A var \in DOMAIN f : f[var] = Image(var, jprof)
  BY FinalValues
<1>4. Stored(d, s) = UpdatedSample(f, t)
  BY DEF Stored, r
<1> HIDE DEF f, t
<1>5. Typed(t) /\ DOMAIN f \subseteq DOMAIN t
  BY <1>1, <1>2, <1>3 DEF Typed, Vars, Ready
<1>6. /\ DOMAIN Stored(d, s) = DOMAIN t /\ Typed(Stored(d, s))
      /\ \A var \in Vars : \A i \in Dom(var) :
           Value(Stored(d, s), var)[i] =
             IF var \in DOMAIN f /\ i \in AtSet(var, jprof) THEN Truth(var, i) ELSE Value(t, var)[i]
  BY <1>3, <1>4, <1>5, UpdatedSampleValues
<1>7. Flagged(f) = {"flags"} \X (IF "flags" \in DOMAIN f THEN found.flags \cap Reach(jprof) ELSE {})
                   \cup FilterVars \X (IF IsFailed(jprof) THEN Reach(jprof) ELSE {})
  BY <1>3, FlaggedValues
<1>8. "flags" \in DOMAIN f <=> "flags" \in DOMAIN d
  BY <1>3
<1>9. \A var \in Vars : \A i \in Dom(var) :
        Value(Stored(d, s), var)[i] = IF i \in AtSet(var, jprof) /\ var \in DOMAIN d \cup {"report", "errors"}
                                      THEN Truth(var, i) ELSE Value(s, var)[i]
  BY <1>1, <1>2, <1>3, <1>6
<1>10. DOMAIN Stored(d, s) = DOMAIN s \cup {"report", "errors"}
  BY <1>1, <1>2, <1>6
<1>11. Flagged(f) = {"flags"} \X (IF "flags" \in DOMAIN d THEN found.flags \cap Reach(jprof) ELSE {})
                   \cup FilterVars \X (IF IsFailed(jprof) THEN Reach(jprof) ELSE {})
  BY <1>7, <1>8
<1> QED
  BY <1>6, <1>9, <1>10, <1>11 DEF f, Stores

-----------------------------------------------------------------------------
(* The caches between the steps.  Done is the number of profiles the loop   *)
(* has finished with.                                                      *)

Done == IF pc \in {"use", "update"} THEN jprof - 1 ELSE jprof

(* What has been found but has not arrived in the cache of the sample.      *)
Pending(var, i) ==
  \/ /\ pc = "update" /\ i \in AtSet(var, jprof)
     /\ var \in DOMAIN profileData \cup {"report"}
  \/ loop = "move" /\ var = "flags" /\ \E j \in Done + 1 .. nrecs : i \in Reach(j)

SampleInv ==
  /\ Typed(entireSampleData)
  /\ {"flags", "report"} \subseteq DOMAIN obsdb /\ DOMAIN obsdb \subseteq Vars
  /\ \A var \in Vars : \A i \in Dom(var) :
       ~Pending(var, i) => Value(entireSampleData, var)[i] = Truth(var, i)
  /\ pc \in {"start", "done"} =>
       \A var \in DOMAIN entireSampleData : var \in DOMAIN obsdb /\ obsdb[var] = entireSampleData[var]

CacheInv ==
  /\ pc = "use" => profileData = <<>>
  /\ pc = "update" =>
       /\ DOMAIN profileData \subseteq DOMAIN entireSampleData \ {"report"}
       /\ LoadsFlags => "flags" \in DOMAIN profileData
       /\ \A var \in DOMAIN profileData : profileData[var] = Image(var, jprof)
       /\ \A i \in Reach(jprof) : Value(entireSampleData, "report")[i] <= Truth("report", i)

HeldVars == IF sample.holdsReport THEN {"flags", "report"} ELSE {"flags"}
Holders  == [values : [HeldVars -> Seq(Nat)], locs : Seq(Nat)]

Holds(h, j) == h.locs = LocsOf(j) /\ \A var \in HeldVars : h.values[var] = Image(var, j)

HoldersInv ==
  /\ profiles \in Seq(Holders)
  /\ Len(profiles) = IF loop = "fill" THEN Done ELSE IF loop = "move" THEN nrecs - Done ELSE 0
  /\ loop = "fill" => \A j \in 1 .. Done : Holds(profiles[j], j)
  /\ loop = "move" => \A j \in Done + 1 .. nrecs : Holds(profiles[j - Done], j)

(* The profiles whose flags the filter has set.                             *)
Settled ==
  IF pc = "start" /\ LoadsFlags THEN {}
  ELSE IF loop = "check" /\ LoadsFlags THEN 1 .. Done
  ELSE IF pc = "update" /\ "flags" \in DOMAIN profileData THEN (1 .. nrecs) \ {jprof}
  ELSE 1 .. nrecs

FlaggedInv ==
  /\ \A x \in profileFlagged :
       \/ x \in {"flags"} \X found.flags
       \/ \E j \in 1 .. nrecs : IsFailed(j) /\ x \in FilterVars \X Reach(j)
  /\ \A j \in Settled :
       /\ IsFailed(j) => FilterVars \X Reach(j) \subseteq profileFlagged
       /\ loop # "move" \/ j <= Done => {"flags"} \X (found.flags \cap Reach(j)) \subseteq profileFlagged

TwoVariables == sample.inObsdb = {"flags", "report"}

LEMMA DefinitionsKept ==
  ASSUME sample' = sample
  PROVE  /\ \A var : Dom(var)' = Dom(var)
         /\ \A var, j : At(var, j)' = At(var, j) /\ AtSet(var, j)' = AtSet(var, j)
         /\ HeldVars' = HeldVars /\ Holders' = Holders
         /\ \A i : IsFirst(i)' = IsFirst(i)
         /\ TwoVariables' = TwoVariables
         /\ obsdb' = obsdb => \A s : /\ \A var : Value(s, var)' = Value(s, var)
                                     /\ Typed(s)' = Typed(s)
         /\ found' = found => /\ \A j : IsFailed(j)' = IsFailed(j)
                              /\ \A var, i : Truth(var, i)' = Truth(var, i)
                              /\ \A var, j : Image(var, j)' = Image(var, j)
                              /\ \A h, j : Holds(h, j)' = Holds(h, j)
                              /\ FoundInv' = FoundInv
<1>1. /\ Locs' = Locs /\ Records' = Records /\ nrecs' = nrecs
      /\ \A j : LocsOf(j)' = LocsOf(j) /\ RecordAt(j)' = RecordAt(j) /\ Reach(j)' = Reach(j)
      /\ \A i : num(i)' = num(i)
  BY SampleKept
<1>2. \A var : Dom(var)' = Dom(var)
  BY <1>1 DEF Dom
<1>3. \A var, j : At(var, j)' = At(var, j)
  BY <1>1 DEF At
<1>4. \A var, j : AtSet(var, j)' = AtSet(var, j)
  BY <1>3 DEF AtSet
<1>5. HeldVars' = HeldVars /\ Holders' = Holders
  BY DEF HeldVars, Holders
<1>6. \A i : IsFirst(i)' = IsFirst(i)
  BY <1>1 DEF IsFirst
<1>7. ASSUME obsdb' = obsdb PROVE \A s : (\A var : Value(s, var)' = Value(s, var)) /\ Typed(s)' = Typed(s)
  <2>1. \A s, var : Value(s, var)' = Value(s, var)
    BY <1>1, <1>7 DEF Value, Default, Locs, nrecs, Records
  <2>2. \A s : Typed(s)' = Typed(s)
    BY <1>2, <2>1 DEF Typed, Vars
  <2> QED
    BY <2>1, <2>2
<1>8. ASSUME found' = found
      PROVE  /\ \A j : IsFailed(j)' = IsFailed(j)
             /\ \A var, i : Truth(var, i)' = Truth(var, i)
             /\ \A var, j : Image(var, j)' = Image(var, j)
             /\ \A h, j : Holds(h, j)' = Holds(h, j)
             /\ FoundInv' = FoundInv
  <2>1. \A j : IsFailed(j)' = IsFailed(j)
    BY <1>1, <1>8 DEF IsFailed
  <2>2. \A var, i : Truth(var, i)' = Truth(var, i)
    BY <1>1, <1>6, <1>8, <2>1 DEF Truth
  <2>3. \A var, j : Image(var, j)' = Image(var, j)
    BY <1>3, <2>2 DEF Image
  <2>4. \A h, j : Holds(h, j)' = Holds(h, j)
    BY <1>1, <1>5, <2>3 DEF Holds
  <2>5. FoundInv' = FoundInv
    BY <1>1, <1>8 DEF FoundInv
  <2> QED
    BY <2>1, <2>2, <2>3, <2>4, <2>5
<1> QED
  BY <1>2, <1>3, <1>4, <1>5, <1>6, <1>7, <1>8 DEF TwoVariables

(* What a check of the profile finds is in its cache.                       *)

FoundMore(j, levels, more) ==
  found' = [flags  |-> found.flags \cup {LocsOf(j)[k] : k \in levels},
            errors |-> [found.errors EXCEPT ![RecordAt(j)] = @ + more]]

LEMMA FoundMoreTruth ==
  ASSUME Given, Contiguous, FoundInv, sample' = sample, NEW j \in 1 .. nrecs,
         NEW levels \in SUBSET DOMAIN LocsOf(j), NEW more \in Nat,
         DOMAIN LocsOf(j) = {} => more = 0, FoundMore(j, levels, more)
  PROVE  /\ FoundInv'
         /\ \A l \in 1 .. nrecs : l # j => IsFailed(l)' = IsFailed(l)
         /\ IsFailed(j) => IsFailed(j)'
         /\ \A var \in Vars : \A i \in Dom(var) \ AtSet(var, j) : Truth(var, i)' = Truth(var, i)
         /\ \A i \in Reach(j) : Truth("report", i) <= Truth("report", i)'
         /\ \A k \in DOMAIN LocsOf(j) :
              Truth("flags", LocsOf(j)[k])' = IF k \in levels THEN 1 ELSE Truth("flags", LocsOf(j)[k])
         /\ \A k \in DOMAIN At("errors", j) :
              Truth("errors", At("errors", j)[k])' =
                IF k = 1 THEN Truth("errors", At("errors", j)[k]) + more ELSE 0
<1> DEFINE r == RecordAt(j)
<1>1. /\ nrecs' = nrecs /\ Locs' = Locs /\ Records' = Records
      /\ \A l : LocsOf(l)' = LocsOf(l) /\ RecordAt(l)' = RecordAt(l) /\ Reach(l)' = Reach(l)
      /\ \A var, l : At(var, l)' = At(var, l)
      /\ \A i : IsFirst(i)' = IsFirst(i) /\ num(i)' = num(i)
  BY SampleKept, DefinitionsKept
<1>2. /\ r \in Records /\ \A l \in 1 .. nrecs : RecordAt(l) \in Records /\ (RecordAt(l) = r => l = j)
      /\ \A l \in 1 .. nrecs : Rank(RecordAt(l)) = l
  BY RanksOfRecords
<1>3. /\ found.errors \in [Records -> Nat] /\ found.flags \subseteq UNION {Reach(l) : l \in 1 .. nrecs}
      /\ \A l \in 1 .. nrecs : DOMAIN LocsOf(l) = {} => found.errors[RecordAt(l)] = 0
  BY DEF FoundInv
<1>4. /\ \A l \in 1 .. nrecs : l # j => Reach(j) \cap Reach(l) = {}
      /\ \A l \in 1 .. nrecs : \A i \in Reach(l) : num(i) = RecordAt(l) /\ i \in Locs
      /\ \A k, l \in DOMAIN LocsOf(j) : LocsOf(j)[k] = LocsOf(j)[l] => k = l
      /\ \A l \in 1 .. nrecs : \A k \in DOMAIN LocsOf(l) : LocsOf(l)[k] \in Reach(l)
  BY ReachOfProfile, LocsOfProfile DEF Reach
<1>5. /\ found'.errors \in [Records -> Nat] /\ found'.errors[r] = found.errors[r] + more
      /\ \A x \in Records : x # r => found'.errors[x] = found.errors[x]
      /\ found'.flags = found.flags \cup {LocsOf(j)[k] : k \in levels}
  <2>1. found'.errors = [found.errors EXCEPT ![r] = @ + more]
    BY DEF FoundMore
  <2> HIDE DEF r
  <2> QED
    BY <1>2, <1>3, <2>1 DEF FoundMore, r
<1>6. FoundInv'
  <2>1. found'.flags \subseteq UNION {Reach(l) : l \in 1 .. nrecs}
    BY <1>3, <1>4, <1>5
  <2>2. \A l \in 1 .. nrecs : DOMAIN LocsOf(l) = {} => found'.errors[RecordAt(l)] = 0
    BY <1>2, <1>3, <1>5
  <2>3. found' \in [flags : SUBSET Locs, errors : [Records -> Nat]]
    <3>1. found' = [flags |-> found'.flags, errors |-> found'.errors]
      BY DEF FoundMore
    <3>2. found'.flags \subseteq Locs
      BY <1>4, <2>1
    <3> QED
      BY <1>5, <3>1, <3>2
  <2> QED
    BY <1>1, <2>1, <2>2, <2>3 DEF FoundInv
<1> HIDE DEF r
<1>7. \A l \in 1 .. nrecs : l # j => IsFailed(l)' = IsFailed(l)
  BY <1>1, <1>2, <1>5 DEF IsFailed
<1>8. IsFailed(j) => IsFailed(j)'
  <2>1. found.errors[r] \in Nat /\ sample.nErrorsFail \in Nat
    BY <1>2, <1>3 DEF Given, ProfilesAssumption
  <2>2. IsFailed(j) => found'.errors[r] > sample.nErrorsFail
    BY <1>5, <2>1 DEF IsFailed, r
  <2> QED
    BY <1>1, <2>2 DEF IsFailed, r
<1>9. \A i : i \notin Reach(j) => Truth("flags", i)' = Truth("flags", i) /\ Truth("report", i)' = Truth("report", i)
  <2> SUFFICES ASSUME NEW i, i \notin Reach(j)
               PROVE  Truth("flags", i)' = Truth("flags", i) /\ Truth("report", i)' = Truth("report", i)
    OBVIOUS
  <2>1. i \in found'.flags <=> i \in found.flags
    BY <1>4, <1>5
  <2>2. \A l \in 1 .. nrecs : i \in Reach(l) => l # j /\ IsFailed(l)' = IsFailed(l)
    BY <1>7
  <2> QED
    BY <1>1, <2>1, <2>2 DEF Truth
<1>10. \A i \in Dom("errors") \ AtSet("errors", j) : Truth("errors", i)' = Truth("errors", i)
  <2> SUFFICES ASSUME NEW i \in Dom("errors") \ AtSet("errors", j) PROVE Truth("errors", i)' = Truth("errors", i)
    OBVIOUS
  <2>1. CASE sample.errorsPerProfile
    <3>1. i \in 1 .. nrecs /\ i # j
      BY <2>1 DEF Dom, AtSet, At
    <3>2. found'.errors[RecordAt(i)] = found.errors[RecordAt(i)]
      BY <1>2, <1>5, <3>1
    <3> QED
      BY <1>1, <2>1, <3>2 DEF Truth
  <2>2. CASE ~sample.errorsPerProfile
    <3>1. i \in Locs /\ i \notin Reach(j)
      BY <2>2 DEF Dom, AtSet, At, Reach
    <3>2. IsFirst(i) => num(i) \in Records /\ num(i) # r
      BY <1>2, <1>4, <3>1 DEF IsFirst
    <3>3. IsFirst(i) => found'.errors[num(i)] = found.errors[num(i)]
      BY <1>5, <3>2
    <3> QED
      BY <1>1, <2>2, <3>3 DEF Truth
  <2> QED
    BY <2>1, <2>2
<1>11. \A var \in Vars : \A i \in Dom(var) \ AtSet(var, j) : Truth(var, i)' = Truth(var, i)
  <2>1. AtSet("flags", j) = Reach(j) /\ AtSet("report", j) = Reach(j)
    BY AtOfProfile DEF Vars
  <2> QED
    BY <1>9, <1>10, <2>1 DEF Vars
<1>12. /\ \A i \in Reach(j) : Truth("report", i) = IF IsFailed(j) THEN 1 ELSE 0
       /\ \A i \in Reach(j) : Truth("report", i)' = IF IsFailed(j)' THEN 1 ELSE 0
       /\ \A i : Truth("flags", i) = IF i \in found.flags THEN 1 ELSE 0
       /\ \A i : Truth("flags", i)' = IF i \in found'.flags THEN 1 ELSE 0
  BY <1>1, <1>4 DEF Truth
<1>13. \A i \in Reach(j) : Truth("report", i) <= Truth("report", i)'
  BY <1>8, <1>12
<1>14. \A k \in DOMAIN LocsOf(j) :
         Truth("flags", LocsOf(j)[k])' = IF k \in levels THEN 1 ELSE Truth("flags", LocsOf(j)[k])
  <2> SUFFICES ASSUME NEW k \in DOMAIN LocsOf(j)
               PROVE  Truth("flags", LocsOf(j)[k])' = IF k \in levels THEN 1 ELSE Truth("flags", LocsOf(j)[k])
    OBVIOUS
  <2>1. PICK i : i = LocsOf(j)[k]
    OBVIOUS
  <2>2. LocsOf(j)[k]' = i
    BY <1>1, <2>1
  <2>3. i \in found'.flags <=> k \in levels \/ i \in found.flags
    BY <1>4, <1>5, <2>1
  <2> QED
    BY <1>12, <2>1, <2>2, <2>3
<1>15. ASSUME NEW k \in DOMAIN At("errors", j)
       PROVE  Truth("errors", At("errors", j)[k])' =
                IF k = 1 THEN Truth("errors", At("errors", j)[k]) + more ELSE 0
  <2>1. CASE sample.errorsPerProfile
    <3>1. At("errors", j) = <<j>>
      BY <2>1 DEF At
    <3>2. k = 1 /\ At("errors", j)[k] = j
      BY <3>1
    <3>3. Truth("errors", j) = found.errors[r] /\ Truth("errors", j)' = found'.errors[r]
      BY <1>1, <2>1 DEF Truth, r
    <3> QED
      BY <1>1, <1>5, <3>2, <3>3
  <2>2. CASE ~sample.errorsPerProfile
    <3>1. At("errors", j) = LocsOf(j)
      BY <2>2 DEF At
    <3>2. PICK i : i = LocsOf(j)[k]
      OBVIOUS
    <3>3. num(i) = r /\ (IsFirst(i) <=> k = 1)
      <4>1. num(i) = r /\ i \in Reach(j)
        BY <1>4, <3>1, <3>2 DEF r
      <4>2. k = 1 => IsFirst(i)
        BY <3>1, <3>2 DEF IsFirst
      <4>3. IsFirst(i) => k = 1
        <5>1. ASSUME NEW l \in 1 .. nrecs, 1 \in DOMAIN LocsOf(l), i = LocsOf(l)[1] PROVE l = j
          BY <1>4, <4>1, <5>1
        <5> QED
          BY <1>4, <3>1, <3>2, <5>1 DEF IsFirst
      <4> QED
        BY <4>1, <4>2, <4>3
    <3>4. /\ Truth("errors", i) = IF k = 1 THEN found.errors[r] ELSE 0
          /\ Truth("errors", i)' = IF k = 1 THEN found'.errors[r] ELSE 0
      BY <1>1, <2>2, <3>3 DEF Truth
    <3> QED
      BY <1>1, <1>5, <3>1, <3>2, <3>4
  <2> QED
    BY <2>1, <2>2
<1> QED
  BY <1>6, <1>7, <1>8, <1>11, <1>13, <1>14, <1>15

-----------------------------------------------------------------------------
(* Every step keeps the caches so.                                         *)

DataInv == FoundInv /\ SampleInv /\ CacheInv /\ HoldersInv /\ FlaggedInv

LEMMA DataInit ==
  ASSUME Given, Contiguous, TwoVariables, Init
  PROVE  DataInv
<1>1. /\ entireSampleData = <<>> /\ profileData = <<>> /\ profiles = <<>> /\ profileFlagged = {}
      /\ obsdb = [var \in {"flags", "report"} |-> [i \in Locs |-> 0]]
      /\ loop = "none" /\ pc \in {"start", "thrown"} /\ group = 1
      /\ found = [flags |-> {}, errors |-> [r \in Records |-> 0]]
  BY DEF Init, TwoVariables
<1>2. \A j \in 1 .. nrecs : RecordAt(j) \in Records
  BY RanksOfRecords
<1>3. FoundInv
  BY <1>1, <1>2 DEF FoundInv
<1>4. \A j \in 1 .. nrecs : ~IsFailed(j)
  BY <1>1, <1>2 DEF IsFailed, Given, ProfilesAssumption
<1>5. nrecs \in Nat /\ nrecs >= 1 /\ n \in Nat /\ Locs = 1 .. n
  BY SampleTypes
<1>6. \A var \in Vars : Value(<<>>, var) = [i \in Dom(var) |-> 0]
  <2>1. \A var \in {"flags", "report"} : Value(<<>>, var) = [i \in Locs |-> 0] /\ Dom(var) = Locs
    BY <1>1 DEF Value, Dom
  <2>2. Value(<<>>, "errors") = Default("errors")
    BY <1>1 DEF Value
  <2>3. Default("errors") = [i \in Dom("errors") |-> 0]
    BY <1>5 DEF Default, Dom, n
  <2> QED
    BY <2>1, <2>2, <2>3 DEF Vars
<1>7. \A var \in Vars : \A i \in Dom(var) : Truth(var, i) = 0
  <2>1. \A i : Truth("flags", i) = 0 /\ Truth("report", i) = 0
    BY <1>1, <1>4 DEF Truth
  <2>2. \A i \in Dom("errors") : Truth("errors", i) = 0
    <3>1. \A i \in Dom("errors") : (IF sample.errorsPerProfile THEN RecordAt(i) ELSE num(i)) \in Records
      BY <1>2, SampleTypes DEF Dom
    <3> QED
      BY <1>1, <3>1 DEF Truth
  <2> QED
    BY <2>1, <2>2 DEF Vars
<1>8. SampleInv
  <2>1. DOMAIN <<>> \subseteq Vars
    OBVIOUS
  <2>2. Typed(<<>>)
    BY <1>6, <2>1 DEF Typed
  <2>3. DOMAIN obsdb = {"flags", "report"}
    BY <1>1
  <2>4. \A var \in Vars : \A i \in Dom(var) : Value(entireSampleData, var)[i] = Truth(var, i)
    BY <1>1, <1>6, <1>7
  <2>5. \A var \in DOMAIN entireSampleData : FALSE
    BY <1>1
  <2> QED
    BY <1>1, <2>2, <2>3, <2>4, <2>5 DEF SampleInv, Vars
<1>9. CacheInv
  BY <1>1 DEF CacheInv
<1>10. HoldersInv
  BY <1>1 DEF HoldersInv
<1>11. FlaggedInv
  BY <1>1, <1>4 DEF FlaggedInv, Settled, LoadsFlags
<1> QED
  BY <1>3, <1>8, <1>9, <1>10, <1>11 DEF DataInv

LEMMA StartFilterData ==
  ASSUME Given, TwoVariables, ShapeInv, DataInv, StartFilter
  PROVE  DataInv'
<1>1. /\ pc = "start" /\ pc' = pc /\ loop = "none" /\ loop' = loop /\ sample' = sample
      /\ obsdb' = obsdb /\ found' = found /\ profiles' = profiles
      /\ group' = group + 1 /\ sample.groups[group] = "filter" /\ group \in Nat
      /\ entireSampleData' = <<>> /\ profileData' = <<>> /\ profileFlagged' = {}
  BY DEF StartFilter, ShapeInv
<1>2. FoundInv' /\ \A s, var : Value(s, var)' = Value(s, var) /\ Typed(s)' = Typed(s)
  BY <1>1, DefinitionsKept DEF DataInv
<1>3. /\ HeldVars' = HeldVars /\ Holders' = Holders
      /\ \A var, i : Truth(var, i)' = Truth(var, i) /\ Dom(var)' = Dom(var)
  BY <1>1, DefinitionsKept
<1>4. \A var \in Vars : Value(<<>>, var) = Value(entireSampleData, var)
  <2>1. \A var \in DOMAIN entireSampleData : var \in DOMAIN obsdb /\ obsdb[var] = entireSampleData[var]
    BY <1>1 DEF DataInv, SampleInv
  <2> QED
    BY <2>1 DEF Value
<1>5. SampleInv'
  <2>1. PICK e : e = <<>> /\ DOMAIN e = {}
    OBVIOUS
  <2>2. Typed(e)
    BY <1>4, <2>1 DEF Typed, DataInv, SampleInv
  <2>3. \A var \in Vars : \A i \in Dom(var) : Value(e, var)[i] = Truth(var, i)
    BY <1>1, <1>4, <2>1 DEF DataInv, SampleInv, Pending
  <2>4. {"flags", "report"} \subseteq DOMAIN obsdb /\ DOMAIN obsdb \subseteq Vars
    BY DEF DataInv, SampleInv
  <2> QED
    BY <1>1, <1>2, <1>3, <2>1, <2>2, <2>3, <2>4 DEF SampleInv, Vars
<1>6. CacheInv' /\ HoldersInv'
  BY <1>1, <1>3 DEF CacheInv, HoldersInv, DataInv
<1>7. FlaggedInv'
  BY <1>1 DEF FlaggedInv, Settled, LoadsFlags
<1> QED
  BY <1>2, <1>5, <1>6, <1>7 DEF DataInv

LEMMA StartGroupData ==
  ASSUME Given, TwoVariables, ShapeInv, DataInv, StartGroup
  PROVE  DataInv'
<1>1. /\ pc = "start" /\ pc' = "initialise" /\ loop = "none" /\ loop' \in {"check", "fill"} /\ sample' = sample
      /\ obsdb' = obsdb /\ found' = found /\ profiles' = profiles
      /\ entireSampleData' = entireSampleData /\ profileFlagged' = profileFlagged
      /\ group' = group /\ jprof' = 0
      /\ loop' = "check" <=> sample.groups[group] = "profile"
  BY DEF StartGroup, ShapeInv
<1>2. FoundInv' /\ \A s, var : Value(s, var)' = Value(s, var) /\ Typed(s)' = Typed(s)
  BY <1>1, DefinitionsKept DEF DataInv
<1>3. /\ HeldVars' = HeldVars /\ Holders' = Holders
      /\ \A var, i : Truth(var, i)' = Truth(var, i) /\ Dom(var)' = Dom(var)
      /\ nrecs' = nrecs /\ \A j : IsFailed(j)' = IsFailed(j) /\ Reach(j)' = Reach(j)
      /\ LoadsFlags' = LoadsFlags
  BY <1>1, DefinitionsKept, SampleKept DEF LoadsFlags
<1>4. SampleInv'
  <2>1. PICK e : e = entireSampleData
    OBVIOUS
  <2>2. Typed(e)
    BY <2>1 DEF DataInv, SampleInv
  <2>3. \A var \in Vars : \A i \in Dom(var) : Value(e, var)[i] = Truth(var, i)
    BY <1>1, <2>1 DEF DataInv, SampleInv, Pending
  <2>4. {"flags", "report"} \subseteq DOMAIN obsdb /\ DOMAIN obsdb \subseteq Vars
    BY DEF DataInv, SampleInv
  <2> QED
    BY <1>1, <1>2, <1>3, <2>1, <2>2, <2>3, <2>4 DEF SampleInv, Vars
<1>5. CacheInv'
  BY <1>1 DEF CacheInv
<1>6. HoldersInv'
  BY <1>1, <1>3 DEF HoldersInv, DataInv, Done
<1>7. FlaggedInv'
  <2>1. LoadsFlags => loop' = "check"
    <3>1. group \in DOMAIN sample.groups
      BY <1>1 DEF ShapeInv, Given, ProfilesAssumption
    <3>2. LoadsFlags => sample.groups[group] = "profile"
      BY <3>1 DEF LoadsFlags, Given, ProfilesAssumption
    <3> QED
      BY <1>1, <3>2
  <2>2. Settled' \subseteq Settled
    <3>1. LoadsFlags => Settled' = {}
      BY <1>1, <1>3, <2>1 DEF Settled, Done
    <3>2. ~LoadsFlags => Settled' = 1 .. nrecs /\ Settled = 1 .. nrecs
      BY <1>1, <1>3 DEF Settled
    <3> QED
      BY <3>1, <3>2
  <2>3. FlaggedInv
    BY DEF DataInv
  <2>4. \A j \in Settled : /\ IsFailed(j) => FilterVars \X Reach(j) \subseteq profileFlagged
                           /\ {"flags"} \X (found.flags \cap Reach(j)) \subseteq profileFlagged
    BY <1>1, <2>3 DEF FlaggedInv
  <2>5. \A x \in profileFlagged :
          \/ x \in {"flags"} \X found.flags
          \/ \E j \in 1 .. nrecs : IsFailed(j) /\ x \in FilterVars \X Reach(j)
    BY <2>3 DEF FlaggedInv
  <2> QED
    BY <1>1, <1>3, <2>2, <2>4, <2>5 DEF FlaggedInv, FilterVars
<1> QED
  BY <1>2, <1>4, <1>5, <1>6, <1>7 DEF DataInv

LEMMA InitialiseData ==
  ASSUME Given, ShapeInv, WalkInv, DataInv, initialiseNextProfile
  PROVE  DataInv'
<1>1. /\ pc = "initialise" /\ pc' = "use" /\ loop # "none" /\ loop' = loop /\ sample' = sample
      /\ obsdb' = obsdb /\ found' = found /\ profiles' = profiles /\ profileData' = <<>>
      /\ entireSampleData' = entireSampleData /\ profileFlagged' = profileFlagged
      /\ group' = group /\ jprof' = jprof + 1 /\ jprof \in Nat
  BY SampleTypes DEF initialiseNextProfile, ShapeInv, WalkInv
<1>2. FoundInv' /\ \A s, var : Value(s, var)' = Value(s, var) /\ Typed(s)' = Typed(s)
  BY <1>1, DefinitionsKept DEF DataInv
<1>3. /\ HeldVars' = HeldVars /\ Holders' = Holders /\ \A h, j : Holds(h, j)' = Holds(h, j)
      /\ \A var, i : Truth(var, i)' = Truth(var, i) /\ Dom(var)' = Dom(var)
      /\ nrecs' = nrecs /\ \A j : IsFailed(j)' = IsFailed(j) /\ Reach(j)' = Reach(j)
      /\ LoadsFlags' = LoadsFlags /\ Done' = Done
  BY <1>1, DefinitionsKept, SampleKept DEF LoadsFlags, Done
<1>4. SampleInv'
  <2>1. PICK e : e = entireSampleData
    OBVIOUS
  <2>2. Typed(e)
    BY <2>1 DEF DataInv, SampleInv
  <2>3. \A var, i : Pending(var, i)' = Pending(var, i)
    BY <1>1, <1>3 DEF Pending
  <2>4. \A var \in Vars : \A i \in Dom(var) : ~Pending(var, i) => Value(e, var)[i] = Truth(var, i)
    BY <2>1 DEF DataInv, SampleInv
  <2>5. {"flags", "report"} \subseteq DOMAIN obsdb /\ DOMAIN obsdb \subseteq Vars
    BY DEF DataInv, SampleInv
  <2> QED
    BY <1>1, <1>2, <1>3, <2>1, <2>2, <2>3, <2>4, <2>5 DEF SampleInv, Vars
<1>5. CacheInv'
  BY <1>1 DEF CacheInv
<1>6. HoldersInv'
  BY <1>1, <1>3 DEF HoldersInv, DataInv
<1>7. FlaggedInv'
  <2>1. Settled' = Settled
    BY <1>1, <1>3 DEF Settled
  <2> QED
    BY <1>1, <1>3, <2>1 DEF FlaggedInv, DataInv, FilterVars
<1> QED
  BY <1>2, <1>4, <1>5, <1>6, <1>7 DEF DataInv

(* Before a check looks at a profile, all of it is right in the caches.     *)
LEMMA BeforeUse ==
  ASSUME Given, Contiguous, ShapeInv, WalkInv, DataInv, pc = "use",
         NEW d, NEW var \in Vars, var \notin DOMAIN d, loop # "move"
  PROVE  jprof \in 1 .. nrecs /\ Adds(get(d, entireSampleData, var), d, var, Image(var, jprof))
<1>1. jprof \in 1 .. nrecs /\ Indices(var) = At(var, jprof)
  BY IndicesAt
<1>2. /\ Dom(var) # {} /\ Value(entireSampleData, var) \in [Dom(var) -> Nat]
      /\ {"flags", "report"} \subseteq DOMAIN obsdb
  BY <1>1, AtOfProfile DEF DataInv, SampleInv, Typed
<1>3. Value(entireSampleData, var) # <<>>
  BY <1>2
<1>4. PICK e : e = entireSampleData
  OBVIOUS
<1>5. Adds(get(d, e, var), d, var, Part(Value(e, var), At(var, jprof)))
  BY <1>1, <1>2, <1>3, <1>4, getLoads
<1>6. Part(Value(e, var), At(var, jprof)) = Image(var, jprof)
  <2>1. \A k \in DOMAIN At(var, jprof) : At(var, jprof)[k] \in Dom(var)
    BY <1>1, AtOfProfile
  <2>2. \A i \in Dom(var) : Value(e, var)[i] = Truth(var, i)
    BY <1>4 DEF DataInv, SampleInv, Pending
  <2> QED
    BY <2>1, <2>2 DEF Part, Image
<1> QED
  BY <1>1, <1>4, <1>5, <1>6

LEMMA RunChecksCaches ==
  ASSUME Given, Contiguous, ShapeInv, WalkInv, DataInv, runChecks, sample' = sample
  PROVE  /\ jprof \in 1 .. nrecs
         /\ \/ ~LoadsFlags /\ UNCHANGED <<profileData, entireSampleData, found>>
            \/ \E levels \in SUBSET DOMAIN LocsOf(jprof), more \in {0, 1} :
                 /\ DOMAIN LocsOf(jprof) = {} => more = 0
                 /\ FoundMore(jprof, levels, more)
                 /\ entireSampleData' = SampleGet(SampleGet(entireSampleData, "flags"), "errors")
                 /\ DOMAIN profileData' = {"flags", "errors"}
                 /\ profileData'["flags"] =
                      [k \in DOMAIN LocsOf(jprof) |->
                         IF k \in levels THEN 1 ELSE Truth("flags", LocsOf(jprof)[k])]
                 /\ profileData'["errors"] =
                      [k \in DOMAIN At("errors", jprof) |->
                         IF k = 1 THEN Truth("errors", At("errors", jprof)[k]) + more
                         ELSE Truth("errors", At("errors", jprof)[k])]
<1> DEFINE e == get(profileData, entireSampleData, "flags")
           d == get(e, entireSampleData, "errors")
           locs == LocsOf(jprof)
<1>1. /\ jprof \in 1 .. nrecs /\ pc = "use" /\ loop = "check" /\ profileData = <<>>
      /\ profileIndices = locs /\ cursor.current = RecordAt(jprof)
  <2>1. pc = "use" /\ loop = "check"
    BY DEF runChecks
  <2> QED
    BY <2>1, IndicesAt DEF DataInv, CacheInv
<1>2. /\ e["flags"] = Image("flags", jprof) /\ DOMAIN e = {"flags"}
      /\ e = [v \in DOMAIN e |-> e[v]]
  <2>1. PICK x : x = [v \in {} |-> v]
    OBVIOUS
  <2>2. DOMAIN x = {} /\ x = [v \in DOMAIN x |-> x[v]]
    BY <2>1
  <2>3. x = profileData
    BY <1>1, <2>2, EmptyFunction
  <2>4. "flags" \in Vars /\ "flags" \notin DOMAIN x /\ loop # "move"
    BY <1>1, <2>2 DEF Vars
  <2>5. Adds(get(x, entireSampleData, "flags"), x, "flags", Image("flags", jprof))
    BY <1>1, <2>4, BeforeUse
  <2>6. e = get(x, entireSampleData, "flags")
    BY <2>3
  <2> HIDE DEF e
  <2> QED
    BY <2>2, <2>5, <2>6 DEF Adds
<1> HIDE DEF e
<1>3. /\ d["flags"] = Image("flags", jprof) /\ d["errors"] = Image("errors", jprof)
      /\ DOMAIN d = {"flags", "errors"} /\ d = [v \in DOMAIN d |-> d[v]]
  <2>1. PICK x : x = e
    OBVIOUS
  <2>2. "errors" \in Vars /\ "errors" \notin DOMAIN x /\ loop # "move"
    BY <1>1, <1>2, <2>1 DEF Vars
  <2>3. Adds(get(x, entireSampleData, "errors"), x, "errors", Image("errors", jprof))
    BY <1>1, <2>2, BeforeUse
  <2>4. d = get(x, entireSampleData, "errors")
    BY <2>1
  <2> HIDE DEF d
  <2> QED
    BY <1>2, <2>1, <2>3, <2>4 DEF Adds
<1>4. \/ ~LoadsFlags /\ UNCHANGED <<profileData, entireSampleData, found>>
      \/ /\ entireSampleData' = SampleGet(SampleGet(entireSampleData, "flags"), "errors")
         /\ \E levels \in {{}} \cup {{k} : k \in DOMAIN d["flags"]}, more \in {0, 1} :
              /\ d["flags"] = <<>> => more = 0
              /\ profileData' =
                   [d EXCEPT !["flags"] = [k \in DOMAIN @ |-> IF k \in levels THEN reject(@[k]) ELSE @[k]],
                             !["errors"] = [k \in DOMAIN @ |-> IF k = 1 THEN @[k] + more ELSE @[k]]]
              /\ found' = [flags |-> found.flags \cup {profileIndices[k] : k \in levels},
                           errors |-> [found.errors EXCEPT ![cursor.current] = @ + more]]
  BY DEF runChecks, e
<1> HIDE DEF d
<1>5. CASE ~LoadsFlags /\ UNCHANGED <<profileData, entireSampleData, found>>
  BY <1>1, <1>5
<1>6. ASSUME entireSampleData' = SampleGet(SampleGet(entireSampleData, "flags"), "errors"),
             NEW levels \in {{}} \cup {{k} : k \in DOMAIN d["flags"]}, NEW more \in {0, 1},
             d["flags"] = <<>> => more = 0,
             profileData' =
               [d EXCEPT !["flags"] = [k \in DOMAIN @ |-> IF k \in levels THEN reject(@[k]) ELSE @[k]],
                         !["errors"] = [k \in DOMAIN @ |-> IF k = 1 THEN @[k] + more ELSE @[k]]],
             found' = [flags |-> found.flags \cup {profileIndices[k] : k \in levels},
                       errors |-> [found.errors EXCEPT ![cursor.current] = @ + more]]
      PROVE  /\ levels \in SUBSET DOMAIN locs
             /\ DOMAIN locs = {} => more = 0
             /\ FoundMore(jprof, levels, more)
             /\ DOMAIN profileData' = {"flags", "errors"}
             /\ profileData'["flags"] = [k \in DOMAIN locs |-> IF k \in levels THEN 1 ELSE Truth("flags", locs[k])]
             /\ profileData'["errors"] =
                  [k \in DOMAIN At("errors", jprof) |->
                     IF k = 1 THEN Truth("errors", At("errors", jprof)[k]) + more
                     ELSE Truth("errors", At("errors", jprof)[k])]
  <2>1. d["flags"] = [k \in DOMAIN locs |-> Truth("flags", locs[k])]
    BY <1>1, <1>3, AtOfProfile DEF Image, Vars
  <2>2. d["errors"] = [k \in DOMAIN At("errors", jprof) |-> Truth("errors", At("errors", jprof)[k])]
    BY <1>3 DEF Image
  <2>3. levels \in SUBSET DOMAIN locs /\ (DOMAIN locs = {} => more = 0)
    <3>1. DOMAIN d["flags"] = DOMAIN locs
      BY <2>1
    <3>2. DOMAIN locs = {} => d["flags"] = <<>>
      BY <2>1
    <3> QED
      BY <1>6, <3>1, <3>2
  <2>4. FoundMore(jprof, levels, more)
    BY <1>1, <1>6 DEF FoundMore
  <2>5. /\ DOMAIN profileData' = {"flags", "errors"}
        /\ profileData'["flags"] = [k \in DOMAIN d["flags"] |-> IF k \in levels THEN reject(d["flags"][k]) ELSE d["flags"][k]]
        /\ profileData'["errors"] = [k \in DOMAIN d["errors"] |-> IF k = 1 THEN d["errors"][k] + more ELSE d["errors"][k]]
    BY <1>3, <1>6
  <2>6. profileData'["flags"] = [k \in DOMAIN locs |-> IF k \in levels THEN 1 ELSE Truth("flags", locs[k])]
    <3>1. reject(0) = 1 /\ reject(1) = 1
      BY DEF reject, isRejected
    <3>2. \A i : Truth("flags", i) \in {0, 1}
      BY DEF Truth
    <3>3. \A i : reject(Truth("flags", i)) = 1
      BY <3>1, <3>2
    <3> HIDE DEF locs
    <3>4. DOMAIN d["flags"] = DOMAIN locs /\ \A k \in DOMAIN locs : d["flags"][k] = Truth("flags", locs[k])
      BY <2>1
    <3>5. \A k \in DOMAIN locs : reject(d["flags"][k]) = 1
      BY <3>3, <3>4
    <3> QED
      BY <2>5, <3>4, <3>5
  <2>7. profileData'["errors"] =
          [k \in DOMAIN At("errors", jprof) |->
             IF k = 1 THEN Truth("errors", At("errors", jprof)[k]) + more
             ELSE Truth("errors", At("errors", jprof)[k])]
    <3>1. /\ DOMAIN d["errors"] = DOMAIN At("errors", jprof)
          /\ \A k \in DOMAIN At("errors", jprof) : d["errors"][k] = Truth("errors", At("errors", jprof)[k])
      BY <2>2
    <3> QED
      BY <2>5, <3>1
  <2> QED
    BY <2>3, <2>4, <2>5, <2>6, <2>7
<1> HIDE DEF locs
<1> QED
  BY <1>1, <1>4, <1>5, <1>6 DEF locs

LEMMA RunChecksData ==
  ASSUME Given, Contiguous, ShapeInv, WalkInv, DataInv, runChecks, sample' = sample
  PROVE  DataInv'
<1>1. /\ loop = "check" /\ pc = "use" /\ pc' = "update" /\ loop' = loop /\ jprof' = jprof
      /\ obsdb' = obsdb /\ profiles' = profiles /\ profileFlagged' = profileFlagged
      /\ group' = group
  BY DEF runChecks
<1>2. /\ HeldVars' = HeldVars /\ Holders' = Holders /\ nrecs' = nrecs
      /\ \A var : Dom(var)' = Dom(var) /\ \A j : AtSet(var, j)' = AtSet(var, j) /\ At(var, j)' = At(var, j)
      /\ \A j : Reach(j)' = Reach(j) /\ LocsOf(j)' = LocsOf(j)
      /\ LoadsFlags' = LoadsFlags /\ Done' = Done /\ Done = jprof - 1
      /\ \A s : (\A var : Value(s, var)' = Value(s, var)) /\ Typed(s)' = Typed(s)
  BY <1>1, DefinitionsKept, SampleKept DEF LoadsFlags, Done
<1>3. /\ \A var \in Vars : \A i \in Dom(var) : Value(entireSampleData, var)[i] = Truth(var, i)
      /\ Typed(entireSampleData) /\ {"flags", "report"} \subseteq DOMAIN obsdb /\ DOMAIN obsdb \subseteq Vars
  BY <1>1 DEF DataInv, SampleInv, Pending
<1>4. jprof \in 1 .. nrecs /\ profileData = <<>> /\ FoundInv
  BY <1>1, RunChecksCaches DEF DataInv, CacheInv
<1>5. AtSet("report", jprof) = Reach(jprof) /\ Reach(jprof) \subseteq Dom("report")
      /\ AtSet("flags", jprof) = Reach(jprof)
  BY <1>4, AtOfProfile DEF Vars
<1>6. HoldersInv'
  BY <1>1, <1>2 DEF HoldersInv, DataInv
<1>7. \A var, i : Pending(var, i)' <=> i \in AtSet(var, jprof) /\ var \in DOMAIN profileData' \cup {"report"}
  BY <1>1, <1>2 DEF Pending
<1>8. CASE ~LoadsFlags /\ UNCHANGED <<profileData, entireSampleData, found>>
  <2>1. PICK e : e = entireSampleData
    OBVIOUS
  <2>2. /\ FoundInv' /\ \A var, i : Truth(var, i)' = Truth(var, i)
        /\ \A j : IsFailed(j)' = IsFailed(j)
    BY <1>4, <1>8, DefinitionsKept
  <2>3. SampleInv'
    BY <1>1, <1>2, <1>3, <1>8, <2>1, <2>2 DEF SampleInv, Vars
  <2>4. DOMAIN profileData = {}
    BY <1>4
  <2>5. CacheInv'
    <3>1. \A i \in Reach(jprof) : Value(e, "report")[i] <= Truth("report", i)
      <4>1. \A i \in Reach(jprof) : Value(e, "report")[i] = Truth("report", i) /\ Truth("report", i) \in Nat
        BY <1>3, <1>5, <2>1, <1>4, TruthIsNat DEF Vars
      <4> QED
        BY <4>1
    <3> QED
      BY <1>1, <1>2, <1>8, <2>1, <2>2, <2>4, <3>1 DEF CacheInv
  <2>6. FlaggedInv'
    <3>1. Settled' = 1 .. nrecs /\ Settled = 1 .. nrecs
      BY <1>1, <1>2, <1>8, <2>4 DEF Settled
    <3> QED
      BY <1>1, <1>2, <1>8, <2>2, <3>1 DEF FlaggedInv, DataInv, FilterVars
  <2> QED
    BY <1>6, <2>2, <2>3, <2>5, <2>6 DEF DataInv
<1>9. ASSUME NEW levels \in SUBSET DOMAIN LocsOf(jprof), NEW more \in {0, 1},
             DOMAIN LocsOf(jprof) = {} => more = 0,
             FoundMore(jprof, levels, more),
             entireSampleData' = SampleGet(SampleGet(entireSampleData, "flags"), "errors"),
             DOMAIN profileData' = {"flags", "errors"},
             profileData'["flags"] =
               [k \in DOMAIN LocsOf(jprof) |-> IF k \in levels THEN 1 ELSE Truth("flags", LocsOf(jprof)[k])],
             profileData'["errors"] =
               [k \in DOMAIN At("errors", jprof) |->
                  IF k = 1 THEN Truth("errors", At("errors", jprof)[k]) + more
                  ELSE Truth("errors", At("errors", jprof)[k])]
      PROVE  DataInv'
  <2>1. PICK j \in 1 .. nrecs : j = jprof
    BY <1>4
  <2>2. /\ FoundInv'
        /\ \A l \in 1 .. nrecs : l # j => IsFailed(l)' = IsFailed(l)
        /\ IsFailed(j) => IsFailed(j)'
        /\ \A var \in Vars : \A i \in Dom(var) \ AtSet(var, j) : Truth(var, i)' = Truth(var, i)
        /\ \A i \in Reach(j) : Truth("report", i) <= Truth("report", i)'
        /\ \A k \in DOMAIN LocsOf(j) :
             Truth("flags", LocsOf(j)[k])' = IF k \in levels THEN 1 ELSE Truth("flags", LocsOf(j)[k])
        /\ \A k \in DOMAIN At("errors", j) :
             Truth("errors", At("errors", j)[k])' =
               IF k = 1 THEN Truth("errors", At("errors", j)[k]) + more ELSE 0
    <3>1. /\ more \in Nat /\ levels \in SUBSET DOMAIN LocsOf(j) /\ FoundInv
          /\ DOMAIN LocsOf(j) = {} => more = 0
      BY <1>4, <1>9, <2>1
    <3>2. FoundMore(j, levels, more)
      BY <1>9, <2>1
    <3> HIDE <1>9
    <3> QED
      BY <3>1, <3>2, FoundMoreTruth
  <2>3. PICK e, f : e = entireSampleData' /\ f = SampleGet(entireSampleData, "flags")
    OBVIOUS
  <2>4. /\ DOMAIN e = DOMAIN entireSampleData \cup {"flags", "errors"}
        /\ \A v : Value(e, v) = Value(entireSampleData, v)
    <3>1. /\ DOMAIN f = DOMAIN entireSampleData \cup {"flags"}
          /\ \A v : Value(f, v) = Value(entireSampleData, v)
      BY <1>3, <2>3, SampleGetLoads DEF Vars
    <3>2. /\ DOMAIN SampleGet(f, "errors") = DOMAIN f \cup {"errors"}
          /\ \A v : Value(SampleGet(f, "errors"), v) = Value(f, v)
      BY <1>3, SampleGetLoads DEF Vars
    <3> QED
      BY <1>9, <2>3, <3>1, <3>2
  <2>5. Typed(e)
    BY <1>3, <2>4 DEF Typed, Vars
  <2>6. SampleInv'
    <3>1. \A var \in Vars : \A i \in Dom(var) : ~Pending(var, i)' => Value(e, var)[i] = Truth(var, i)'
      <4> SUFFICES ASSUME NEW var \in Vars, NEW i \in Dom(var), ~Pending(var, i)'
                   PROVE  Value(e, var)[i] = Truth(var, i)'
        OBVIOUS
      <4>1. i \notin AtSet(var, j)
        BY <1>7, <1>9, <2>1 DEF Vars
      <4>2. Truth(var, i)' = Truth(var, i)
        BY <2>2, <4>1
      <4> QED
        BY <1>3, <2>4, <4>2
    <3> QED
      BY <1>1, <1>2, <1>3, <2>3, <2>5, <3>1 DEF SampleInv, Vars
  <2>7. CacheInv'
    <3>1. profileData'["flags"] = Image("flags", j)'
      <4>1. At("flags", j)' = LocsOf(j) /\ LocsOf(j)' = LocsOf(j)
        BY <1>2, AtOfProfile DEF Vars
      <4>2. \A k \in DOMAIN LocsOf(j) : Truth("flags", At("flags", j)[k])' =
              IF k \in levels THEN 1 ELSE Truth("flags", LocsOf(j)[k])
        BY <2>2, <4>1
      <4> QED
        BY <1>9, <2>1, <4>1, <4>2 DEF Image
    <3>2. profileData'["errors"] = Image("errors", j)'
      <4>1. At("errors", j)' = At("errors", j)
        BY <1>2
      <4>2. \A k \in DOMAIN At("errors", j) : k # 1 => Truth("errors", At("errors", j)[k]) = 0
        BY <1>4, TruthOfProfile
      <4>3. \A k \in DOMAIN At("errors", j) :
              Truth("errors", At("errors", j)[k])' =
                IF k = 1 THEN Truth("errors", At("errors", j)[k]) + more ELSE Truth("errors", At("errors", j)[k])
        BY <2>2, <4>2
      <4> QED
        BY <1>9, <2>1, <4>1, <4>3 DEF Image
    <3>3. \A i \in Reach(j) : Value(e, "report")[i] <= Truth("report", i)'
      <4>1. \A i \in Reach(j) : Value(e, "report")[i] = Truth("report", i)
        BY <1>3, <1>5, <2>1, <2>4 DEF Vars
      <4> QED
        BY <2>2, <4>1
    <3>4. DOMAIN profileData' \subseteq DOMAIN e \ {"report"}
      BY <1>9, <2>4
    <3>5. \A var \in DOMAIN profileData' : profileData'[var] = Image(var, jprof)'
      BY <1>1, <1>9, <2>1, <3>1, <3>2
    <3>6. \A i \in Reach(jprof)' : Value(entireSampleData, "report")'[i] <= Truth("report", i)'
      BY <1>1, <1>2, <2>1, <2>3, <3>3
    <3>7. "flags" \in DOMAIN profileData'
      BY <1>9
    <3> QED
      BY <1>1, <2>3, <3>4, <3>5, <3>6, <3>7 DEF CacheInv
  <2>8. FlaggedInv'
    <3>1. Settled' \subseteq Settled /\ Settled' \subseteq (1 .. nrecs) \ {j}
      <4>1. CASE LoadsFlags
        <5>1. Settled = 1 .. Done /\ Settled' = 1 .. Done
          BY <1>1, <1>2, <4>1 DEF Settled
        <5>2. 1 .. Done \subseteq (1 .. nrecs) \ {j}
          BY <1>2, <2>1, SampleTypes
        <5> QED
          BY <5>1, <5>2
      <4>2. CASE ~LoadsFlags
        BY <1>1, <1>2, <1>9, <2>1, <4>2 DEF Settled
      <4> QED
        BY <4>1, <4>2
    <3>2. found'.flags = found.flags \cup {LocsOf(j)[k] : k \in levels}
      BY <1>9, <2>1 DEF FoundMore
    <3>3. ASSUME NEW l \in Settled' PROVE found'.flags \cap Reach(l) = found.flags \cap Reach(l)
      <4>1. Reach(j) \cap Reach(l) = {}
        BY <3>1, <3>3, ReachOfProfile
      <4>2. {LocsOf(j)[k] : k \in levels} \subseteq Reach(j)
        BY <2>1 DEF Reach
      <4> QED
        BY <3>2, <4>1, <4>2
    <3>4. FlaggedInv
      BY DEF DataInv
    <3>5. \A l \in Settled' : /\ IsFailed(l)' => FilterVars \X Reach(l) \subseteq profileFlagged
                              /\ {"flags"} \X (found'.flags \cap Reach(l)) \subseteq profileFlagged
      BY <1>1, <2>2, <3>1, <3>3, <3>4 DEF FlaggedInv
    <3>6. \A x \in profileFlagged :
            \/ x \in {"flags"} \X found'.flags
            \/ \E l \in 1 .. nrecs : IsFailed(l)' /\ x \in FilterVars \X Reach(l)
      BY <2>2, <3>2, <3>4 DEF FlaggedInv
    <3> QED
      BY <1>1, <1>2, <3>5, <3>6 DEF FlaggedInv, FilterVars
  <2> QED
    BY <1>6, <2>2, <2>6, <2>7, <2>8 DEF DataInv
<1> QED
  BY <1>8, <1>9, RunChecksCaches

LEMMA UpdateProfileData ==
  ASSUME Given, Contiguous, ShapeInv, WalkInv, DataInv, updateProfile
  PROVE  DataInv'
<1>1. /\ loop = "check" /\ pc = "update" /\ pc' = "initialise" /\ loop' = loop /\ jprof' = jprof
      /\ obsdb' = obsdb /\ profiles' = profiles /\ found' = found /\ group' = group /\ sample' = sample
      /\ entireSampleData' = Stored(profileData, entireSampleData)
      /\ profileFlagged' = profileFlagged \cup Flagged(Final(profileData, entireSampleData))
  BY DEF updateProfile, updateProfileInformation, Stored, Final, Loaded
<1>2. /\ FoundInv' /\ HeldVars' = HeldVars /\ Holders' = Holders /\ nrecs' = nrecs
      /\ \A var : Dom(var)' = Dom(var)
      /\ \A j : Reach(j)' = Reach(j) /\ IsFailed(j)' = IsFailed(j)
      /\ \A var, i : Truth(var, i)' = Truth(var, i)
      /\ \A s : (\A var : Value(s, var)' = Value(s, var)) /\ Typed(s)' = Typed(s)
      /\ LoadsFlags' = LoadsFlags /\ Done' = jprof /\ Done = jprof - 1
  BY <1>1, DefinitionsKept, SampleKept DEF LoadsFlags, Done, DataInv
<1>3. PICK d, s : d = profileData /\ s = entireSampleData
  OBVIOUS
<1>4. /\ jprof \in 1 .. nrecs /\ FoundInv /\ nrecs \in Nat
  BY <1>1, IndicesAt, SampleTypes DEF DataInv
<1>5. /\ DOMAIN d \subseteq DOMAIN s \ {"report"} /\ (LoadsFlags => "flags" \in DOMAIN d)
      /\ \A var \in DOMAIN d : d[var] = Image(var, jprof)
      /\ \A i \in Reach(jprof) : Value(s, "report")[i] <= Truth("report", i)
  BY <1>1, <1>3 DEF DataInv, CacheInv
<1>6. /\ Typed(s) /\ {"flags", "report"} \subseteq DOMAIN obsdb /\ DOMAIN obsdb \subseteq Vars
      /\ \A var \in Vars : \A i \in Dom(var) :
           i \notin AtSet(var, jprof) \/ var \notin DOMAIN d \cup {"report"} => Value(s, var)[i] = Truth(var, i)
  BY <1>1, <1>3 DEF DataInv, SampleInv, Pending
<1>7. Ready(d, s, jprof)
  <2>1. \A var \in Vars : AtSet(var, jprof) \subseteq Dom(var)
    BY <1>4, AtOfProfile
  <2> QED
    BY <1>5, <1>6, <2>1 DEF Ready, Vars
<1>8. PICK e : e = Stored(d, s)
  OBVIOUS
<1>9. /\ Typed(e) /\ DOMAIN e = DOMAIN s \cup {"report", "errors"}
      /\ \A var \in Vars : \A i \in Dom(var) :
           Value(e, var)[i] = IF i \in AtSet(var, jprof) /\ var \in DOMAIN d \cup {"report", "errors"}
                              THEN Truth(var, i) ELSE Value(s, var)[i]
      /\ Flagged(Final(d, s)) =
           {"flags"} \X (IF "flags" \in DOMAIN d THEN found.flags \cap Reach(jprof) ELSE {})
           \cup FilterVars \X (IF IsFailed(jprof) THEN Reach(jprof) ELSE {})
  <2>1. Stores(Stored(d, s), Flagged(Final(d, s)), d, s, jprof)
    BY <1>1, <1>4, <1>6, <1>7, StoredValues
  <2> QED
    BY <1>8, <2>1 DEF Stores
<1>10. SampleInv'
  <2>1. \A var \in Vars : \A i \in Dom(var) : Value(e, var)[i] = Truth(var, i)
    BY <1>6, <1>9
  <2> QED
    BY <1>1, <1>2, <1>3, <1>6, <1>8, <1>9, <2>1 DEF SampleInv, Vars
<1>11. CacheInv'
  BY <1>1 DEF CacheInv
<1>12. HoldersInv'
  BY <1>1, <1>2 DEF HoldersInv, DataInv
<1>13. FlaggedInv'
  <2>1. profileFlagged' = profileFlagged \cup {"flags"} \X (IF "flags" \in DOMAIN d THEN found.flags \cap Reach(jprof) ELSE {})
                          \cup FilterVars \X (IF IsFailed(jprof) THEN Reach(jprof) ELSE {})
    BY <1>1, <1>3, <1>9
  <2>2. FlaggedInv
    BY DEF DataInv
  <2>3. \A x \in profileFlagged' :
          \/ x \in {"flags"} \X found.flags
          \/ \E j \in 1 .. nrecs : IsFailed(j) /\ x \in FilterVars \X Reach(j)
    BY <1>4, <2>1, <2>2 DEF FlaggedInv
  <2>4. \A j \in Settled' : (j = jprof /\ "flags" \in DOMAIN d) \/ j \in Settled
    <3>1. CASE LoadsFlags
      <4>1. Settled' = 1 .. jprof /\ Settled = 1 .. (jprof - 1)
        BY <1>1, <1>2, <3>1 DEF Settled
      <4>2. \A j \in 1 .. jprof : j = jprof \/ j \in 1 .. (jprof - 1)
        BY <1>4
      <4> QED
        BY <1>5, <3>1, <4>1, <4>2
    <3>2. CASE ~LoadsFlags
      BY <1>1, <1>2, <1>3, <3>2 DEF Settled
    <3> QED
      BY <3>1, <3>2
  <2>5. \A j \in Settled' : /\ IsFailed(j) => FilterVars \X Reach(j) \subseteq profileFlagged'
                            /\ {"flags"} \X (found.flags \cap Reach(j)) \subseteq profileFlagged'
    <3> SUFFICES ASSUME NEW j \in Settled'
                 PROVE  /\ IsFailed(j) => FilterVars \X Reach(j) \subseteq profileFlagged'
                        /\ {"flags"} \X (found.flags \cap Reach(j)) \subseteq profileFlagged'
      OBVIOUS
    <3>1. CASE j \in Settled
      BY <1>1, <2>1, <2>2, <3>1 DEF FlaggedInv
    <3>2. CASE j = jprof /\ "flags" \in DOMAIN d
      BY <2>1, <3>2
    <3> QED
      BY <2>4, <3>1, <3>2
  <2> QED
    BY <1>1, <1>2, <2>3, <2>5 DEF FlaggedInv, FilterVars
<1> QED
  BY <1>2, <1>10, <1>11, <1>12, <1>13 DEF DataInv

LEMMA WriteData ==
  ASSUME Given, ShapeInv, WalkInv, DataInv, writeQuantitiesToObsdb
  PROVE  DataInv'
<1>1. /\ loop \in {"check", "move"} /\ pc = "initialise" /\ pc' \in {"start", "done"} /\ loop' = "none"
      /\ jprof = nrecs /\ jprof' = jprof /\ profiles' = profiles /\ found' = found /\ sample' = sample
      /\ entireSampleData' = SampleGet(entireSampleData, "errors")
      /\ profileFlagged' = profileFlagged /\ nrecs \in Nat
      /\ group' = group + 1 /\ group \in 1 .. Len(sample.groups) /\ Len(sample.groups) \in Nat
  <2>1. sample.groups \in Seq({"profile", "sample", "filter"})
    BY DEF Given, ProfilesAssumption
  <2>2. Len(sample.groups) \in Nat
    BY <2>1
  <2> QED
    BY <2>2, SampleTypes DEF writeQuantitiesToObsdb, ShapeInv
<1>2. /\ FoundInv' /\ HeldVars' = HeldVars /\ Holders' = Holders /\ nrecs' = nrecs
      /\ \A var : Dom(var)' = Dom(var)
      /\ \A j : Reach(j)' = Reach(j) /\ IsFailed(j)' = IsFailed(j)
      /\ \A var, i : Truth(var, i)' = Truth(var, i)
      /\ Done = nrecs
  BY <1>1, DefinitionsKept, SampleKept DEF Done, DataInv
<1>3. PICK s, e, b : s = entireSampleData /\ e = SampleGet(s, "errors") /\ b = obsdb'
  OBVIOUS
<1>4. /\ Typed(s) /\ {"flags", "report"} \subseteq DOMAIN obsdb /\ DOMAIN obsdb \subseteq Vars
      /\ \A var \in Vars : \A i \in Dom(var) : Value(s, var)[i] = Truth(var, i)
  <2>1. \A var, i : ~Pending(var, i)
    BY <1>1, <1>2 DEF Pending
  <2> QED
    BY <1>3, <2>1 DEF DataInv, SampleInv
<1>5. /\ DOMAIN e = DOMAIN s \cup {"errors"} /\ \A v : Value(e, v) = Value(s, v)
      /\ \A v \in DOMAIN s : e[v] = s[v]
  BY <1>3, <1>4, SampleGetLoads DEF Vars
<1>6. \A var \in DOMAIN e : var \in Vars /\ e[var] = Value(s, var) /\ e[var] # <<>>
  <2>1. \A var \in Vars : Dom(var) # {}
    BY SampleTypes DEF Dom
  <2>2. \A var \in DOMAIN e : var \in Vars /\ e[var] = Value(e, var)
    BY <1>4, <1>5 DEF Typed, Vars, Value
  <2>3. \A var \in Vars : Value(s, var) # <<>>
    BY <1>4, <2>1 DEF Typed
  <2> QED
    BY <1>5, <2>2, <2>3
<1>7. /\ DOMAIN b = DOMAIN obsdb \cup DOMAIN e
      /\ \A var \in DOMAIN e : b[var] = e[var]
      /\ \A var \in DOMAIN obsdb \ DOMAIN e : b[var] = obsdb[var]
  <2> DEFINE w == [var \in {v \in DOMAIN e : e[v] # <<>>} |-> e[var]]
  <2>1. b = Over(w, obsdb)
    BY <1>1, <1>3 DEF writeQuantitiesToObsdb
  <2>2. DOMAIN w = DOMAIN e /\ \A var \in DOMAIN e : w[var] = e[var]
    BY <1>6
  <2> HIDE DEF w
  <2> QED
    BY <2>1, <2>2 DEF Over
<1>8. \A var \in Vars : Value(e, var)' = Value(s, var)
  <2>1. Default("errors")' = Default("errors")
    BY <1>1, SampleKept DEF Default
  <2>2. \A var \in DOMAIN e : Value(e, var)' = e[var]
    BY DEF Value
  <2>3. \A var \in Vars \ DOMAIN e : Value(e, var)' = obsdb'[var] /\ Value(s, var) = obsdb[var]
    BY <1>3, <1>4, <1>5, <1>7 DEF Value, Vars
  <2> QED
    BY <1>3, <1>4, <1>5, <1>6, <1>7, <2>2, <2>3 DEF Vars
<1>9. SampleInv'
  <2>1. Typed(e)'
    BY <1>2, <1>4, <1>6, <1>8 DEF Typed, Vars
  <2>2. \A var \in Vars : \A i \in Dom(var) : Value(e, var)'[i] = Truth(var, i)
    BY <1>4, <1>8
  <2>3. {"flags", "report"} \subseteq DOMAIN obsdb' /\ DOMAIN obsdb' \subseteq Vars
    BY <1>3, <1>4, <1>6, <1>7
  <2>4. \A var \in DOMAIN e : var \in DOMAIN obsdb' /\ obsdb'[var] = e[var]
    BY <1>3, <1>7
  <2>5. entireSampleData' = e
    BY <1>1, <1>3
  <2> QED
    BY <1>2, <2>1, <2>2, <2>3, <2>4, <2>5 DEF SampleInv, Vars
<1>10. CacheInv'
  BY <1>1 DEF CacheInv
<1>11. HoldersInv'
  <2>1. profiles \in Seq(Holders) /\ Len(profiles) = 0
    BY <1>1, <1>2 DEF HoldersInv, DataInv
  <2> QED
    BY <1>1, <1>2, <2>1 DEF HoldersInv
<1>12. FlaggedInv'
  <2>1. FlaggedInv
    BY DEF DataInv
  <2>2. Settled = 1 .. nrecs /\ Settled' \subseteq 1 .. nrecs
    BY <1>1, <1>2 DEF Settled
  <2>3. \A j \in 1 .. nrecs : /\ IsFailed(j) => FilterVars \X Reach(j) \subseteq profileFlagged
                              /\ {"flags"} \X (found.flags \cap Reach(j)) \subseteq profileFlagged
    BY <1>1, <1>2, <2>1, <2>2 DEF FlaggedInv
  <2>4. \A x \in profileFlagged :
          \/ x \in {"flags"} \X found.flags
          \/ \E j \in 1 .. nrecs : IsFailed(j) /\ x \in FilterVars \X Reach(j)
    BY <2>1 DEF FlaggedInv
  <2> QED
    BY <1>1, <1>2, <2>2, <2>3, <2>4 DEF FlaggedInv, FilterVars
<1> QED
  BY <1>2, <1>9, <1>10, <1>11, <1>12 DEF DataInv

LEMMA HolderTypes ==
  ASSUME Given, Contiguous, FoundInv, NEW j \in 1 .. nrecs
  PROVE  /\ LocsOf(j) \in Seq(Nat) /\ HeldVars \subseteq {"flags", "report"} /\ "flags" \in HeldVars
         /\ \A var \in HeldVars : Image(var, j) \in Seq(Nat)
         /\ \A var \in HeldVars : At(var, j) = LocsOf(j) /\ AtSet(var, j) = Reach(j)
<1>1. HeldVars \subseteq {"flags", "report"} /\ "flags" \in HeldVars
  BY DEF HeldVars
<1>2. PICK size : size = Cardinality(Selected(RecordAt(j)))
  OBVIOUS
<1>3. size \in Nat /\ DOMAIN LocsOf(j) = 1 .. size
  BY <1>2, LocsOfProfile
<1>4. \A k \in 1 .. size : LocsOf(j)[k] \in Reach(j) /\ LocsOf(j)[k] \in Locs /\ LocsOf(j)[k] \in Nat
  BY <1>3, ReachOfProfile, SampleTypes DEF Reach
<1>5. LocsOf(j) \in Seq(Nat)
  <2>1. LocsOf(j) = [k \in DOMAIN LocsOf(j) |-> LocsOf(j)[k]]
    BY DEF LocsOf
  <2>2. LocsOf(j) \in [1 .. size -> Nat]
    BY <1>3, <1>4, <2>1
  <2> QED
    BY <1>3, <2>2
<1>6. ASSUME NEW var \in HeldVars PROVE Image(var, j) \in Seq(Nat) /\ At(var, j) = LocsOf(j) /\ AtSet(var, j) = Reach(j)
  <2>1. var \in Vars /\ var # "errors"
    BY <1>1 DEF Vars
  <2>2. At(var, j) = LocsOf(j) /\ AtSet(var, j) = Reach(j) /\ Dom(var) = Locs
    BY <2>1, AtOfProfile
  <2>3. \A k \in 1 .. size : Truth(var, LocsOf(j)[k]) \in Nat
    BY <1>4, <2>1, <2>2, TruthIsNat
  <2>4. Image(var, j) = [k \in 1 .. size |-> Truth(var, LocsOf(j)[k])]
    BY <1>3, <2>2 DEF Image
  <2>5. Image(var, j) \in [1 .. size -> Nat]
    BY <2>3, <2>4
  <2> QED
    BY <1>3, <2>2, <2>5
<1> QED
  BY <1>1, <1>5, <1>6

LEMMA FillData ==
  ASSUME Given, Contiguous, ShapeInv, WalkInv, DataInv, fillHolder
  PROVE  DataInv'
<1> DEFINE flags == get(profileData, entireSampleData, "flags")
           d == IF sample.holdsReport THEN get(flags, entireSampleData, "report") ELSE flags
<1>1. /\ loop = "fill" /\ pc = "use" /\ pc' = "initialise" /\ loop' = loop /\ jprof' = jprof
      /\ obsdb' = obsdb /\ found' = found /\ group' = group /\ sample' = sample
      /\ profileFlagged' = profileFlagged /\ profileData = <<>>
      /\ entireSampleData' = IF sample.holdsReport THEN SampleGet(SampleGet(entireSampleData, "flags"), "report")
                             ELSE SampleGet(entireSampleData, "flags")
      /\ profiles' = Append(profiles, [values |-> d, locs |-> profileIndices])
  BY DEF fillHolder, DataInv, CacheInv
<1>2. /\ FoundInv' /\ HeldVars' = HeldVars /\ Holders' = Holders /\ nrecs' = nrecs
      /\ \A var : Dom(var)' = Dom(var)
      /\ \A j : Reach(j)' = Reach(j) /\ IsFailed(j)' = IsFailed(j)
      /\ \A var, i : Truth(var, i)' = Truth(var, i)
      /\ \A h, j : Holds(h, j)' = Holds(h, j)
      /\ \A s : (\A var : Value(s, var)' = Value(s, var)) /\ Typed(s)' = Typed(s)
      /\ Done' = jprof /\ Done = jprof - 1
  BY <1>1, DefinitionsKept, SampleKept DEF Done, DataInv
<1>3. /\ jprof \in 1 .. nrecs /\ FoundInv /\ nrecs \in Nat /\ profileIndices = LocsOf(jprof)
  BY <1>1, IndicesAt, SampleTypes DEF DataInv
<1>4. /\ flags["flags"] = Image("flags", jprof) /\ DOMAIN flags = {"flags"}
      /\ flags = [v \in DOMAIN flags |-> flags[v]]
  <2>1. PICK x : x = [v \in {} |-> v]
    OBVIOUS
  <2>2. DOMAIN x = {} /\ x = [v \in DOMAIN x |-> x[v]]
    BY <2>1
  <2>3. x = profileData
    BY <1>1, <2>2, EmptyFunction
  <2>4. "flags" \in Vars /\ "flags" \notin DOMAIN x /\ loop # "move"
    BY <1>1, <2>2 DEF Vars
  <2>5. Adds(get(x, entireSampleData, "flags"), x, "flags", Image("flags", jprof))
    BY <1>1, <2>4, BeforeUse
  <2>6. flags = get(x, entireSampleData, "flags")
    BY <2>3
  <2> HIDE DEF flags
  <2> QED
    BY <2>2, <2>5, <2>6 DEF Adds
<1> HIDE DEF flags
<1>5. /\ DOMAIN d = HeldVars /\ \A var \in HeldVars : d[var] = Image(var, jprof)
      /\ d = [v \in DOMAIN d |-> d[v]]
  <2>1. CASE sample.holdsReport
    <3>1. PICK x : x = flags
      OBVIOUS
    <3>2. "report" \in Vars /\ "report" \notin DOMAIN x /\ loop # "move"
      BY <1>1, <1>4, <3>1 DEF Vars
    <3>3. Adds(get(x, entireSampleData, "report"), x, "report", Image("report", jprof))
      BY <1>1, <3>2, BeforeUse
    <3>4. d = get(x, entireSampleData, "report")
      BY <2>1, <3>1
    <3> HIDE DEF d
    <3> QED
      BY <1>4, <2>1, <3>1, <3>3, <3>4 DEF Adds, HeldVars
  <2>2. CASE ~sample.holdsReport
    BY <1>4, <2>2 DEF HeldVars
  <2> QED
    BY <2>1, <2>2
<1> HIDE DEF d
<1>6. PICK h : h = [values |-> d, locs |-> LocsOf(jprof)]
  OBVIOUS
<1>7. h \in Holders /\ Holds(h, jprof)
  <2>1. /\ LocsOf(jprof) \in Seq(Nat) /\ \A var \in HeldVars : d[var] \in Seq(Nat)
    BY <1>3, <1>5, HolderTypes
  <2>2. d \in [HeldVars -> Seq(Nat)]
    BY <1>5, <2>1
  <2> QED
    BY <1>5, <1>6, <2>1, <2>2 DEF Holders, Holds
<1>8. HoldersInv'
  <2>1. PICK held : held = profiles
    OBVIOUS
  <2>2. /\ held \in Seq(Holders) /\ Len(held) = jprof - 1
        /\ \A j \in 1 .. (jprof - 1) : Holds(held[j], j)
    BY <1>1, <1>2, <2>1 DEF DataInv, HoldersInv
  <2>3. profiles' = Append(held, h)
    BY <1>1, <1>3, <1>6, <2>1
  <2>4. /\ Append(held, h) \in Seq(Holders) /\ Len(Append(held, h)) = jprof
        /\ \A j \in 1 .. (jprof - 1) : Append(held, h)[j] = held[j]
        /\ Append(held, h)[jprof] = h
    BY <1>3, <1>7, <2>2
  <2>5. \A j \in 1 .. jprof : Holds(Append(held, h)[j], j)
    <3>1. \A j \in 1 .. jprof : j \in 1 .. (jprof - 1) \/ j = jprof
      BY <1>3
    <3> QED
      BY <1>7, <2>2, <2>4, <3>1
  <2> QED
    BY <1>1, <1>2, <2>3, <2>4, <2>5 DEF HoldersInv
<1>9. SampleInv'
  <2>1. PICK s, f, e : s = entireSampleData /\ f = SampleGet(s, "flags") /\ e = entireSampleData'
    OBVIOUS
  <2>2. /\ Typed(s) /\ {"flags", "report"} \subseteq DOMAIN obsdb /\ DOMAIN obsdb \subseteq Vars
        /\ \A var \in Vars : \A i \in Dom(var) : Value(s, var)[i] = Truth(var, i)
    BY <1>1, <2>1 DEF DataInv, SampleInv, Pending
  <2>3. DOMAIN f = DOMAIN s \cup {"flags"} /\ \A v : Value(f, v) = Value(s, v)
    BY <2>1, <2>2, SampleGetLoads DEF Vars
  <2>4. DOMAIN e \subseteq DOMAIN s \cup {"flags", "report"} /\ \A v : Value(e, v) = Value(s, v)
    <3>1. CASE sample.holdsReport
      <4>1. DOMAIN SampleGet(f, "report") = DOMAIN f \cup {"report"} /\ \A v : Value(SampleGet(f, "report"), v) = Value(f, v)
        BY <2>2, SampleGetLoads DEF Vars
      <4> QED
        BY <1>1, <2>1, <2>3, <3>1, <4>1
    <3>2. CASE ~sample.holdsReport
      BY <1>1, <2>1, <2>3, <3>2
    <3> QED
      BY <3>1, <3>2
  <2>5. Typed(e) /\ \A var \in Vars : \A i \in Dom(var) : Value(e, var)[i] = Truth(var, i)
    BY <2>2, <2>4 DEF Typed, Vars
  <2> QED
    BY <1>1, <1>2, <2>1, <2>2, <2>5 DEF SampleInv, Vars
<1>10. CacheInv'
  BY <1>1 DEF CacheInv
<1>11. FlaggedInv'
  <2>1. Settled = 1 .. nrecs /\ Settled' = 1 .. nrecs
    BY <1>1, <1>2 DEF Settled
  <2> QED
    BY <1>1, <1>2, <2>1 DEF FlaggedInv, DataInv, FilterVars
<1> QED
  BY <1>2, <1>8, <1>9, <1>10, <1>11 DEF DataInv

(* A holder with levels rejected.                                          *)
Marked(h, levels) ==
  [h EXCEPT !.values["flags"] = [k \in DOMAIN @ |-> IF k \in levels THEN reject(@[k]) ELSE @[k]]]

LEMMA CheckSampleData ==
  ASSUME Given, Contiguous, ShapeInv, WalkInv, DataInv, checkEntireSample
  PROVE  DataInv'
<1>1. /\ loop = "fill" /\ pc = "initialise" /\ pc' = pc /\ loop' = "move" /\ jprof = nrecs /\ jprof' = 0
      /\ obsdb' = obsdb /\ group' = group /\ sample' = sample
      /\ profileFlagged' = profileFlagged /\ entireSampleData' = entireSampleData
  BY DEF checkEntireSample
<1>2. /\ nrecs \in Nat /\ nrecs >= 1 /\ Done = nrecs /\ Done' = 0 /\ FoundInv
  BY <1>1, SampleTypes DEF Done, DataInv
<1>3. PICK held : held = profiles
  OBVIOUS
<1>4. /\ held \in Seq(Holders) /\ Len(held) = nrecs /\ DOMAIN held = 1 .. nrecs
      /\ \A j \in 1 .. nrecs : Holds(held[j], j) /\ held[j] \in Holders
  BY <1>1, <1>2, <1>3 DEF DataInv, HoldersInv
<1>5. PICK p \in DOMAIN profiles :
        \E levels \in {{}} \cup {{k} : k \in DOMAIN profiles[p].values["flags"]} :
          /\ profiles' = [profiles EXCEPT ![p].values["flags"] =
                            [k \in DOMAIN @ |-> IF k \in levels THEN reject(@[k]) ELSE @[k]]]
          /\ found' = [found EXCEPT !.flags = @ \cup {profiles[p].locs[k] : k \in levels}]
  BY DEF checkEntireSample, RejectsAny
<1>6. PICK h : h = held[p]
  OBVIOUS
<1>7. PICK levels \in {{}} \cup {{k} : k \in DOMAIN h.values["flags"]} :
        /\ profiles' = [held EXCEPT ![p] = Marked(h, levels)]
        /\ found' = [found EXCEPT !.flags = @ \cup {h.locs[k] : k \in levels}]
  <2>1. PICK levels \in {{}} \cup {{k} : k \in DOMAIN profiles[p].values["flags"]} :
          /\ profiles' = [profiles EXCEPT ![p] = Marked(profiles[p], levels)]
          /\ found' = [found EXCEPT !.flags = @ \cup {profiles[p].locs[k] : k \in levels}]
    BY <1>5 DEF Marked
  <2>2. profiles[p] = h /\ profiles = held
    BY <1>3, <1>6
  <2>3. /\ levels \in {{}} \cup {{k} : k \in DOMAIN h.values["flags"]}
        /\ profiles' = [held EXCEPT ![p] = Marked(h, levels)]
        /\ found' = [found EXCEPT !.flags = @ \cup {h.locs[k] : k \in levels}]
    BY <2>1, <2>2
  <2> QED
    BY <2>3
<1>8. /\ p \in 1 .. nrecs /\ h.locs = LocsOf(p) /\ h.values["flags"] = Image("flags", p) /\ h \in Holders
      /\ "flags" \in HeldVars /\ HeldVars \subseteq {"flags", "report"}
      /\ At("flags", p) = LocsOf(p)
      /\ \A var \in HeldVars : h.values[var] = Image(var, p)
      /\ \A j \in 1 .. nrecs : \A var \in HeldVars : At(var, j) = LocsOf(j)
  <2>1. p \in 1 .. nrecs
    BY <1>3, <1>4, <1>5
  <2>2. /\ "flags" \in HeldVars /\ HeldVars \subseteq {"flags", "report"}
        /\ \A j \in 1 .. nrecs : \A var \in HeldVars : At(var, j) = LocsOf(j)
    BY <1>2, <2>1, HolderTypes
  <2> QED
    BY <1>4, <1>6, <2>1, <2>2 DEF Holds
<1>9. levels \in SUBSET DOMAIN LocsOf(p)
  <2>1. DOMAIN Image("flags", p) = DOMAIN LocsOf(p)
    BY <1>8 DEF Image
  <2> QED
    BY <1>7, <1>8, <2>1
<1>10. /\ FoundMore(p, levels, 0) /\ found'.errors = found.errors
       /\ found'.flags = found.flags \cup {LocsOf(p)[k] : k \in levels}
  <2>1. /\ found.errors \in [Records -> Nat] /\ RecordAt(p) \in Records
        /\ found = [flags |-> found.flags, errors |-> found.errors]
    BY <1>2, <1>8, RanksOfRecords DEF FoundInv
  <2>2. found' = [flags |-> found.flags \cup {LocsOf(p)[k] : k \in levels}, errors |-> found.errors]
    BY <1>7, <1>8, <2>1
  <2>3. found.errors = [found.errors EXCEPT ![RecordAt(p)] = @ + 0]
    BY <2>1
  <2> QED
    BY <2>2, <2>3 DEF FoundMore
<1>11. /\ FoundInv'
       /\ \A i \in Locs \ Reach(p) : Truth("flags", i)' = Truth("flags", i)
       /\ \A k \in DOMAIN LocsOf(p) :
            Truth("flags", LocsOf(p)[k])' = IF k \in levels THEN 1 ELSE Truth("flags", LocsOf(p)[k])
  <2>1. /\ FoundInv'
        /\ \A var \in Vars : \A i \in Dom(var) \ AtSet(var, p) : Truth(var, i)' = Truth(var, i)
        /\ \A k \in DOMAIN LocsOf(p) :
             Truth("flags", LocsOf(p)[k])' = IF k \in levels THEN 1 ELSE Truth("flags", LocsOf(p)[k])
    BY <1>1, <1>2, <1>8, <1>9, <1>10, FoundMoreTruth
  <2>2. AtSet("flags", p) = Reach(p) /\ Dom("flags") = Locs
    BY <1>8, AtOfProfile DEF Vars
  <2> QED
    BY <2>1, <2>2 DEF Vars
<1>12. /\ HeldVars' = HeldVars /\ Holders' = Holders /\ nrecs' = nrecs
       /\ \A var : Dom(var)' = Dom(var) /\ \A j : At(var, j)' = At(var, j)
       /\ \A j : Reach(j)' = Reach(j) /\ LocsOf(j)' = LocsOf(j)
       /\ \A s : (\A var : Value(s, var)' = Value(s, var)) /\ Typed(s)' = Typed(s)
       /\ \A j : IsFailed(j)' = IsFailed(j)
       /\ \A i : Truth("report", i)' = Truth("report", i) /\ Truth("errors", i)' = Truth("errors", i)
  <2>1. /\ nrecs' = nrecs /\ \A j : Reach(j)' = Reach(j) /\ LocsOf(j)' = LocsOf(j) /\ RecordAt(j)' = RecordAt(j)
        /\ \A i : IsFirst(i)' = IsFirst(i) /\ num(i)' = num(i)
    BY <1>1, SampleKept, DefinitionsKept
  <2>2. \A j : IsFailed(j)' = IsFailed(j)
    BY <1>1, <1>10, <2>1 DEF IsFailed
  <2>3. \A i : Truth("report", i)' = Truth("report", i) /\ Truth("errors", i)' = Truth("errors", i)
    BY <1>1, <1>10, <2>1, <2>2 DEF Truth
  <2> QED
    BY <1>1, <2>1, <2>2, <2>3, DefinitionsKept
<1>13. PICK g : g = Marked(h, levels)
  OBVIOUS
<1>14. /\ g.locs = LocsOf(p) /\ g \in Holders
       /\ g.values["flags"] = [k \in DOMAIN LocsOf(p) |-> IF k \in levels THEN 1 ELSE Truth("flags", LocsOf(p)[k])]
       /\ \A var \in HeldVars \ {"flags"} : g.values[var] = Image(var, p)
  <2>1. PICK f : f = h.values["flags"]
    OBVIOUS
  <2>2. f = [k \in DOMAIN LocsOf(p) |-> Truth("flags", LocsOf(p)[k])] /\ f \in Seq(Nat)
    BY <1>2, <1>8, <2>1, HolderTypes DEF Image
  <2>3. /\ reject(0) = 1 /\ reject(1) = 1 /\ \A i : Truth("flags", i) \in {0, 1}
    BY DEF reject, isRejected, Truth
  <2>4. DOMAIN f = DOMAIN LocsOf(p) /\ \A k \in DOMAIN f : f[k] = Truth("flags", LocsOf(p)[k]) /\ reject(f[k]) = 1
    BY <2>2, <2>3
  <2>5. PICK x : x = [k \in DOMAIN f |-> IF k \in levels THEN reject(f[k]) ELSE f[k]]
    OBVIOUS
  <2>6. x = [k \in DOMAIN LocsOf(p) |-> IF k \in levels THEN 1 ELSE Truth("flags", LocsOf(p)[k])]
    BY <2>4, <2>5
  <2>7. x \in Seq(Nat)
    <3>1. Len(f) \in Nat /\ DOMAIN f = 1 .. Len(f) /\ \A k \in 1 .. Len(f) : f[k] \in Nat
      BY <2>2
    <3>2. x \in [1 .. Len(f) -> Nat]
      BY <2>4, <2>5, <3>1
    <3> QED
      BY <3>1, <3>2
  <2>8. h.values \in [HeldVars -> Seq(Nat)] /\ h.locs \in Seq(Nat) /\ h = [values |-> h.values, locs |-> h.locs]
    BY <1>8 DEF Holders
  <2>9. g = [values |-> [h.values EXCEPT !["flags"] = x], locs |-> h.locs]
    BY <1>13, <2>1, <2>5, <2>8 DEF Marked
  <2>10. [h.values EXCEPT !["flags"] = x] \in [HeldVars -> Seq(Nat)]
    BY <2>7, <2>8
  <2>11. g \in Holders
    BY <2>8, <2>9, <2>10 DEF Holders
  <2> QED
    BY <1>8, <2>6, <2>8, <2>9, <2>11
<1>15. Holds(g, p)'
  <2>1. Image("flags", p)' = g.values["flags"]
    <3>1. At("flags", p)' = LocsOf(p) /\ LocsOf(p)' = LocsOf(p)
      BY <1>8, <1>12
    <3>2. \A k \in DOMAIN LocsOf(p) : Truth("flags", At("flags", p)[k])' =
            IF k \in levels THEN 1 ELSE Truth("flags", LocsOf(p)[k])
      BY <1>11, <3>1
    <3> QED
      BY <1>14, <3>1, <3>2 DEF Image
  <2>2. \A var \in HeldVars \ {"flags"} : Image(var, p)' = Image(var, p)
    BY <1>8, <1>12 DEF Image
  <2> QED
    BY <1>12, <1>14, <2>1, <2>2 DEF Holds
<1>16. ASSUME NEW j \in 1 .. nrecs, j # p PROVE Holds(held[j], j)'
  <2>1. Holds(held[j], j)
    BY <1>4
  <2>2. \A k \in DOMAIN LocsOf(j) : LocsOf(j)[k] \in Locs \ Reach(p)
    BY <1>8, <1>16, ReachOfProfile DEF Reach
  <2>3. Image("flags", j)' = Image("flags", j)
    <3>1. At("flags", j)' = LocsOf(j) /\ At("flags", j) = LocsOf(j) /\ LocsOf(j)' = LocsOf(j)
      BY <1>8, <1>12
    <3>2. \A k \in DOMAIN LocsOf(j) : Truth("flags", LocsOf(j)[k])' = Truth("flags", LocsOf(j)[k])
      BY <1>11, <2>2, <3>1
    <3> QED
      BY <3>1, <3>2 DEF Image
  <2>4. \A var \in HeldVars : Image(var, j)' = Image(var, j)
    <3>1. Image("report", j)' = Image("report", j)
      BY <1>12 DEF Image
    <3> QED
      BY <1>8, <2>3, <3>1
  <2> QED
    BY <1>12, <2>1, <2>4 DEF Holds
<1>17. HoldersInv'
  <2>1. PICK new : new = [held EXCEPT ![p] = g]
    OBVIOUS
  <2>2. profiles' = new
    BY <1>7, <1>13, <2>1
  <2>3. /\ new \in Seq(Holders) /\ Len(new) = nrecs /\ new[p] = g
        /\ \A j \in 1 .. nrecs : j # p => new[j] = held[j]
    BY <1>4, <1>8, <1>14, <2>1
  <2>4. \A j \in 1 .. nrecs : Holds(new[j - 0], j)'
    <3> SUFFICES ASSUME NEW j \in 1 .. nrecs PROVE Holds(new[j - 0], j)'
      OBVIOUS
    <3>1. j - 0 = j
      BY <1>2
    <3> QED
      BY <1>15, <1>16, <2>3, <3>1
  <2> QED
    BY <1>1, <1>2, <1>12, <2>2, <2>3, <2>4 DEF HoldersInv
<1>18. SampleInv'
  <2>1. PICK e : e = entireSampleData
    OBVIOUS
  <2>2. /\ Typed(e) /\ {"flags", "report"} \subseteq DOMAIN obsdb /\ DOMAIN obsdb \subseteq Vars
        /\ \A var \in Vars : \A i \in Dom(var) : Value(e, var)[i] = Truth(var, i)
    BY <1>1, <2>1 DEF DataInv, SampleInv, Pending
  <2>3. \A var \in Vars : \A i \in Dom(var) : ~Pending(var, i)' => Value(e, var)[i] = Truth(var, i)'
    <3> SUFFICES ASSUME NEW var \in Vars, NEW i \in Dom(var), ~Pending(var, i)'
                 PROVE  Value(e, var)[i] = Truth(var, i)'
      OBVIOUS
    <3>1. CASE var # "flags"
      BY <1>12, <2>2, <3>1 DEF Vars
    <3>2. CASE var = "flags"
      <4>1. p \in 0 + 1 .. nrecs
        BY <1>8
      <4>2. i \in Locs \ Reach(p)
        BY <1>1, <1>2, <1>12, <3>2, <4>1 DEF Pending, Dom
      <4> QED
        BY <1>11, <2>2, <3>2, <4>2
    <3> QED
      BY <3>1, <3>2
  <2> QED
    BY <1>1, <1>12, <2>1, <2>2, <2>3 DEF SampleInv, Vars
<1>19. CacheInv'
  BY <1>1 DEF CacheInv
<1>20. FlaggedInv'
  <2>1. Settled = 1 .. nrecs /\ Settled' = 1 .. nrecs
    BY <1>1, <1>12 DEF Settled
  <2>2. FlaggedInv
    BY DEF DataInv
  <2>3. \A x \in profileFlagged :
          \/ x \in {"flags"} \X found'.flags
          \/ \E j \in 1 .. nrecs : IsFailed(j) /\ x \in FilterVars \X Reach(j)
    BY <1>10, <2>2 DEF FlaggedInv
  <2>4. \A j \in 1 .. nrecs : IsFailed(j) => FilterVars \X Reach(j) \subseteq profileFlagged
    BY <2>1, <2>2 DEF FlaggedInv
  <2>5. \A j \in 1 .. nrecs : ~(j <= 0)
    OBVIOUS
  <2> QED
    BY <1>1, <1>2, <1>12, <2>1, <2>3, <2>4, <2>5 DEF FlaggedInv, FilterVars
<1> QED
  BY <1>11, <1>17, <1>18, <1>19, <1>20 DEF DataInv

(* What the holders have taken stays in the cache of the sample, where       *)
(* initialiseVector finds it.                                              *)
LoadedInv ==
  /\ jprof \in Nat
  /\ loop = "move" \/ (loop = "fill" /\ Done # 0) => HeldVars \subseteq DOMAIN entireSampleData

LEMMA DomainsGrow ==
  ASSUME NEW s, NEW var
  PROVE  /\ DOMAIN SampleGet(s, var) = DOMAIN s \cup {var}
         /\ DOMAIN s \subseteq DOMAIN initialiseVector(s, var)
         /\ \A d : DOMAIN UpdatedSample(d, s) = DOMAIN s
<1>1. \A value : DOMAIN With(s, var, value) = DOMAIN s \cup {var}
  BY DEF With, Over
<1>2. DOMAIN SampleGet(s, var) = DOMAIN s \cup {var}
  BY <1>1 DEF SampleGet
<1>3. DOMAIN s \subseteq DOMAIN initialiseVector(s, var)
  BY <1>1 DEF initialiseVector
<1> QED
  BY <1>2, <1>3 DEF UpdatedSample

LEMMA LoadedStep ==
  ASSUME Given, ShapeInv, LoadedInv, sample' = sample, [Next]_vars
  PROVE  LoadedInv'
<1>1. HeldVars' = HeldVars /\ HeldVars \subseteq {"flags", "report"} /\ (~sample.holdsReport => HeldVars = {"flags"})
  BY DEF HeldVars
<1>2. CASE StartFilter \/ StartGroup \/ writeQuantitiesToObsdb
  BY <1>2 DEF StartFilter, StartGroup, writeQuantitiesToObsdb, LoadedInv, Done, ShapeInv
<1>3. CASE initialiseNextProfile
  <2>1. Done' = (jprof + 1) - 1 /\ Done = jprof /\ UNCHANGED <<loop, entireSampleData>>
    BY <1>3 DEF initialiseNextProfile, Done
  <2>2. Done' = Done /\ jprof' \in Nat
    BY <1>3, <2>1 DEF LoadedInv, initialiseNextProfile
  <2> QED
    BY <1>1, <2>1, <2>2 DEF LoadedInv
<1>4. CASE runChecks \/ updateProfile
  BY <1>4 DEF runChecks, updateProfile, LoadedInv
<1>5. CASE fillHolder
  <2>1. PICK f : f = SampleGet(entireSampleData, "flags")
    OBVIOUS
  <2>2. entireSampleData' = IF sample.holdsReport THEN SampleGet(f, "report") ELSE f
    BY <1>5, <2>1 DEF fillHolder
  <2>3. "flags" \in DOMAIN f /\ {"flags", "report"} \subseteq DOMAIN SampleGet(f, "report")
    <3>1. DOMAIN f = DOMAIN entireSampleData \cup {"flags"}
      BY <2>1, DomainsGrow
    <3>2. DOMAIN SampleGet(f, "report") = DOMAIN f \cup {"report"}
      BY DomainsGrow
    <3> QED
      BY <3>1, <3>2
  <2>4. HeldVars \subseteq DOMAIN entireSampleData'
    BY <1>1, <2>2, <2>3
  <2> QED
    BY <1>1, <1>5, <2>4 DEF LoadedInv, fillHolder
<1>6. CASE checkEntireSample
  <2>1. Done = nrecs /\ nrecs # 0 /\ loop = "fill" /\ entireSampleData' = entireSampleData /\ jprof' = 0
    BY <1>6, SampleTypes DEF checkEntireSample, Done
  <2> QED
    BY <1>1, <2>1 DEF LoadedInv
<1>7. CASE moveHolder
  <2>1. PICK held, s : held = profiles[1].values /\ s = entireSampleData
    OBVIOUS
  <2>2. PICK r : r = IF sample.holdsReport THEN initialiseVector(initialiseVector(s, "flags"), "report")
                     ELSE initialiseVector(s, "flags")
    OBVIOUS
  <2>3. DOMAIN s \subseteq DOMAIN r
    BY <2>2, DomainsGrow
  <2>4. PICK u : u = UpdatedSample(held, r)
    OBVIOUS
  <2>5. \E d : entireSampleData' = UpdatedSample(d, SampleGet(SampleGet(u, "report"), "errors"))
    BY <1>7, <2>1, <2>2, <2>4 DEF moveHolder, updateProfileInformation
  <2>6. DOMAIN u \subseteq DOMAIN entireSampleData' /\ DOMAIN u = DOMAIN r
    <3>1. PICK x, y : x = SampleGet(u, "report") /\ y = SampleGet(x, "errors")
      OBVIOUS
    <3>2. PICK d : entireSampleData' = UpdatedSample(d, y)
      BY <2>5, <3>1
    <3>3. DOMAIN x = DOMAIN u \cup {"report"}
      BY <3>1, DomainsGrow
    <3>4. DOMAIN y = DOMAIN x \cup {"errors"}
      BY <3>1, DomainsGrow
    <3>5. DOMAIN entireSampleData' = DOMAIN y
      BY <3>2, DomainsGrow
    <3>6. DOMAIN u = DOMAIN r
      BY <2>4, DomainsGrow
    <3> QED
      BY <3>3, <3>4, <3>5, <3>6
  <2>7. loop = "move" /\ jprof' = jprof
    BY <1>7 DEF moveHolder
  <2> QED
    BY <1>1, <2>1, <2>3, <2>6, <2>7 DEF LoadedInv
<1>8. CASE Stopped \/ UNCHANGED vars
  BY <1>1, <1>8 DEF Stopped, vars, LoadedInv, Done
<1> QED
  BY <1>2, <1>3, <1>4, <1>5, <1>6, <1>7, <1>8 DEF Next

LEMMA MoveData ==
  ASSUME Given, Contiguous, ShapeInv, WalkInv, DataInv, LoadedInv, moveHolder
  PROVE  DataInv'
<1> DEFINE moved == IF sample.holdsReport
                    THEN initialiseVector(initialiseVector(entireSampleData, "flags"), "report")
                    ELSE initialiseVector(entireSampleData, "flags")
<1>1. /\ loop = "move" /\ pc = "use" /\ pc' = "initialise" /\ loop' = loop /\ jprof' = jprof
      /\ obsdb' = obsdb /\ found' = found /\ group' = group /\ sample' = sample
      /\ profileData = <<>> /\ profiles' = Tail(profiles)
      /\ updateProfileInformation(Over(profiles[1].values, profileData),
                                  UpdatedSample(profiles[1].values, moved))
  BY DEF moveHolder, DataInv, CacheInv
<1>2. /\ FoundInv' /\ HeldVars' = HeldVars /\ Holders' = Holders /\ nrecs' = nrecs
      /\ \A var : Dom(var)' = Dom(var)
      /\ \A j : Reach(j)' = Reach(j) /\ IsFailed(j)' = IsFailed(j)
      /\ \A var, i : Truth(var, i)' = Truth(var, i)
      /\ \A h, j : Holds(h, j)' = Holds(h, j)
      /\ \A s : (\A var : Value(s, var)' = Value(s, var)) /\ Typed(s)' = Typed(s)
      /\ Done' = jprof /\ Done = jprof - 1
  BY <1>1, DefinitionsKept, SampleKept DEF Done, DataInv
<1>3. /\ jprof \in 1 .. nrecs /\ FoundInv /\ nrecs \in Nat
  BY <1>1, IndicesAt, SampleTypes DEF DataInv
<1>4. PICK all, held, s : all = profiles /\ held = profiles[1].values /\ s = entireSampleData
  OBVIOUS
<1>5. /\ all \in Seq(Holders) /\ Len(all) = nrecs - (jprof - 1)
      /\ \A j \in (jprof - 1) + 1 .. nrecs : Holds(all[j - (jprof - 1)], j)
  BY <1>1, <1>2, <1>4 DEF DataInv, HoldersInv
<1>6. /\ held \in [HeldVars -> Seq(Nat)] /\ \A var \in HeldVars : held[var] = Image(var, jprof)
  <2>1. all[1] \in Holders
    BY <1>3, <1>5
  <2>2. jprof \in (jprof - 1) + 1 .. nrecs /\ jprof - (jprof - 1) = 1
    BY <1>3
  <2>3. Holds(all[1], jprof)
    BY <1>5, <2>2
  <2> QED
    BY <1>4, <2>1, <2>3 DEF Holders, Holds
<1>7. /\ "flags" \in HeldVars /\ HeldVars \subseteq {"flags", "report"} /\ HeldVars \subseteq Vars
      /\ sample.holdsReport => HeldVars = {"flags", "report"}
      /\ ~sample.holdsReport => HeldVars = {"flags"}
  BY DEF HeldVars, Vars
<1>8. /\ Typed(s) /\ {"flags", "report"} \subseteq DOMAIN obsdb /\ DOMAIN obsdb \subseteq Vars
      /\ \A var \in Vars : \A i \in Dom(var) :
           var # "flags" \/ (\A j \in jprof .. nrecs : i \notin Reach(j)) => Value(s, var)[i] = Truth(var, i)
  <2>1. (jprof - 1) + 1 = jprof
    BY <1>3
  <2> QED
    BY <1>1, <1>2, <1>4, <2>1 DEF DataInv, SampleInv, Pending
<1>9. PICK r : r = moved
  OBVIOUS
<1>10. r = s /\ HeldVars \subseteq DOMAIN s
  <2>1. HeldVars \subseteq DOMAIN s
    BY <1>1, <1>4 DEF LoadedInv
  <2>2. ASSUME NEW var \in HeldVars PROVE initialiseVector(s, var) = s
    <3>1. Dom(var) # {}
      BY <1>3, <1>7, AtOfProfile
    <3>2. s[var] # <<>>
      BY <1>7, <1>8, <2>1, <3>1 DEF Typed, Value
    <3> QED
      BY <2>1, <3>2 DEF initialiseVector
  <2>3. initialiseVector(s, "flags") = s /\ (sample.holdsReport => initialiseVector(s, "report") = s)
    BY <1>7, <2>2
  <2> QED
    BY <1>4, <1>9, <2>1, <2>3
<1> HIDE DEF moved
<1>11. Typed(r) /\ HeldVars \subseteq DOMAIN r
  BY <1>8, <1>10
<1>12. PICK u : u = UpdatedSample(held, r)
  OBVIOUS
<1>13. /\ DOMAIN u = DOMAIN r /\ Typed(u)
       /\ \A var \in Vars : \A i \in Dom(var) :
            Value(u, var)[i] = IF var \in HeldVars /\ i \in AtSet(var, jprof) THEN Truth(var, i) ELSE Value(s, var)[i]
  <2>1. DOMAIN held = HeldVars
    BY <1>6
  <2>2. /\ DOMAIN u = DOMAIN r /\ Typed(u)
        /\ \A var \in Vars : \A i \in Dom(var) :
             Value(u, var)[i] = IF var \in DOMAIN held /\ i \in AtSet(var, jprof) THEN Truth(var, i) ELSE Value(r, var)[i]
    BY <1>1, <1>3, <1>6, <1>11, <1>12, <2>1, UpdatedSampleValues
  <2> QED
    BY <1>10, <2>1, <2>2
<1>14. Over(held, profileData) = held
  <2>1. DOMAIN profileData = {} /\ DOMAIN held = HeldVars
    BY <1>1, <1>6
  <2>2. Over(held, profileData) = [v \in HeldVars |-> held[v]]
    BY <2>1 DEF Over
  <2> QED
    BY <1>6, <2>2
<1>15. /\ entireSampleData' = Stored(held, u)
       /\ profileFlagged' = profileFlagged \cup Flagged(Final(held, u))
  BY <1>1, <1>4, <1>9, <1>12, <1>14 DEF updateProfileInformation, Stored, Final, Loaded
<1>16. AtSet("flags", jprof) = Reach(jprof) /\ AtSet("report", jprof) = Reach(jprof)
       /\ AtSet("errors", jprof) \subseteq Dom("errors") /\ Reach(jprof) \subseteq Dom("report")
       /\ Reach(jprof) \subseteq Dom("flags")
  BY <1>3, AtOfProfile DEF Vars
<1>17. Ready(held, u, jprof)
  <2>1. DOMAIN held = HeldVars
    BY <1>6
  <2>2. \A i \in AtSet("errors", jprof) : Value(u, "errors")[i] = Truth("errors", i)
    BY <1>7, <1>8, <1>13, <1>16 DEF Vars
  <2>3. "report" \notin HeldVars => \A i \in Reach(jprof) : Value(u, "report")[i] <= Truth("report", i)
    <3>1. \A i \in Reach(jprof) : Truth("report", i) \in Nat
      BY <1>3, <1>16, TruthIsNat DEF Vars
    <3>2. "report" \notin HeldVars => \A i \in Reach(jprof) : Value(u, "report")[i] = Truth("report", i)
      BY <1>8, <1>13, <1>16 DEF Vars
    <3> QED
      BY <3>1, <3>2
  <2>4. {"flags", "errors"} \ HeldVars = {"errors"}
    BY <1>7
  <2> QED
    BY <1>6, <1>11, <1>13, <2>1, <2>2, <2>3, <2>4 DEF Ready
<1>18. PICK e : e = Stored(held, u)
  OBVIOUS
<1>19. /\ Typed(e)
       /\ \A var \in Vars : \A i \in Dom(var) :
            Value(e, var)[i] = IF i \in AtSet(var, jprof) /\ var \in HeldVars \cup {"report", "errors"}
                               THEN Truth(var, i) ELSE Value(u, var)[i]
       /\ Flagged(Final(held, u)) = {"flags"} \X (found.flags \cap Reach(jprof))
                                    \cup FilterVars \X (IF IsFailed(jprof) THEN Reach(jprof) ELSE {})
  <2>1. Stores(Stored(held, u), Flagged(Final(held, u)), held, u, jprof)
    BY <1>1, <1>3, <1>8, <1>13, <1>17, StoredValues
  <2>2. DOMAIN held = HeldVars
    BY <1>6
  <2> QED
    BY <1>7, <1>18, <2>1, <2>2 DEF Stores
<1>20. SampleInv'
  <2>1. \A var \in Vars : \A i \in Dom(var) : ~Pending(var, i)' => Value(e, var)[i] = Truth(var, i)
    <3> SUFFICES ASSUME NEW var \in Vars, NEW i \in Dom(var), ~Pending(var, i)'
                 PROVE  Value(e, var)[i] = Truth(var, i)
      OBVIOUS
    <3>1. CASE var # "flags"
      BY <1>8, <1>13, <1>19, <3>1
    <3>2. CASE var = "flags" /\ i \in Reach(jprof)
      BY <1>7, <1>16, <1>19, <3>2
    <3>3. CASE var = "flags" /\ i \notin Reach(jprof)
      <4>1. \A j \in jprof + 1 .. nrecs : i \notin Reach(j)
        BY <1>1, <1>2, <3>3 DEF Pending
      <4>2. \A j \in jprof .. nrecs : j = jprof \/ j \in jprof + 1 .. nrecs
        BY <1>3
      <4>3. \A j \in jprof .. nrecs : i \notin Reach(j)
        BY <3>3, <4>1, <4>2
      <4> QED
        BY <1>8, <1>13, <1>16, <1>19, <3>3, <4>3
    <3> QED
      BY <3>1, <3>2, <3>3
  <2> QED
    BY <1>1, <1>2, <1>8, <1>15, <1>18, <1>19, <2>1 DEF SampleInv, Vars
<1>21. CacheInv'
  BY <1>1 DEF CacheInv
<1>22. HoldersInv'
  <2>1. PICK rest : rest = Tail(all)
    OBVIOUS
  <2>2. /\ rest \in Seq(Holders) /\ Len(rest) = nrecs - jprof
        /\ \A k \in 1 .. (nrecs - jprof) : rest[k] = all[k + 1]
    <3>1. all # <<>> /\ Len(all) \in Nat /\ Len(all) >= 1
      BY <1>3, <1>5
    <3> QED
      BY <1>3, <1>5, <2>1, <3>1
  <2>3. \A j \in jprof + 1 .. nrecs : Holds(rest[j - jprof], j)
    <3> SUFFICES ASSUME NEW j \in jprof + 1 .. nrecs PROVE Holds(rest[j - jprof], j)
      OBVIOUS
    <3>1. /\ j - jprof \in 1 .. (nrecs - jprof) /\ (j - jprof) + 1 = j - (jprof - 1)
          /\ j \in (jprof - 1) + 1 .. nrecs
      BY <1>3
    <3>2. rest[j - jprof] = all[j - (jprof - 1)]
      BY <2>2, <3>1
    <3> QED
      BY <1>5, <3>1, <3>2
  <2>4. profiles' = rest
    BY <1>1, <1>4, <2>1
  <2> QED
    BY <1>1, <1>2, <2>2, <2>3, <2>4 DEF HoldersInv
<1>23. FlaggedInv'
  <2>1. Settled = 1 .. nrecs /\ Settled' = 1 .. nrecs
    BY <1>1, <1>2 DEF Settled
  <2>2. FlaggedInv
    BY DEF DataInv
  <2>3. profileFlagged' = profileFlagged \cup {"flags"} \X (found.flags \cap Reach(jprof))
                          \cup FilterVars \X (IF IsFailed(jprof) THEN Reach(jprof) ELSE {})
    BY <1>15, <1>19
  <2>4. \A x \in profileFlagged' :
          \/ x \in {"flags"} \X found.flags
          \/ \E j \in 1 .. nrecs : IsFailed(j) /\ x \in FilterVars \X Reach(j)
    BY <1>3, <2>2, <2>3 DEF FlaggedInv
  <2>5. \A j \in 1 .. nrecs : /\ IsFailed(j) => FilterVars \X Reach(j) \subseteq profileFlagged'
                              /\ j <= jprof => {"flags"} \X (found.flags \cap Reach(j)) \subseteq profileFlagged'
    <3>1. \A j \in 1 .. nrecs : /\ IsFailed(j) => FilterVars \X Reach(j) \subseteq profileFlagged
                                /\ j <= jprof - 1 => {"flags"} \X (found.flags \cap Reach(j)) \subseteq profileFlagged
      BY <1>1, <1>2, <2>1, <2>2 DEF FlaggedInv
    <3>2. \A j \in 1 .. nrecs : j <= jprof => j <= jprof - 1 \/ j = jprof
      BY <1>3
    <3>3. profileFlagged \subseteq profileFlagged' /\ {"flags"} \X (found.flags \cap Reach(jprof)) \subseteq profileFlagged'
      BY <2>3
    <3> HIDE <2>3
    <3> QED
      BY <3>1, <3>2, <3>3
  <2> QED
    BY <1>1, <1>2, <2>1, <2>4, <2>5 DEF FlaggedInv, FilterVars
<1> QED
  BY <1>2, <1>20, <1>21, <1>22, <1>23 DEF DataInv

LEMMA StutterData ==
  ASSUME DataInv, UNCHANGED vars
  PROVE  DataInv'
<1>1. /\ UNCHANGED <<sample, group, loop, pc, jprof, profileData, entireSampleData, obsdb,
                     profiles, profileFlagged, found>>
  BY DEF vars
<1>2. /\ FoundInv' /\ HeldVars' = HeldVars /\ Holders' = Holders /\ nrecs' = nrecs
      /\ \A var : Dom(var)' = Dom(var) /\ \A j : AtSet(var, j)' = AtSet(var, j)
      /\ \A j : Reach(j)' = Reach(j) /\ IsFailed(j)' = IsFailed(j)
      /\ \A var, i : Truth(var, i)' = Truth(var, i) /\ Image(var, i)' = Image(var, i)
      /\ \A h, j : Holds(h, j)' = Holds(h, j)
      /\ \A s : (\A var : Value(s, var)' = Value(s, var)) /\ Typed(s)' = Typed(s)
      /\ Done' = Done /\ LoadsFlags' = LoadsFlags
  BY <1>1, DefinitionsKept, SampleKept DEF Done, LoadsFlags, DataInv
<1>3. \A var, i : Pending(var, i)' = Pending(var, i)
  BY <1>1, <1>2 DEF Pending
<1>4. SampleInv'
  <2>1. PICK e : e = entireSampleData
    OBVIOUS
  <2> QED
    BY <1>1, <1>2, <1>3, <2>1 DEF SampleInv, DataInv, Vars
<1>5. CacheInv'
  <2>1. PICK e : e = entireSampleData
    OBVIOUS
  <2>2. CacheInv
    BY DEF DataInv
  <2> QED
    BY <1>1, <1>2, <2>1, <2>2 DEF CacheInv
<1>6. HoldersInv'
  BY <1>1, <1>2 DEF HoldersInv, DataInv
<1>7. FlaggedInv'
  <2>1. Settled' = Settled
    BY <1>1, <1>2 DEF Settled
  <2> QED
    BY <1>1, <1>2, <2>1 DEF FlaggedInv, DataInv, FilterVars
<1> QED
  BY <1>2, <1>4, <1>5, <1>6, <1>7 DEF DataInv

-----------------------------------------------------------------------------
(* The invariant, and what follows from it between groups of checks.        *)

IInv == ShapeInv /\ LoadedInv /\ (Contiguous /\ TwoVariables => WalkInv /\ DataInv)

LEMMA InvariantInit == ProfilesAssumption /\ Init => IInv
<1> SUFFICES ASSUME ProfilesAssumption, Init PROVE IInv
  OBVIOUS
<1>1. ShapeInv /\ Given
  BY ShapeInit DEF Given, Init
<1>2. WalkInv /\ LoadedInv
  BY DEF Init, WalkInv, LoadedInv
<1> QED
  BY <1>1, <1>2, DataInit DEF IInv

LEMMA InvariantStep == ProfilesAssumption /\ IInv /\ [Next]_vars => IInv'
<1> SUFFICES ASSUME ProfilesAssumption, IInv, [Next]_vars PROVE IInv'
  OBVIOUS
<1>1. ShapeInv' /\ sample' = sample /\ Given /\ ShapeInv
  BY ShapeStep DEF IInv
<1>2. (Contiguous /\ TwoVariables)' <=> Contiguous /\ TwoVariables
  BY <1>1, SampleKept, DefinitionsKept
<1>14. LoadedInv /\ LoadedInv'
  BY <1>1, LoadedStep DEF IInv
<1> SUFFICES ASSUME Contiguous, TwoVariables, WalkInv, DataInv PROVE WalkInv' /\ DataInv'
  BY <1>1, <1>2, <1>14 DEF IInv
<1>3. WalkInv'
  BY <1>1, WalkStep
<1>4. CASE StartFilter
  BY <1>1, <1>3, <1>4, StartFilterData
<1>5. CASE StartGroup
  BY <1>1, <1>3, <1>5, StartGroupData
<1>6. CASE initialiseNextProfile
  BY <1>1, <1>3, <1>6, InitialiseData
<1>7. CASE runChecks
  BY <1>1, <1>3, <1>7, RunChecksData
<1>8. CASE updateProfile
  BY <1>1, <1>3, <1>8, UpdateProfileData
<1>9. CASE fillHolder
  BY <1>1, <1>3, <1>9, FillData
<1>10. CASE checkEntireSample
  BY <1>1, <1>3, <1>10, CheckSampleData
<1>11. CASE moveHolder
  BY <1>1, <1>3, <1>11, <1>14, MoveData
<1>12. CASE writeQuantitiesToObsdb
  BY <1>1, <1>3, <1>12, WriteData
<1>13. CASE Stopped \/ UNCHANGED vars
  BY <1>3, <1>13, StutterData DEF Stopped
<1> QED
  BY <1>3, <1>4, <1>5, <1>6, <1>7, <1>8, <1>9, <1>10, <1>11, <1>12, <1>13 DEF Next

(* In the obs space is what the checks have found.                          *)
LEMMA ObsdbIsRight ==
  ASSUME ProfilesAssumption, IInv, BetweenGroups, TwoVariables, RecordsContiguous
  PROVE  /\ Given /\ Contiguous /\ WalkInv /\ DataInv
         /\ \A var \in DOMAIN obsdb \cap Vars : \A i \in Dom(var) : obsdb[var][i] = Truth(var, i)
<1>1. ShapeInv /\ Given /\ ~Throws /\ loop = "none" /\ pc \in {"start", "done"}
  BY DEF IInv, Given, ShapeInv, BetweenGroups
<1>2. Contiguous
  <2>1. CASE sample.sort = "none" /\ sample.ValidateTotalNumProf
    BY <1>1, <2>1, ValidatedIsContiguous
  <2>2. CASE sample.sort # "none" \/ ~sample.ValidateTotalNumProf
    BY <2>2 DEF RecordsContiguous, Contiguous, num
  <2> QED
    BY <2>1, <2>2
<1>3. WalkInv /\ DataInv
  BY <1>2 DEF IInv
<1>4. ASSUME NEW var \in DOMAIN obsdb \cap Vars, NEW i \in Dom(var) PROVE obsdb[var][i] = Truth(var, i)
  <2>1. Value(entireSampleData, var)[i] = Truth(var, i)
    BY <1>1, <1>3 DEF DataInv, SampleInv, Pending
  <2>2. Value(entireSampleData, var) = obsdb[var]
    BY <1>1, <1>3 DEF DataInv, SampleInv, Value
  <2> QED
    BY <2>1, <2>2
<1> QED
  BY <1>1, <1>2, <1>3, <1>4

LEMMA InvariantReaches == ProfilesAssumption /\ IInv => ChecksReachSample
<1> SUFFICES ASSUME ProfilesAssumption, IInv, BetweenGroups, TwoVariables, RecordsContiguous
             PROVE  /\ {i \in Locs : isRejected(obsdb["flags"][i])} = found.flags
                    /\ "errors" \in DOMAIN obsdb =>
                         \A r \in Records :
                           found.errors[r] =
                             IF sample.errorsPerProfile THEN obsdb["errors"][Rank(r)]
                             ELSE LET at == {i \in RecordLocs(r) : obsdb["errors"][i] # 0}
                                  IN IF at = {} THEN 0 ELSE obsdb["errors"][CHOOSE i \in at : at = {i}]
  BY DEF ChecksReachSample, TwoVariables
<1>1. /\ Given /\ Contiguous /\ FoundInv /\ {"flags", "report"} \subseteq DOMAIN obsdb
      /\ \A var \in DOMAIN obsdb \cap Vars : \A i \in Dom(var) : obsdb[var][i] = Truth(var, i)
  BY ObsdbIsRight DEF DataInv, SampleInv
<1>2. {i \in Locs : isRejected(obsdb["flags"][i])} = found.flags
  <2>1. \A i \in Locs : obsdb["flags"][i] = IF i \in found.flags THEN 1 ELSE 0
    BY <1>1 DEF Vars, Dom, Truth
  <2>2. isRejected(1) /\ ~isRejected(0)
    BY DEF isRejected
  <2>3. found.flags \subseteq Locs
    BY <1>1 DEF FoundInv
  <2> QED
    BY <2>1, <2>2, <2>3
<1>3. ASSUME "errors" \in DOMAIN obsdb, NEW r \in Records, sample.errorsPerProfile
      PROVE  found.errors[r] = obsdb["errors"][Rank(r)]
  <2>1. Rank(r) \in 1 .. nrecs /\ RecordAt(Rank(r)) = r
    BY <1>1, RanksOfRecords
  <2>2. obsdb["errors"][Rank(r)] = Truth("errors", Rank(r))
    BY <1>1, <1>3, <2>1 DEF Vars, Dom
  <2> QED
    BY <1>3, <2>1, <2>2 DEF Truth
<1>4. ASSUME "errors" \in DOMAIN obsdb, NEW r \in Records, ~sample.errorsPerProfile
      PROVE  LET at == {i \in RecordLocs(r) : obsdb["errors"][i] # 0}
             IN found.errors[r] = IF at = {} THEN 0 ELSE obsdb["errors"][CHOOSE i \in at : at = {i}]
  <2> DEFINE at == {i \in RecordLocs(r) : obsdb["errors"][i] # 0}
  <2>1. PICK j \in 1 .. nrecs : RecordAt(j) = r
    BY <1>1, RanksOfRecords
  <2>2. \A i \in RecordLocs(r) : obsdb["errors"][i] = IF IsFirst(i) THEN found.errors[r] ELSE 0
    <3>1. \A i \in RecordLocs(r) : i \in Locs /\ num(i) = r
      BY <1>1, SampleTypes
    <3>2. \A i \in Locs : obsdb["errors"][i] = IF IsFirst(i) THEN found.errors[num(i)] ELSE 0
      BY <1>1, <1>4 DEF Vars, Dom, Truth
    <3> QED
      BY <3>1, <3>2
  <2>3. \A i \in RecordLocs(r) : IsFirst(i) => 1 \in DOMAIN LocsOf(j) /\ i = LocsOf(j)[1]
    <3> SUFFICES ASSUME NEW i \in RecordLocs(r), NEW l \in 1 .. nrecs,
                        1 \in DOMAIN LocsOf(l), i = LocsOf(l)[1]
                 PROVE  l = j
      BY DEF IsFirst
    <3>1. num(i) = r /\ num(i) = RecordAt(l)
      <4>1. i \in Reach(l)
        BY DEF Reach
      <4> QED
        BY <1>1, <4>1, SampleTypes, ReachOfProfile
    <3> QED
      BY <1>1, <2>1, <3>1, RanksOfRecords
  <2>4. 1 \in DOMAIN LocsOf(j) => IsFirst(LocsOf(j)[1]) /\ LocsOf(j)[1] \in RecordLocs(r)
    BY <1>1, <2>1, LocsOfProfile DEF IsFirst
  <2>5. CASE found.errors[r] = 0
    <3>1. at = {}
      BY <2>2, <2>5
    <3> QED
      BY <2>5, <3>1
  <2>6. CASE found.errors[r] # 0
    <3>1. 1 \in DOMAIN LocsOf(j)
      <4>1. DOMAIN LocsOf(j) # {}
        BY <1>1, <2>1, <2>6 DEF FoundInv
      <4> QED
        BY <1>1, <4>1, LocsOfProfile
    <3>2. at = {LocsOf(j)[1]}
      BY <2>2, <2>3, <2>4, <2>6, <3>1
    <3>3. obsdb["errors"][LocsOf(j)[1]] = found.errors[r]
      BY <2>2, <2>4, <3>1
    <3> HIDE DEF at
    <3>4. at # {} /\ (CHOOSE i \in at : at = {i}) = LocsOf(j)[1]
      BY <3>2
    <3> QED
      BY <3>3, <3>4 DEF at
  <2> QED
    BY <2>5, <2>6
<1> QED
  BY <1>2, <1>3, <1>4

LEMMA InvariantFlags == ProfilesAssumption /\ IInv => FlaggedAsRejected
<1> DEFINE failed == UNION {Selected(r) : r \in {r \in Records : found.errors[r] > sample.nErrorsFail}}
<1> SUFFICES ASSUME ProfilesAssumption, IInv, pc = "done", TwoVariables, ProfilesWellDefined
             PROVE  /\ {i \in Locs : isRejected(obsdb["report"][i])} = failed
                    /\ profileFlagged = {"flags"} \X found.flags \cup FilterVars \X failed
  BY DEF FlaggedAsRejected, TwoVariables
<1>1. BetweenGroups /\ RecordsContiguous
  BY DEF BetweenGroups, ProfilesWellDefined
<1>2. /\ Given /\ Contiguous /\ FoundInv /\ FlaggedInv /\ {"flags", "report"} \subseteq DOMAIN obsdb
      /\ \A i \in Locs : obsdb["report"][i] = Truth("report", i)
  BY <1>1, ObsdbIsRight DEF DataInv, SampleInv, Vars, Dom
<1>3. \A j \in 1 .. nrecs : Reach(j) = Selected(RecordAt(j)) /\ Reach(j) \subseteq Locs /\ RecordAt(j) \in Records
  <2> SUFFICES ASSUME NEW j \in 1 .. nrecs
               PROVE  Reach(j) = Selected(RecordAt(j)) /\ Reach(j) \subseteq Locs /\ RecordAt(j) \in Records
    OBVIOUS
  <2>1. RecordAt(j) \in Records
    BY <1>2, RanksOfRecords
  <2>2. sample.sort = "descending" => Selected(RecordAt(j)) \in {{}, RecordLocs(RecordAt(j))}
    BY <2>1 DEF ProfilesWellDefined
  <2> QED
    BY <1>2, <2>1, <2>2, LocsOfProfile, ReachOfProfile
<1>4. \A i : i \in failed <=> \E j \in 1 .. nrecs : i \in Reach(j) /\ IsFailed(j)
  <2>1. \A i : i \in failed <=> \E r \in Records : i \in Selected(r) /\ found.errors[r] > sample.nErrorsFail
    OBVIOUS
  <2>2. \A r \in Records : \E j \in 1 .. nrecs : RecordAt(j) = r
    BY <1>2, RanksOfRecords
  <2> HIDE DEF failed
  <2> QED
    BY <1>3, <2>1, <2>2 DEF IsFailed
<1> HIDE DEF failed
<1>5. {i \in Locs : isRejected(obsdb["report"][i])} = failed
  <2>1. isRejected(1) /\ ~isRejected(0)
    BY DEF isRejected
  <2>2. \A i \in Locs : Truth("report", i) = IF i \in failed THEN 1 ELSE 0
    BY <1>4 DEF Truth
  <2>3. failed \subseteq Locs
    BY <1>3, <1>4
  <2> QED
    BY <1>2, <2>1, <2>2, <2>3
<1>6. profileFlagged \subseteq {"flags"} \X found.flags \cup FilterVars \X failed
  BY <1>2, <1>4 DEF FlaggedInv
<1>7. {"flags"} \X found.flags \cup FilterVars \X failed \subseteq profileFlagged
  <2>1. Settled = 1 .. nrecs /\ loop = "none"
    BY DEF Settled, IInv, ShapeInv
  <2>2. \A j \in 1 .. nrecs : /\ IsFailed(j) => FilterVars \X Reach(j) \subseteq profileFlagged
                              /\ {"flags"} \X (found.flags \cap Reach(j)) \subseteq profileFlagged
    BY <1>2, <2>1 DEF FlaggedInv
  <2>3. {"flags"} \X found.flags \subseteq profileFlagged
    BY <1>2, <2>2 DEF FoundInv
  <2>4. FilterVars \X failed \subseteq profileFlagged
    BY <1>4, <2>2
  <2> QED
    BY <2>3, <2>4
<1> QED
  BY <1>5, <1>6, <1>7

-----------------------------------------------------------------------------

LEMMA InvariantHolds == ProfilesAssumption /\ Spec => [](ProfilesAssumption /\ IInv)
<1>1. ProfilesAssumption /\ [Next]_vars => ProfilesAssumption'
  BY DEF ProfilesAssumption
<1> QED
  BY <1>1, InvariantInit, InvariantStep, PTL DEF Spec

(* Whatever the records, the selected levels and the groups of checks, the  *)
(* obs space holds between groups what the checks have found, at the       *)
(* locations of the profiles they found it in: ProfileDataHandler and      *)
(* EntireSampleDataHandler lose and misplace nothing.                      *)
THEOREM WhatIsFoundIsStored == ProfilesAssumption /\ Spec => []ChecksReachSample
  BY InvariantHolds, InvariantReaches, PTL

(* In the end exactly what was rejected is flagged, and a report is         *)
(* rejected if and only if its profile has too many errors                 *)
(* (ProfileDataHandler::setFinalReportFlags, setFlagged).                  *)
THEOREM RejectedIsFlagged == ProfilesAssumption /\ Spec => []FlaggedAsRejected
  BY InvariantHolds, InvariantFlags, PTL

=============================================================================
