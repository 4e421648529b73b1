------------------------------ MODULE OrderLemmas ------------------------------
(***************************************************************************)
(* Lemmas about sets whose elements are listed in an order, and about      *)
(* sequences put together from sequences.  The prover cannot follow        *)
(* SortSeq, so the models choose the k-th element of a set as the one that *)
(* k - 1 others come before; an order is given here as a set of pairs.     *)
(***************************************************************************)
EXTENDS Integers, FiniteSets, SequencesExt, FiniteSetTheorems, SequenceTheorems,
        WellFoundedInduction, TLAPS

-----------------------------------------------------------------------------
(* Ranks in a finite set that R orders totally.                            *)

Below(S, R, x) == {y \in S : <<y, x>> \in R}

Orders(R, S) ==
  /\ \A x \in S : <<x, x>> \notin R
  /\ \A x, y \in S : x = y \/ <<x, y>> \in R \/ <<y, x>> \in R
  /\ \A x, y, z \in S : <<x, y>> \in R /\ <<y, z>> \in R => <<x, z>> \in R

LEMMA BelowGrows ==
  ASSUME NEW S, IsFiniteSet(S), NEW R, Orders(R, S), NEW x \in S, NEW y \in S, <<x, y>> \in R
  PROVE  Cardinality(Below(S, R, x)) < Cardinality(Below(S, R, y))
<1>1. Below(S, R, x) \subseteq Below(S, R, y)
  BY DEF Below, Orders
<1>2. x \in Below(S, R, y) /\ x \notin Below(S, R, x)
  BY DEF Below, Orders
<1>3. IsFiniteSet(Below(S, R, x)) /\ IsFiniteSet(Below(S, R, y))
  BY FS_Subset DEF Below
<1>4. /\ Cardinality(Below(S, R, x)) \in Nat /\ Cardinality(Below(S, R, y)) \in Nat
      /\ Cardinality(Below(S, R, x)) <= Cardinality(Below(S, R, y))
      /\ Cardinality(Below(S, R, x)) # Cardinality(Below(S, R, y))
  BY <1>1, <1>2, <1>3, FS_Subset, FS_CardinalityType
<1> QED
  BY <1>4

(* One element has each rank.                                              *)
OnePerRank(S, R) ==
  /\ \A x \in S : Cardinality(Below(S, R, x)) \in 0 .. Cardinality(S) - 1
  /\ \A x, y \in S : Cardinality(Below(S, R, x)) = Cardinality(Below(S, R, y)) => x = y
  /\ \A k \in 0 .. Cardinality(S) - 1 : \E x \in S : Cardinality(Below(S, R, x)) = k

LEMMA RanksAreBijective ==
  ASSUME NEW S, IsFiniteSet(S), NEW R, Orders(R, S)
  PROVE  OnePerRank(S, R)
<1> DEFINE rank(x) == Cardinality(Below(S, R, x))
           f       == [x \in S |-> rank(x)]
           T       == 0 .. Cardinality(S) - 1
<1>1. Cardinality(S) \in Nat
  BY FS_CardinalityType
<1>2. ASSUME NEW x \in S PROVE rank(x) \in T
  <2>1. Below(S, R, x) \subseteq S /\ x \notin Below(S, R, x)
    BY DEF Below, Orders
  <2>2. rank(x) \in Nat /\ rank(x) <= Cardinality(S) /\ rank(x) # Cardinality(S)
    BY <2>1, FS_Subset, FS_CardinalityType
  <2> QED
    BY <1>1, <2>2
<1>3. ASSUME NEW x \in S, NEW y \in S, rank(x) = rank(y) PROVE x = y
  <2>1. <<x, y>> \in R => rank(x) < rank(y)
    BY BelowGrows
  <2>2. <<y, x>> \in R => rank(y) < rank(x)
    BY BelowGrows
  <2>3. rank(x) \in Int /\ rank(y) \in Int
    BY <1>2
  <2> QED
    BY <1>3, <2>1, <2>2, <2>3 DEF Orders
<1>4. f \in Injection(S, T)
  BY <1>2, <1>3 DEF Injection, IsInjective
<1>5. IsFiniteSet(T) /\ Cardinality(T) = Cardinality(S)
  <2>1. Cardinality(S) - 1 \in Int
    BY <1>1
  <2>2. IsFiniteSet(T) /\ Cardinality(T) = IF 0 > Cardinality(S) - 1 THEN 0 ELSE (Cardinality(S) - 1) - 0 + 1
    BY <2>1, FS_Interval
  <2> QED
    BY <1>1, <2>2
<1>6. f \in Surjection(S, T)
  BY <1>4, <1>5, FS_Injection
<1>7. \A k \in T : \E x \in S : rank(x) = k
  BY <1>6 DEF Surjection
<1> QED
  BY <1>2, <1>3, <1>7 DEF OnePerRank

(* A sequence of the elements by their ranks has each of them once.        *)
Lists(s, S) ==
  /\ DOMAIN s = 1 .. Cardinality(S)
  /\ \A k \in DOMAIN s : s[k] \in S
  /\ \A k, l \in DOMAIN s : s[k] = s[l] => k = l
  /\ \A i \in S : \E k \in DOMAIN s : s[k] = i

LEMMA RankedLists ==
  ASSUME NEW S, IsFiniteSet(S), NEW R, Orders(R, S)
  PROVE  Lists([k \in 1 .. Cardinality(S) |->
                  CHOOSE i \in S : Cardinality(Below(S, R, i)) = k - 1], S)
<1> DEFINE rank(x) == Cardinality(Below(S, R, x))
           at(k)   == CHOOSE i \in S : rank(i) = k - 1
           s       == [k \in 1 .. Cardinality(S) |-> at(k)]
<1>1. Cardinality(S) \in Nat
  BY FS_CardinalityType
<1>2. /\ \A x \in S : rank(x) \in 0 .. Cardinality(S) - 1
      /\ \A x, y \in S : rank(x) = rank(y) => x = y
      /\ \A k \in 0 .. Cardinality(S) - 1 : \E x \in S : rank(x) = k
  BY RanksAreBijective DEF OnePerRank
<1>3. ASSUME NEW k \in 1 .. Cardinality(S) PROVE at(k) \in S /\ rank(at(k)) = k - 1
  <2>1. k - 1 \in 0 .. Cardinality(S) - 1
    BY <1>1
  <2>2. \E x \in S : rank(x) = k - 1
    BY <1>2, <2>1
  <2> QED
    BY <2>2
<1>4. ASSUME NEW i \in S PROVE \E k \in 1 .. Cardinality(S) : at(k) = i
  <2>1. rank(i) + 1 \in 1 .. Cardinality(S) /\ (rank(i) + 1) - 1 = rank(i)
    BY <1>1, <1>2
  <2>2. at(rank(i) + 1) \in S /\ rank(at(rank(i) + 1)) = rank(i)
    BY <1>3, <2>1
  <2> QED
    BY <1>2, <2>1, <2>2
<1>5. ASSUME NEW k \in 1 .. Cardinality(S), NEW l \in 1 .. Cardinality(S), at(k) = at(l)
      PROVE  k = l
  <2>1. k - 1 = l - 1
    BY <1>3, <1>5
  <2> QED
    BY <1>1, <2>1
<1>6. DOMAIN s = 1 .. Cardinality(S) /\ \A k \in DOMAIN s : s[k] = at(k)
  OBVIOUS
<1> HIDE DEF at, rank, s
<1>7. Lists(s, S)
  BY <1>3, <1>4, <1>5, <1>6 DEF Lists
<1> QED
  BY <1>7 DEF s, at, rank

LEMMA RankOfListed ==
  ASSUME NEW S, IsFiniteSet(S), NEW R, Orders(R, S), NEW k \in 1 .. Cardinality(S)
  PROVE  LET x == CHOOSE i \in S : Cardinality(Below(S, R, i)) = k - 1
         IN x \in S /\ Cardinality(Below(S, R, x)) = k - 1
<1>1. k - 1 \in 0 .. Cardinality(S) - 1
  BY FS_CardinalityType
<1> QED
  BY <1>1, RanksAreBijective DEF OnePerRank

(* The elements in the order of an operator, which cannot be a parameter:  *)
(* ascending.                                                              *)
LEMMA AscendingLists ==
  ASSUME NEW S, IsFiniteSet(S), S \subseteq Int
  PROVE  Lists([k \in 1 .. Cardinality(S) |->
                  CHOOSE i \in S : Cardinality({l \in S : l < i}) = k - 1], S)
<1> DEFINE R == {p \in S \X S : p[1] < p[2]}
<1>1. \A x, y \in S : x \in Int /\ y \in Int /\ (<<x, y>> \in R <=> x < y)
  OBVIOUS
<1>2. Orders(R, S)
  <2> HIDE DEF R
  <2> QED
    BY <1>1 DEF Orders
<1>3. \A i \in S : Below(S, R, i) = {l \in S : l < i}
  <2> HIDE DEF R
  <2> QED
    BY <1>1 DEF Below
<1> HIDE DEF R
<1> DEFINE up(k)   == CHOOSE i \in S : Cardinality({l \in S : l < i}) = k - 1
           rank(k) == CHOOSE i \in S : Cardinality(Below(S, R, i)) = k - 1
<1>4. \A i \in S : Cardinality({l \in S : l < i}) = Cardinality(Below(S, R, i))
  BY <1>3
<1>5. \A k : up(k) = rank(k)
  BY <1>4
<1>6. [k \in 1 .. Cardinality(S) |-> up(k)] = [k \in 1 .. Cardinality(S) |-> rank(k)]
  <2> HIDE DEF up, rank
  <2> QED
    BY <1>5
<1> QED
  BY <1>2, <1>6, RankedLists

(* Descending.                                                             *)
LEMMA DescendingLists ==
  ASSUME NEW S, IsFiniteSet(S), S \subseteq Int
  PROVE  Lists([k \in 1 .. Cardinality(S) |->
                  CHOOSE i \in S : Cardinality({l \in S : l > i}) = k - 1], S)
<1> DEFINE R == {p \in S \X S : p[1] > p[2]}
<1>1. \A x, y \in S : x \in Int /\ y \in Int /\ (<<x, y>> \in R <=> x > y)
  OBVIOUS
<1>2. Orders(R, S)
  <2> HIDE DEF R
  <2> QED
    BY <1>1 DEF Orders
<1>3. \A i \in S : Below(S, R, i) = {l \in S : l > i}
  <2> HIDE DEF R
  <2> QED
    BY <1>1 DEF Below
<1> HIDE DEF R
<1> DEFINE down(k) == CHOOSE i \in S : Cardinality({l \in S : l > i}) = k - 1
           rank(k) == CHOOSE i \in S : Cardinality(Below(S, R, i)) = k - 1
<1>4. \A i \in S : Cardinality({l \in S : l > i}) = Cardinality(Below(S, R, i))
  BY <1>3
<1>5. \A k : down(k) = rank(k)
  BY <1>4
<1>6. [k \in 1 .. Cardinality(S) |-> down(k)] = [k \in 1 .. Cardinality(S) |-> rank(k)]
  <2> HIDE DEF down, rank
  <2> QED
    BY <1>5
<1> QED
  BY <1>2, <1>6, RankedLists

(* The first of the elements in ascending order is the least.              *)
LEMMA FirstAscending ==
  ASSUME NEW S, IsFiniteSet(S), S \subseteq Int, S # {}
  PROVE  LET x == CHOOSE i \in S : Cardinality({l \in S : l < i}) = 1 - 1
         IN Cardinality(S) \in Nat \ {0} /\ x \in S /\ \A y \in S : x <= y
<1> DEFINE R == {p \in S \X S : p[1] < p[2]}
           x == CHOOSE i \in S : Cardinality({l \in S : l < i}) = 1 - 1
<1>1. \A y, z \in S : y \in Int /\ z \in Int /\ (<<y, z>> \in R <=> y < z)
  OBVIOUS
<1>2. Orders(R, S)
  <2> HIDE DEF R
  <2> QED
    BY <1>1 DEF Orders
<1>3. \A i \in S : Below(S, R, i) = {l \in S : l < i}
  <2> HIDE DEF R
  <2> QED
    BY <1>1 DEF Below
<1> HIDE DEF R
<1>4. Cardinality(S) \in Nat \ {0}
  BY FS_CardinalityType, FS_EmptySet
<1>5. 0 \in 0 .. Cardinality(S) - 1
  BY <1>4
<1>6. PICK i \in S : Cardinality(Below(S, R, i)) = 0
  <2>1. OnePerRank(S, R)
    BY <1>2, RanksAreBijective
  <2> QED
    BY <1>5, <2>1 DEF OnePerRank
<1>7. Cardinality({l \in S : l < i}) = 1 - 1
  BY <1>3, <1>6
<1>8. x \in S /\ Cardinality({l \in S : l < x}) = 0
  <2> DEFINE count(y) == Cardinality({l \in S : l < y})
  <2>1. count(i) = 1 - 1
    BY <1>7
  <2>2. x = CHOOSE y \in S : count(y) = 1 - 1
    OBVIOUS
  <2> HIDE DEF count, x
  <2>3. x \in S /\ count(x) = 1 - 1
    BY <2>1, <2>2
  <2> QED
    BY <2>3 DEF count
<1> HIDE DEF x
<1>9. {l \in S : l < x} = {}
  <2>1. IsFiniteSet({l \in S : l < x})
    BY FS_Subset
  <2> QED
    BY <1>8, <2>1, FS_EmptySet
<1>10. \A y \in S : x <= y
  BY <1>1, <1>8, <1>9
<1> QED
  BY <1>4, <1>8, <1>10 DEF x

(* One list after the other.                                               *)
LEMMA ListsConcat ==
  ASSUME NEW S, IsFiniteSet(S), NEW T, IsFiniteSet(T), S \cap T = {},
         NEW s \in Seq(S), NEW t \in Seq(T), Lists(s, S), Lists(t, T)
  PROVE  /\ s \o t \in Seq(S \cup T) /\ Lists(s \o t, S \cup T)
         /\ Len(s \o t) = Cardinality(S \cup T) /\ IsFiniteSet(S \cup T)
<1>1. Cardinality(S) \in Nat /\ Cardinality(T) \in Nat
  BY FS_CardinalityType
<1>2. IsFiniteSet(S \cup T) /\ Cardinality(S \cup T) = Cardinality(S) + Cardinality(T)
  <2>1. Cardinality(S \cap T) = 0
    BY FS_EmptySet
  <2>2. /\ IsFiniteSet(S \cup T)
        /\ Cardinality(S \cup T) = Cardinality(S) + Cardinality(T) - Cardinality(S \cap T)
    BY FS_Union, Zenon
  <2> QED
    BY <1>1, <2>1, <2>2
<1>3. Len(s) = Cardinality(S) /\ Len(t) = Cardinality(T)
  BY <1>1 DEF Lists
<1>4. s \in Seq(S \cup T) /\ t \in Seq(S \cup T)
  <2>1. \A k \in 1 .. Len(s) : s[k] \in S \cup T
    OBVIOUS
  <2>2. \A k \in 1 .. Len(t) : t[k] \in S \cup T
    OBVIOUS
  <2>3. s = [k \in 1 .. Len(s) |-> s[k]] /\ t = [k \in 1 .. Len(t) |-> t[k]] /\ Len(s) \in Nat /\ Len(t) \in Nat
    OBVIOUS
  <2> QED
    BY <2>1, <2>2, <2>3
<1>5. s \o t \in Seq(S \cup T) /\ Len(s \o t) = Len(s) + Len(t)
  BY <1>4
<1>6. \A k \in 1 .. Len(s) + Len(t) : (s \o t)[k] = IF k <= Len(s) THEN s[k] ELSE t[k - Len(s)]
  BY <1>4
<1> DEFINE c == s \o t
<1> HIDE DEF c
<1>7. \A k \in 1 .. Len(s) : k \in 1 .. Len(s) + Len(t) /\ c[k] = s[k] /\ s[k] \in S
  BY <1>1, <1>3, <1>6 DEF c, Lists
<1>8. \A k \in 1 .. Len(t) : Len(s) + k \in 1 .. Len(s) + Len(t) /\ c[Len(s) + k] = t[k] /\ t[k] \in T
  <2> SUFFICES ASSUME NEW k \in 1 .. Len(t)
               PROVE  Len(s) + k \in 1 .. Len(s) + Len(t) /\ c[Len(s) + k] = t[k] /\ t[k] \in T
    OBVIOUS
  <2>1. Len(s) + k \in 1 .. Len(s) + Len(t) /\ ~(Len(s) + k <= Len(s)) /\ Len(s) + k - Len(s) = k
    BY <1>1, <1>3
  <2> QED
    BY <1>3, <1>6, <2>1 DEF c, Lists
<1>9. \A k \in 1 .. Len(s) + Len(t) :
        k \in 1 .. Len(s) \/ \E l \in 1 .. Len(t) : k = Len(s) + l
  <2> SUFFICES ASSUME NEW k \in 1 .. Len(s) + Len(t), k \notin 1 .. Len(s)
               PROVE \E l \in 1 .. Len(t) : k = Len(s) + l
    OBVIOUS
  <2>1. k - Len(s) \in 1 .. Len(t) /\ k = Len(s) + (k - Len(s))
    BY <1>1, <1>3
  <2> QED
    BY <2>1
<1>10. DOMAIN c = 1 .. Len(s) + Len(t)
  BY <1>5 DEF c
<1>11. \A k \in DOMAIN c : c[k] \in S \cup T
  <2> SUFFICES ASSUME NEW k \in 1 .. Len(s) + Len(t) PROVE c[k] \in S \cup T
    BY <1>10
  <2>1. CASE k \in 1 .. Len(s)
    BY <1>7, <2>1
  <2>2. CASE k \notin 1 .. Len(s)
    <3>1. PICK x \in 1 .. Len(t) : k = Len(s) + x
      BY <1>9, <2>2
    <3> QED
      BY <1>8, <3>1
  <2> QED
    BY <2>1, <2>2
<1>12. ASSUME NEW k \in DOMAIN c, NEW l \in DOMAIN c, c[k] = c[l] PROVE k = l
  <2>1. CASE k \in 1 .. Len(s) /\ l \in 1 .. Len(s)
    BY <1>3, <1>7, <1>12, <2>1 DEF Lists
  <2>2. CASE k \in 1 .. Len(s) /\ l \notin 1 .. Len(s)
    <3>1. PICK y \in 1 .. Len(t) : l = Len(s) + y
      BY <1>9, <1>10, <2>2
    <3>2. c[k] \in S /\ c[l] \in T
      BY <1>7, <1>8, <2>2, <3>1
    <3> QED
      BY <1>12, <3>2
  <2>3. CASE k \notin 1 .. Len(s) /\ l \in 1 .. Len(s)
    <3>1. PICK x \in 1 .. Len(t) : k = Len(s) + x
      BY <1>9, <1>10, <2>3
    <3>2. c[l] \in S /\ c[k] \in T
      BY <1>7, <1>8, <2>3, <3>1
    <3> QED
      BY <1>12, <3>2
  <2>4. CASE k \notin 1 .. Len(s) /\ l \notin 1 .. Len(s)
    <3>1. PICK x \in 1 .. Len(t) : k = Len(s) + x
      BY <1>9, <1>10, <2>4
    <3>2. PICK y \in 1 .. Len(t) : l = Len(s) + y
      BY <1>9, <1>10, <2>4
    <3>3. t[x] = t[y]
      BY <1>8, <1>12, <3>1, <3>2
    <3> QED
      BY <1>3, <3>1, <3>2, <3>3 DEF Lists
  <2> QED
    BY <2>1, <2>2, <2>3, <2>4
<1>13. ASSUME NEW i \in S \cup T PROVE \E k \in DOMAIN c : c[k] = i
  <2>1. CASE i \in S
    <3>1. PICK k \in 1 .. Len(s) : s[k] = i
      BY <1>3, <2>1 DEF Lists
    <3> QED
      BY <1>7, <1>10, <3>1
  <2>2. CASE i \in T
    <3>1. PICK k \in 1 .. Len(t) : t[k] = i
      BY <1>3, <2>2 DEF Lists
    <3> QED
      BY <1>8, <1>10, <3>1
  <2> QED
    BY <2>1, <2>2
<1>14. Lists(c, S \cup T)
  BY <1>2, <1>3, <1>10, <1>11, <1>12, <1>13 DEF Lists
<1> QED
  BY <1>2, <1>3, <1>5, <1>14 DEF c

(* There is a first element.                                               *)
LEMMA FirstElement ==
  ASSUME NEW S, IsFiniteSet(S), S # {}, NEW R, Orders(R, S)
  PROVE  \E x \in S : \A y \in S \ {x} : <<x, y>> \in R
<1>1. Cardinality(S) \in Nat /\ Cardinality(S) # 0
  BY FS_CardinalityType, FS_EmptySet
<1>2. 0 \in 0 .. Cardinality(S) - 1
  BY <1>1
<1>3. PICK x \in S : Cardinality(Below(S, R, x)) = 0
  BY <1>2, RanksAreBijective DEF OnePerRank
<1>4. Below(S, R, x) = {}
  <2>1. IsFiniteSet(Below(S, R, x))
    BY FS_Subset DEF Below
  <2> QED
    BY <1>3, <2>1, FS_EmptySet
<1> QED
  BY <1>4 DEF Below, Orders

(* Every set of numbers has a least member.                                *)
LEMMA LeastMember ==
  ASSUME NEW S \in SUBSET Nat, S # {}
  PROVE  \E x \in S : \A y \in S : x <= y
<1> DEFINE T == {0 .. x : x \in S}
<1>1. T \subseteq FiniteSubsetsOf(Nat) /\ T # {}
  <2>1. \A x \in S : IsFiniteSet(0 .. x) /\ 0 .. x \subseteq Nat
    <3>1. \A x \in S : x \in Int
      OBVIOUS
    <3> QED
      BY <3>1, FS_Interval
  <2> QED
    BY <2>1 DEF FiniteSubsetsOf
<1>2. PICK t \in T : \A v \in T : ~ (<<v, t>> \in StrictSubsetOrdering(Nat))
  BY <1>1, FS_StrictSubsetOrderingWellFounded, WFMin
<1>3. PICK x \in S : t = 0 .. x
  OBVIOUS
<1>4. ASSUME NEW y \in S PROVE x <= y
  <2>1. 0 .. y \in T /\ 0 .. y \in SUBSET Nat /\ 0 .. x \in SUBSET Nat
    OBVIOUS
  <2>2. <<0 .. y, 0 .. x>> \notin StrictSubsetOrdering(Nat)
    BY <1>2, <1>3, <2>1
  <2>3. ~(0 .. y \subseteq 0 .. x /\ 0 .. y # 0 .. x)
    BY <2>1, <2>2 DEF StrictSubsetOrdering
  <2>4. y < x => x \notin 0 .. y /\ x \in 0 .. x /\ 0 .. y \subseteq 0 .. x
    OBVIOUS
  <2> QED
    BY <2>3, <2>4
<1> QED
  BY <1>4

-----------------------------------------------------------------------------
(* Concatenations of lists of the same lengths: the element at a position   *)
(* of one comes from the same list (from), and the same place in it (at),   *)
(* as the one at that position of the other.                               *)

Places(T, from, at, N, S) ==
  /\ T \in Nat
  /\ \A i \in 1 .. T : from[i] \in 1 .. N /\ at[i] \in 1 .. Len(S[from[i]])
  /\ \A i, k \in 1 .. T : from[i] = from[k] /\ at[i] = at[k] => i = k
  /\ \A q \in 1 .. N : \A j \in 1 .. Len(S[q]) : \E i \in 1 .. T : from[i] = q /\ at[i] = j

IsPlaced(s, T, from, at, S) ==
  /\ DOMAIN s = 1 .. T
  /\ \A i \in 1 .. T : s[i] = S[from[i]][at[i]]

Flattens(f, N, S) == f = [i \in 1 .. N |-> IF i = 1 THEN S[i] ELSE f[i - 1] \o S[i]]

Unfolds(f, N, S) == \A i \in 1 .. N : f[i] = IF i = 1 THEN S[i] ELSE f[i - 1] \o S[i]

LEMMA FlattenUnfolds ==
  ASSUME NEW N, NEW S, NEW f, Flattens(f, N, S)
  PROVE  Unfolds(f, N, S)
<1> DEFINE e(i) == IF i = 1 THEN S[i] ELSE f[i - 1] \o S[i]
<1>1. f = [i \in 1 .. N |-> e(i)]
  BY DEF Flattens
<1>2. ASSUME NEW i \in 1 .. N PROVE f[i] = e(i)
  <2> DEFINE h == [j \in 1 .. N |-> e(j)]
  <2>1. h[i] = e(i)
    <3> HIDE DEF e
    <3> QED
      OBVIOUS
  <2>2. f = h
    BY <1>1
  <2> HIDE DEF h, e
  <2> QED
    BY <2>1, <2>2
<1> QED
  BY <1>2 DEF Unfolds

LEMMA FlattenExists ==
  ASSUME NEW N \in Nat, NEW S
  PROVE  \E f : Flattens(f, N, S)
<1> DEFINE Bad == {k \in Nat : ~\E f : Flattens(f, k, S)}
<1>1. SUFFICES ASSUME Bad # {} PROVE FALSE
  OBVIOUS
<1>2. PICK k \in Bad : \A y \in Bad : k <= y
  <2>1. Bad \in SUBSET Nat
    OBVIOUS
  <2> HIDE DEF Bad
  <2> QED
    BY <1>1, <2>1, LeastMember
<1>3. k \in Nat /\ ~\E f : Flattens(f, k, S)
  OBVIOUS
<1>4. k # 0
  <2>1. ASSUME k = 0 PROVE FALSE
    <3> DEFINE f == [i \in 1 .. 0 |-> i]
    <3>1. Flattens(f, 0, S)
      BY DEF Flattens
    <3> QED
      BY <1>3, <2>1, <3>1
  <2> QED
    BY <2>1
<1>5. k - 1 \in Nat /\ k - 1 \notin Bad
  BY <1>2, <1>3, <1>4
<1>6. PICK f : Flattens(f, k - 1, S)
  BY <1>5
<1> HIDE DEF Bad
<1> DEFINE e(i) == IF i = 1 THEN S[i] ELSE f[i - 1] \o S[i]
           g    == [i \in 1 .. k |-> e(i)]
<1>7. \A i \in 1 .. k - 1 : f[i] = e(i)
  BY <1>6, FlattenUnfolds DEF Unfolds
<1>8. \A i \in 1 .. k : i # 1 => i - 1 \in 1 .. k - 1 /\ i - 1 \in 1 .. k
  BY <1>3
<1>9. \A i \in 1 .. k : g[i] = e(i)
  <2> HIDE DEF e
  <2> QED
    OBVIOUS
<1>10. \A i \in 1 .. k : e(i) = IF i = 1 THEN S[i] ELSE g[i - 1] \o S[i]
  <2>1. \A i \in 1 .. k : i # 1 => g[i - 1] = f[i - 1]
    <3> HIDE DEF e, g
    <3> QED
      BY <1>7, <1>8, <1>9
  <2> HIDE DEF g
  <2> QED
    BY <2>1
<1>11. Flattens(g, k, S)
  <2>1. g = [i \in 1 .. k |-> e(i)]
    OBVIOUS
  <2>2. [i \in 1 .. k |-> e(i)] = [i \in 1 .. k |-> IF i = 1 THEN S[i] ELSE g[i - 1] \o S[i]]
    <3> HIDE DEF e, g
    <3> QED
      BY <1>10
  <2>3. g = [i \in 1 .. k |-> IF i = 1 THEN S[i] ELSE g[i - 1] \o S[i]]
    <3> HIDE DEF e, g
    <3> QED
      BY <2>2 DEF g
  <2> HIDE DEF e, g
  <2> QED
    BY <2>3 DEF Flattens
<1> QED
  BY <1>3, <1>11

LEMMA FlattenSeqUnfolds ==
  ASSUME NEW N \in Nat \ {0}, NEW A, NEW S \in [1 .. N -> Seq(A)]
  PROVE  \E f : Unfolds(f, N, S) /\ FlattenSeq(S) = f[N]
<1> DEFINE f == CHOOSE g : Flattens(g, N, S)
<1>1. Flattens(f, N, S)
  BY FlattenExists
<1>2. Len(S) = N
  OBVIOUS
<1>3. FlattenSeq(S) = f[N]
  BY <1>2 DEF FlattenSeq, Flattens
<1> HIDE DEF f
<1> QED
  BY <1>1, <1>3, FlattenUnfolds

IsConcatenation(c, s, t, A) ==
  /\ c \in Seq(A) /\ DOMAIN c = 1 .. Len(s) + Len(t)
  /\ \A i \in 1 .. Len(s) + Len(t) : c[i] = IF i <= Len(s) THEN s[i] ELSE t[i - Len(s)]

LEMMA Concatenation ==
  ASSUME NEW A, NEW s \in Seq(A), NEW t \in Seq(A)
  PROVE  IsConcatenation(s \o t, s, t, A)
  BY ConcatProperties DEF IsConcatenation

LEMMA FlattenPlaces ==
  ASSUME NEW N \in Nat \ {0}, NEW A, NEW B,
         NEW S \in [1 .. N -> Seq(A)], NEW U \in [1 .. N -> Seq(B)],
         \A q \in 1 .. N : Len(S[q]) = Len(U[q])
  PROVE  /\ FlattenSeq(S) \in Seq(A) /\ FlattenSeq(U) \in Seq(B)
         /\ \E T, from, at : /\ Places(T, from, at, N, S)
                             /\ IsPlaced(FlattenSeq(S), T, from, at, S)
                             /\ IsPlaced(FlattenSeq(U), T, from, at, U)
<1>1. \A q \in 1 .. N : S[q] \in Seq(A) /\ U[q] \in Seq(B) /\ Len(S[q]) = Len(U[q]) /\ Len(S[q]) \in Nat
  OBVIOUS
<1>2. PICK f : Unfolds(f, N, S) /\ FlattenSeq(S) = f[N]
  BY FlattenSeqUnfolds
<1>3. PICK g : Unfolds(g, N, U) /\ FlattenSeq(U) = g[N]
  BY FlattenSeqUnfolds
<1> DEFINE Good(k) == /\ f[k] \in Seq(A) /\ g[k] \in Seq(B)
                      /\ \E T, from, at : /\ Places(T, from, at, k, S)
                                          /\ IsPlaced(f[k], T, from, at, S)
                                          /\ IsPlaced(g[k], T, from, at, U)
           Bad == {k \in 1 .. N : ~Good(k)}
<1>4. Good(1)
  <2> DEFINE T    == Len(S[1])
             from == [i \in 1 .. T |-> 1]
             at   == [i \in 1 .. T |-> i]
  <2>1. f[1] = S[1] /\ g[1] = U[1]
    BY <1>2, <1>3 DEF Unfolds
  <2>2. /\ S[1] \in Seq(A) /\ U[1] \in Seq(B) /\ T \in Nat
        /\ DOMAIN S[1] = 1 .. T /\ DOMAIN U[1] = 1 .. T
    BY <1>1
  <2>3. \A i \in 1 .. T : from[i] = 1 /\ at[i] = i
    OBVIOUS
  <2>4. Places(T, from, at, 1, S)
    <3> HIDE DEF from, at
    <3> QED
      BY <2>2, <2>3 DEF Places
  <2>5. IsPlaced(f[1], T, from, at, S) /\ IsPlaced(g[1], T, from, at, U)
    <3> HIDE DEF from, at, T
    <3> QED
      BY <2>1, <2>2, <2>3 DEF IsPlaced
  <2>6. f[1] \in Seq(A) /\ g[1] \in Seq(B)
    BY <2>1, <2>2
  <2> HIDE DEF T, from, at
  <2> QED
    BY <2>4, <2>5, <2>6
<1>5. ASSUME NEW k \in 1 .. N, k # 1, Good(k - 1) PROVE Good(k)
  <2>1. PICK T, from, at : /\ Places(T, from, at, k - 1, S)
                           /\ IsPlaced(f[k - 1], T, from, at, S)
                           /\ IsPlaced(g[k - 1], T, from, at, U)
    BY <1>5
  <2>2. /\ f[k] = f[k - 1] \o S[k] /\ g[k] = g[k - 1] \o U[k]
    BY <1>2, <1>3, <1>5 DEF Unfolds
  <2>3. f[k - 1] \in Seq(A) /\ g[k - 1] \in Seq(B)
    BY <1>5
  <2>4. S[k] \in Seq(A) /\ U[k] \in Seq(B) /\ Len(S[k]) = Len(U[k]) /\ Len(S[k]) \in Nat
    BY <1>1
  <2>5. T \in Nat /\ Len(f[k - 1]) = T /\ Len(g[k - 1]) = T
    <3>1. T \in Nat /\ DOMAIN f[k - 1] = 1 .. T /\ DOMAIN g[k - 1] = 1 .. T
      BY <2>1 DEF IsPlaced, Places
    <3> QED
      BY <2>3, <3>1
  <2> DEFINE L == Len(S[k])
             from2 == [i \in 1 .. T + L |-> IF i <= T THEN from[i] ELSE k]
             at2   == [i \in 1 .. T + L |-> IF i <= T THEN at[i] ELSE i - T]
  <2>6. /\ f[k] \in Seq(A) /\ DOMAIN f[k] = 1 .. T + L
        /\ \A i \in 1 .. T + L : f[k][i] = IF i <= T THEN f[k - 1][i] ELSE S[k][i - T]
    <3>1. IsConcatenation(f[k], f[k - 1], S[k], A)
      BY <2>2, <2>3, <2>4, Concatenation
    <3> QED
      BY <2>4, <2>5, <3>1 DEF IsConcatenation
  <2>7. /\ g[k] \in Seq(B) /\ DOMAIN g[k] = 1 .. T + L
        /\ \A i \in 1 .. T + L : g[k][i] = IF i <= T THEN g[k - 1][i] ELSE U[k][i - T]
    <3>1. IsConcatenation(g[k], g[k - 1], U[k], B)
      BY <2>2, <2>3, <2>4, Concatenation
    <3> QED
      BY <2>4, <2>5, <3>1 DEF IsConcatenation
  <2>8. L \in Nat /\ T + L \in Nat /\ T \in Nat /\ k \in Nat /\ k >= 2
    BY <1>5, <2>4, <2>5
  <2>9. \A i \in 1 .. T + L : /\ i <= T => i \in 1 .. T /\ from2[i] = from[i] /\ at2[i] = at[i]
                              /\ ~(i <= T) => i - T \in 1 .. L /\ from2[i] = k /\ at2[i] = i - T
    <3> HIDE DEF L
    <3> QED
      BY <2>8
  <2>10. \A i \in 1 .. T : /\ from[i] \in 1 .. k - 1 /\ from[i] \in 1 .. k /\ from[i] # k
                           /\ at[i] \in 1 .. Len(S[from[i]])
    BY <2>1, <2>8 DEF Places
  <2>11. Places(T + L, from2, at2, k, S)
    <3> HIDE DEF from2, at2
    <3>1. ASSUME NEW i \in 1 .. T + L PROVE from2[i] \in 1 .. k /\ at2[i] \in 1 .. Len(S[from2[i]])
      <4>1. CASE i <= T
        BY <2>9, <2>10, <4>1
      <4>2. CASE ~(i <= T)
        BY <2>8, <2>9, <4>2
      <4> QED
        BY <4>1, <4>2
    <3>2. ASSUME NEW i \in 1 .. T + L, NEW j \in 1 .. T + L, from2[i] = from2[j], at2[i] = at2[j]
          PROVE  i = j
      <4>1. CASE i <= T /\ j <= T
        BY <2>1, <2>9, <3>2, <4>1 DEF Places
      <4>2. CASE i <= T /\ ~(j <= T)
        BY <2>9, <2>10, <3>2, <4>2
      <4>3. CASE ~(i <= T) /\ j <= T
        BY <2>9, <2>10, <3>2, <4>3
      <4>4. CASE ~(i <= T) /\ ~(j <= T)
        <5>1. i - T = j - T
          BY <2>9, <3>2, <4>4
        <5>2. i \in Int /\ j \in Int
          BY <2>8
        <5> HIDE DEF L
        <5> QED
          BY <2>8, <5>1, <5>2
      <4> QED
        BY <4>1, <4>2, <4>3, <4>4
    <3>3. ASSUME NEW q \in 1 .. k, NEW j \in 1 .. Len(S[q])
          PROVE  \E i \in 1 .. T + L : from2[i] = q /\ at2[i] = j
      <4>1. CASE q = k
        <5>1. j \in 1 .. L
          BY <3>3, <4>1
        <5>2. T + j \in 1 .. T + L /\ ~(T + j <= T) /\ (T + j) - T = j
          <6> HIDE DEF L
          <6> QED
            BY <2>8, <5>1
        <5> QED
          BY <2>9, <4>1, <5>2
      <4>2. CASE q # k
        <5>1. q \in 1 .. k - 1
          BY <2>8, <4>2
        <5>2. PICK i \in 1 .. T : from[i] = q /\ at[i] = j
          BY <2>1, <5>1 DEF Places
        <5>3. i \in 1 .. T + L /\ i <= T
          <6> HIDE DEF L
          <6> QED
            BY <2>8, <5>2
        <5> QED
          BY <2>9, <5>2, <5>3
      <4> QED
        BY <4>1, <4>2
    <3> QED
      BY <2>8, <3>1, <3>2, <3>3 DEF Places
  <2>12. IsPlaced(f[k], T + L, from2, at2, S)
    <3>1. \A i \in 1 .. T : f[k - 1][i] = S[from[i]][at[i]]
      BY <2>1 DEF IsPlaced
    <3> HIDE DEF from2, at2, L
    <3>2. ASSUME NEW i \in 1 .. T + L PROVE f[k][i] = S[from2[i]][at2[i]]
      <4>1. CASE i <= T
        BY <2>6, <2>9, <3>1, <4>1
      <4>2. CASE ~(i <= T)
        BY <2>6, <2>9, <4>2
      <4> QED
        BY <4>1, <4>2
    <3> QED
      BY <2>6, <3>2 DEF IsPlaced
  <2>13. IsPlaced(g[k], T + L, from2, at2, U)
    <3>1. \A i \in 1 .. T : g[k - 1][i] = U[from[i]][at[i]]
      BY <2>1 DEF IsPlaced
    <3> HIDE DEF from2, at2, L
    <3>2. ASSUME NEW i \in 1 .. T + L PROVE g[k][i] = U[from2[i]][at2[i]]
      <4>1. CASE i <= T
        BY <2>7, <2>9, <3>1, <4>1
      <4>2. CASE ~(i <= T)
        BY <2>7, <2>9, <4>2
      <4> QED
        BY <4>1, <4>2
    <3> QED
      BY <2>7, <3>2 DEF IsPlaced
  <2>14. f[k] \in Seq(A) /\ g[k] \in Seq(B)
    BY <2>6, <2>7
  <2> HIDE DEF from2, at2, L
  <2> QED
    BY <2>11, <2>12, <2>13, <2>14
<1>6. Good(N)
  <2> HIDE DEF Good
  <2>1. ASSUME Bad # {} PROVE FALSE
    <3>1. PICK k \in Bad : \A y \in Bad : k <= y
      <4>1. Bad \in SUBSET Nat
        OBVIOUS
      <4> HIDE DEF Bad
      <4> QED
        BY <2>1, <4>1, LeastMember
    <3>2. k \in 1 .. N /\ ~Good(k)
      OBVIOUS
    <3>3. k # 1
      BY <1>4, <3>2
    <3>4. k - 1 \in 1 .. N /\ k - 1 \notin Bad
      <4>1. k \in Nat /\ k - 1 \in 1 .. N /\ ~(k <= k - 1)
        BY <3>2, <3>3
      <4> HIDE DEF Bad
      <4> QED
        BY <3>1, <4>1
    <3>5. Good(k - 1)
      BY <3>4
    <3> QED
      BY <1>5, <3>2, <3>3, <3>5
  <2> QED
    BY <2>1
<1> QED
  BY <1>2, <1>3, <1>6

(* What a concatenation holds is what its parts hold.                      *)
IsIn(e, s) == \E k \in DOMAIN s : s[k] = e

LEMMA FlattenRange ==
  ASSUME NEW N \in Nat, NEW A, NEW S \in [1 .. N -> Seq(A)]
  PROVE  /\ FlattenSeq(S) \in Seq(A)
         /\ \A e : IsIn(e, FlattenSeq(S)) <=> \E q \in 1 .. N : IsIn(e, S[q])
<1>1. CASE N = 0
  <2>1. S = << >> /\ Len(S) = 0
    BY <1>1
  <2>2. FlattenSeq(S) = << >>
    BY <2>1 DEF FlattenSeq
  <2> QED
    BY <1>1, <2>2 DEF IsIn
<1>2. CASE N # 0
  <2>1. N \in Nat \ {0} /\ \A q \in 1 .. N : Len(S[q]) = Len(S[q])
    BY <1>2
  <2>2. /\ FlattenSeq(S) \in Seq(A)
        /\ \E T, from, at : /\ Places(T, from, at, N, S)
                            /\ IsPlaced(FlattenSeq(S), T, from, at, S)
    BY <2>1, FlattenPlaces
  <2>3. PICK T, from, at : /\ Places(T, from, at, N, S)
                           /\ IsPlaced(FlattenSeq(S), T, from, at, S)
    BY <2>2
  <2>4. \A q \in 1 .. N : DOMAIN S[q] = 1 .. Len(S[q])
    OBVIOUS
  <2>5. ASSUME NEW e, IsIn(e, FlattenSeq(S)) PROVE \E q \in 1 .. N : IsIn(e, S[q])
    <3>1. PICK k \in DOMAIN FlattenSeq(S) : FlattenSeq(S)[k] = e
      BY <2>5 DEF IsIn
    <3>2. k \in 1 .. T /\ from[k] \in 1 .. N /\ at[k] \in 1 .. Len(S[from[k]]) /\ e = S[from[k]][at[k]]
      BY <2>3, <3>1 DEF Places, IsPlaced
    <3> QED
      BY <2>4, <3>2 DEF IsIn
  <2>6. ASSUME NEW e, NEW q \in 1 .. N, IsIn(e, S[q]) PROVE IsIn(e, FlattenSeq(S))
    <3>1. PICK j \in 1 .. Len(S[q]) : S[q][j] = e
      BY <2>4, <2>6 DEF IsIn
    <3>2. PICK i \in 1 .. T : from[i] = q /\ at[i] = j
      BY <2>3, <3>1 DEF Places
    <3>3. i \in DOMAIN FlattenSeq(S) /\ FlattenSeq(S)[i] = e
      BY <2>3, <3>1, <3>2 DEF IsPlaced
    <3> QED
      BY <3>3 DEF IsIn
  <2> QED
    BY <2>2, <2>5, <2>6
<1> QED
  BY <1>1, <1>2

=============================================================================
