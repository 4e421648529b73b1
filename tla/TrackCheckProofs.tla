---------------------------- MODULE TrackCheckProofs ----------------------------
(***************************************************************************)
(* Proofs about TrackCheck, for tracks of any length and all options, and  *)
(* about the other checks of sequences of observations, through instances: *)
(* StuckCheck, TrackCheckShip, HistoryCheck and SpikeAndStepCheck.         *)
(*                                                                         *)
(* The counters of an observation count its checks against the neighbours  *)
(* visited so far that are not rejected; until the sweep has come to it,    *)
(* those rejected by the previous sweep are still counted (Counted).  A    *)
(* visit exchanges the buddies that have gone for fresh ones, and both sets *)
(* are as far from each other as the cardinalities need them to be.  The   *)
(* window of an observation is the smallest that would do, but with the    *)
(* buddies of that time (WindowInv).                                       *)
(*                                                                         *)
(* The other checks are one loop each.  StreakInv: what is rejected is what *)
(* belongs to long streaks that have ended.  ShipInv: the statistics that  *)
(* are recorded with the observations are those of the track as it is now, *)
(* although only those next to a removed observation are computed again.   *)
(* HistoryInv: what is carried over are labels, and the counters in them   *)
(* are ranks among identical observations.  SpikeInv: the level checked    *)
(* last is the last outlier.                                               *)
(***************************************************************************)
EXTENDS SequenceChecks, FiniteSetTheorems, SequenceTheorems, WellFoundedInduction, TLAPS

N == Cardinality(Obs)

Visited(i) == UNION {Neighbours(i, d, 0, VisitedBefore(i, d)) : d \in Directions}

Counted(i) == {j \in Visited(i) : IF Looked(i) THEN ~Rejected(j)
                                  ELSE j \notin rejectedBeforePreviousSweep}

AllGone(i)  == UNION {Gone(i, d) : d \in Directions}
AllFresh(i) == UNION {Fresh(i, d, NumVisitedNow(i, d)) : d \in Directions}

TypeOK ==
  /\ track \in Tracks /\ options \in Options
  /\ pc \in {"visit", "register", "done"}
  /\ obsIdx \in 1 .. N + 1
  /\ checks \in [Obs -> Int] /\ failures \in [Obs -> Int]
  /\ rejectedInPreviousSweep \subseteq Obs /\ rejectedBeforePreviousSweep \subseteq Obs
  /\ numVisited \in [Obs -> [Directions -> Int]]
  /\ \A i \in Obs, d \in Directions : numVisited[i][d] \in -1 .. NumNeighbours(i, d)

(* No observation is rejected twice.                                       *)
RejectedOnce == rejectedInPreviousSweep \cap rejectedBeforePreviousSweep = {}

SweptAll == pc # "visit" => obsIdx = N + 1

CountersInv == \A i \in Obs : ~Rejected(i) =>
  /\ checks[i] = NumChecks(Counted(i))
  /\ failures[i] = NumFailures(i, Counted(i))

(* The sweeps end when the largest fraction of failed checks is zero.      *)
EndInv == pc = "done" /\ options.threshold[1] > 0 =>
  \A i \in Obs : ~Rejected(i) => failures[i] = 0

IInv == TypeOK /\ RejectedOnce /\ SweptAll /\ CountersInv /\ EndInv

(* The window of m neighbours on one side: those that are counted.         *)
Kept(i, d, m) ==
  {j \in Neighbours(i, d, 0, m) : IF Looked(i) THEN ~Rejected(j)
                                  ELSE j \notin rejectedBeforePreviousSweep}

(* No smaller window has as many distinct buddies as are required.         *)
Smallest(i, d, k) ==
  /\ k \in 0 .. NumNeighbours(i, d)
  /\ \/ NumDistinct(i, Kept(i, d, k)) = options.numDistinctBuddies
     \/ k = NumNeighbours(i, d) /\ NumDistinct(i, Kept(i, d, k)) <= options.numDistinctBuddies
  /\ \A m \in 0 .. k - 1 : NumDistinct(i, Kept(i, d, m)) < options.numDistinctBuddies

(* Until the sweep comes to an observation its window is the smallest there *)
(* was when the buddies that the previous sweep rejected were still there.  *)
WindowInv == \A i \in Obs, d \in Directions :
  ~Rejected(i) /\ (Looked(i) \/ numVisited[i][d] # NoPreviousSweep) =>
    Smallest(i, d, numVisited[i][d])

-----------------------------------------------------------------------------
(* Sets of integers and of neighbours.                                     *)

LEMMA LeastIsMember ==
  ASSUME NEW S \in SUBSET Nat, S # {}
  PROVE  Least(S) \in S /\ \A y \in S : Least(S) <= y
<1> DEFINE T == {0 .. x : x \in S}
<1>1. T \subseteq FiniteSubsetsOf(Nat) /\ T # {}
  <2>1. \A x \in S : IsFiniteSet(0 .. x) /\ 0 .. x \subseteq Nat
    BY FS_Interval
  <2> QED
    BY <2>1 DEF FiniteSubsetsOf
<1>2. PICK U \in T : \A V \in T : ~ (<<V, U>> \in StrictSubsetOrdering(Nat))
  BY <1>1, FS_StrictSubsetOrderingWellFounded, WFMin
<1>3. PICK x \in S : U = 0 .. x
  OBVIOUS
<1>4. ASSUME NEW y \in S PROVE x <= y
  <2>1. 0 .. y \in T /\ 0 .. y \in SUBSET Nat /\ 0 .. x \in SUBSET Nat
    OBVIOUS
  <2>2. <<0 .. y, 0 .. x>> \notin StrictSubsetOrdering(Nat)
    BY <1>2, <1>3, <2>1
  <2>3. ~(0 .. y \subseteq 0 .. x /\ 0 .. y # 0 .. x)
    BY <2>1, <2>2 DEF StrictSubsetOrdering
  <2>4. y < x => x \notin 0 .. y /\ x \in 0 .. x /\ 0 .. y \subseteq 0 .. x
    OBVIOUS
  <2> QED
    BY <2>3, <2>4
<1> QED
  BY <1>4 DEF Least

(* The ranks of the members of a finite set of integers are 1, 2, ...       *)
RankFacts(S, rank) ==
  /\ rank \in [S -> 1 .. Cardinality(S)]
  /\ \A k, m \in S : k < m => rank[k] < rank[m]
  /\ \A k, m \in S : rank[k] = rank[m] => k = m
  /\ \A m \in 1 .. Cardinality(S) : \E k \in S : rank[k] = m

LEMMA Ranks ==
  ASSUME NEW S \in SUBSET Int, IsFiniteSet(S),
         NEW rank, rank = [k \in S |-> Cardinality({l \in S : l <= k})]
  PROVE  RankFacts(S, rank)
<1> DEFINE n == Cardinality(S)
<1>1. n \in Nat
  BY FS_CardinalityType
<1>2. \A k \in S : /\ IsFiniteSet({l \in S : l <= k})
                    /\ rank[k] = Cardinality({l \in S : l <= k})
                    /\ rank[k] \in 1 .. n
  <2> TAKE k \in S
  <2> DEFINE B == {l \in S : l <= k}
  <2>1. IsFiniteSet(B) /\ Cardinality(B) <= n
    BY FS_Subset
  <2>2. k \in B
    OBVIOUS
  <2> HIDE DEF B
  <2>3. Cardinality(B) \in Nat /\ Cardinality(B) # 0
    BY <2>1, <2>2, FS_CardinalityType, FS_EmptySet
  <2> QED
    BY <1>1, <2>1, <2>3 DEF B
<1> HIDE DEF n
<1>3. \A k, m \in S : k < m => rank[k] < rank[m]
  <2> TAKE k, m \in S
  <2> HAVE k < m
  <2> DEFINE B == {l \in S : l <= k}
             C == {l \in S : l <= m}
  <2>1. B \subseteq C /\ m \in C /\ m \notin B
    <3>1. k \in Int /\ m \in Int /\ \A l \in S : l \in Int
      OBVIOUS
    <3>2. ~(m <= k) /\ m <= m /\ \A l \in S : l <= k => l <= m
      BY <3>1
    <3> QED
      BY <3>2
  <2>2. IsFiniteSet(C) /\ rank[k] = Cardinality(B) /\ rank[m] = Cardinality(C)
    BY <1>2
  <2>3. rank[k] \in Int /\ rank[m] \in Int
    BY <1>1, <1>2
  <2> HIDE DEF B, C
  <2>4. Cardinality(B) <= Cardinality(C) /\ Cardinality(B) # Cardinality(C)
    BY <2>1, <2>2, FS_Subset
  <2> QED
    BY <2>2, <2>3, <2>4
<1>4. rank \in [S -> 1 .. n]
  BY <1>2
<1>5. \A k, m \in S : rank[k] = rank[m] => k = m
  <2>1. \A k, m \in S : k < m \/ m < k \/ k = m
    OBVIOUS
  <2>2. \A k \in S : rank[k] \in Int
    BY <1>1, <1>4
  <2> QED
    BY <1>3, <2>1, <2>2
<1>6. \A m \in 1 .. n : \E k \in S : rank[k] = m
  <2>1. rank \in Injection(S, 1 .. n)
    BY <1>4, <1>5 DEF Injection, IsInjective
  <2>2. IsFiniteSet(1 .. n) /\ Cardinality(1 .. n) = n
    BY <1>1, FS_Interval
  <2>3. rank \in Surjection(S, 1 .. n)
    BY <2>1, <2>2, FS_Injection DEF n
  <2> QED
    BY <2>3 DEF Surjection
<1> QED
  BY <1>3, <1>4, <1>5, <1>6 DEF RankFacts, n

LEMMA FirstRanks ==
  ASSUME NEW S, IsFiniteSet(S), NEW rank, RankFacts(S, rank), NEW m \in Nat
  PROVE  Cardinality({k \in S : rank[k] <= m})
           = IF m <= Cardinality(S) THEN m ELSE Cardinality(S)
<1> DEFINE n == Cardinality(S)
           T == {k \in S : rank[k] <= m}
           r == [k \in T |-> rank[k]]
<1>1. n \in Nat
  BY FS_CardinalityType
<1>2. rank \in [S -> 1 .. n] /\ \A k \in S : rank[k] \in 1 .. n
  BY DEF RankFacts
<1> HIDE DEF n
<1>3. CASE m <= n
  <2>1. r \in [T -> 1 .. m]
    BY <1>1, <1>2
  <2>2. \A k, l \in T : r[k] = r[l] => k = l
    BY DEF RankFacts
  <2>3. \A x \in 1 .. m : \E k \in T : r[k] = x
    <3> TAKE x \in 1 .. m
    <3>1. x \in 1 .. n /\ x <= m
      BY <1>1, <1>3
    <3>2. PICK k \in S : rank[k] = x
      BY <3>1 DEF RankFacts, n
    <3> QED
      BY <3>1, <3>2
  <2>4. IsFiniteSet(T)
    BY FS_Subset
  <2> HIDE DEF T, r
  <2>5. r \in Injection(T, 1 .. m) /\ r \in Surjection(T, 1 .. m)
    BY <2>1, <2>2, <2>3 DEF Injection, IsInjective, Surjection
  <2>6. Cardinality(1 .. m) = Cardinality(T)
    BY <2>4, <2>5, FS_Surjection
  <2> QED
    BY <1>3, <2>6, FS_Interval DEF T, n
<1>4. CASE ~(m <= n)
  <2>1. \A k \in S : rank[k] <= m
    BY <1>1, <1>2, <1>4
  <2>2. T = S
    BY <2>1
  <2> QED
    BY <1>4, <2>2 DEF n
<1> QED
  BY <1>3, <1>4

LEMMA NeighboursFinite ==
  ASSUME NEW i \in Int, NEW d \in Directions, NEW k \in Int, NEW m \in Int
  PROVE  /\ IsFiniteSet(Neighbours(i, d, k, m))
         /\ Neighbours(i, d, k, m) = IF d = "forward" THEN i + k + 1 .. i + m ELSE i - m .. i - k - 1
<1>1. CASE d = "forward"
  <2>1. Neighbours(i, d, k, m) = i + k + 1 .. i + m
    <3>1. \A j \in i + k + 1 .. i + m : j - i \in k + 1 .. m /\ j = i + (j - i)
      OBVIOUS
    <3>2. \A x \in k + 1 .. m : i + x \in i + k + 1 .. i + m
      OBVIOUS
    <3> QED
      BY <1>1, <3>1, <3>2 DEF Neighbours, Neighbour
  <2> QED
    BY <1>1, <2>1, FS_Interval
<1>2. CASE d # "forward"
  <2>1. Neighbours(i, d, k, m) = i - m .. i - k - 1
    <3>1. \A j \in i - m .. i - k - 1 : i - j \in k + 1 .. m /\ j = i - (i - j)
      OBVIOUS
    <3>2. \A x \in k + 1 .. m : i - x \in i - m .. i - k - 1
      OBVIOUS
    <3> QED
      BY <1>2, <3>1, <3>2 DEF Neighbours, Neighbour
  <2> QED
    BY <1>2, <2>1, FS_Interval
<1> QED
  BY <1>1, <1>2

(* Some members of a finite set are exchanged for others.                  *)
LEMMA Exchange ==
  ASSUME NEW A, IsFiniteSet(A), NEW G \in SUBSET A, NEW F, IsFiniteSet(F), F \cap A = {}
  PROVE  /\ Cardinality((A \ G) \cup F) = Cardinality(A) - Cardinality(G) + Cardinality(F)
         /\ Cardinality(A) \in Nat /\ Cardinality(G) \in Nat /\ Cardinality(F) \in Nat
<1>1. /\ IsFiniteSet(G) /\ IsFiniteSet(A \ G)
      /\ Cardinality(A \ G) = Cardinality(A) - Cardinality(A \cap G)
  BY FS_Subset, FS_Difference
<1>2. A \cap G = G /\ (A \ G) \cap F = {}
  OBVIOUS
<1>3. Cardinality((A \ G) \cup F) =
        Cardinality(A \ G) + Cardinality(F) - Cardinality((A \ G) \cap F)
  BY <1>1, FS_Union
<1>4. Cardinality({}) = 0
  BY FS_EmptySet
<1>5. Cardinality(A) \in Nat /\ Cardinality(G) \in Nat /\ Cardinality(F) \in Nat
  BY <1>1, FS_CardinalityType
<1>6. Cardinality((A \ G) \cap F) = 0
  BY <1>2, <1>4
<1>7. Cardinality(A \ G) = Cardinality(A) - Cardinality(G)
  BY <1>1, <1>2
<1> QED
  BY <1>3, <1>5, <1>6, <1>7

LEMMA ExchangeWithin ==
  ASSUME NEW A, IsFiniteSet(A), NEW G \in SUBSET A, NEW F, IsFiniteSet(F), F \cap A = {}, NEW P
  PROVE  /\ Cardinality(((A \ G) \cup F) \cap P) =
              Cardinality(A \cap P) - Cardinality(G \cap P) + Cardinality(F \cap P)
         /\ Cardinality(A \cap P) \in Nat /\ Cardinality(G \cap P) \in Nat
         /\ Cardinality(F \cap P) \in Nat
<1> DEFINE AP == A \cap P
           GP == G \cap P
           FP == F \cap P
<1>1. IsFiniteSet(AP) /\ GP \in SUBSET AP /\ IsFiniteSet(FP) /\ FP \cap AP = {}
  BY FS_Intersection
<1>2. ((A \ G) \cup F) \cap P = (AP \ GP) \cup FP
  OBVIOUS
<1> HIDE DEF AP, GP, FP
<1>3. /\ Cardinality((AP \ GP) \cup FP) = Cardinality(AP) - Cardinality(GP) + Cardinality(FP)
      /\ Cardinality(AP) \in Nat /\ Cardinality(GP) \in Nat /\ Cardinality(FP) \in Nat
  BY <1>1, Exchange
<1> QED
  BY <1>2, <1>3 DEF AP, GP, FP

LEMMA ExchangeChecks ==
  ASSUME NEW A, IsFiniteSet(A), NEW G \in SUBSET A, NEW F, IsFiniteSet(F), F \cap A = {}, NEW i
  PROVE  /\ NumChecks((A \ G) \cup F) = NumChecks(A) - NumChecks(G) + NumChecks(F)
         /\ NumFailures(i, (A \ G) \cup F) =
              NumFailures(i, A) - NumFailures(i, G) + NumFailures(i, F)
         /\ NumChecks(A) \in Nat /\ NumChecks(G) \in Nat /\ NumChecks(F) \in Nat
         /\ NumFailures(i, A) \in Nat /\ NumFailures(i, G) \in Nat /\ NumFailures(i, F) \in Nat
<1>1. /\ Cardinality((A \ G) \cup F) = Cardinality(A) - Cardinality(G) + Cardinality(F)
      /\ Cardinality(A) \in Nat /\ Cardinality(G) \in Nat /\ Cardinality(F) \in Nat
  BY Exchange
<1>2. PICK P : P = {j \in A \cup F : TooFast(i, j)}
  OBVIOUS
<1>3. PICK Q : Q = {j \in A \cup F : TooSteep(i, j)}
  OBVIOUS
<1>4. ASSUME NEW S \in SUBSET (A \cup F)
      PROVE  NumFailures(i, S) = Cardinality(S \cap P) + Cardinality(S \cap Q)
  <2>1. {j \in S : TooFast(i, j)} = S \cap P /\ {j \in S : TooSteep(i, j)} = S \cap Q
    BY <1>2, <1>3
  <2> QED
    BY <2>1 DEF NumFailures
<1>5. /\ Cardinality(((A \ G) \cup F) \cap P) =
           Cardinality(A \cap P) - Cardinality(G \cap P) + Cardinality(F \cap P)
      /\ Cardinality(A \cap P) \in Nat /\ Cardinality(G \cap P) \in Nat
      /\ Cardinality(F \cap P) \in Nat
  BY ExchangeWithin
<1>6. /\ Cardinality(((A \ G) \cup F) \cap Q) =
           Cardinality(A \cap Q) - Cardinality(G \cap Q) + Cardinality(F \cap Q)
      /\ Cardinality(A \cap Q) \in Nat /\ Cardinality(G \cap Q) \in Nat
      /\ Cardinality(F \cap Q) \in Nat
  BY ExchangeWithin
<1>7. /\ NumFailures(i, (A \ G) \cup F) =
           Cardinality(((A \ G) \cup F) \cap P) + Cardinality(((A \ G) \cup F) \cap Q)
      /\ NumFailures(i, A) = Cardinality(A \cap P) + Cardinality(A \cap Q)
      /\ NumFailures(i, G) = Cardinality(G \cap P) + Cardinality(G \cap Q)
      /\ NumFailures(i, F) = Cardinality(F \cap P) + Cardinality(F \cap Q)
  BY <1>4
<1>8. \A S : NumChecks(S) = Cardinality(S) * (IF ChecksClimb THEN 2 ELSE 1)
  BY DEF NumChecks
<1>9. /\ NumChecks((A \ G) \cup F) = NumChecks(A) - NumChecks(G) + NumChecks(F)
      /\ NumChecks(A) \in Nat /\ NumChecks(G) \in Nat /\ NumChecks(F) \in Nat
  <2>1. CASE ChecksClimb
    BY <1>1, <1>8, <2>1
  <2>2. CASE ~ChecksClimb
    BY <1>1, <1>8, <2>2
  <2> QED
    BY <2>1, <2>2
<1> QED
  BY <1>5, <1>6, <1>7, <1>9

LEMMA NoChecks ==
  ASSUME NEW S, IsFiniteSet(S), NEW i
  PROVE  /\ NumChecks(S) \in Nat /\ NumFailures(i, S) \in Nat
         /\ NumChecks(S) = 0 => NumFailures(i, S) = 0
         /\ NumChecks({}) = 0 /\ NumFailures(i, {}) = 0
<1>1. NumChecks(S) \in Nat /\ NumFailures(i, S) \in Nat
  <2>1. IsFiniteSet({}) /\ {} \cap S = {} /\ {} \in SUBSET S
    BY FS_EmptySet
  <2> QED
    BY <2>1, ExchangeChecks
<1>2. NumChecks({}) = 0 /\ NumFailures(i, {}) = 0
  <2>1. {j \in {} : TooFast(i, j)} = {} /\ {j \in {} : TooSteep(i, j)} = {}
    OBVIOUS
  <2> QED
    BY <2>1, FS_EmptySet DEF NumChecks, NumFailures
<1>3. NumChecks(S) = 0 => S = {}
  <2>1. Cardinality(S) \in Nat /\ (Cardinality(S) = 0 <=> S = {})
    BY FS_EmptySet, FS_CardinalityType
  <2> QED
    BY <2>1 DEF NumChecks
<1> QED
  BY <1>1, <1>2, <1>3

-----------------------------------------------------------------------------
(* What the invariant says of a track.                                     *)

LEMMA TrackLength ==
  ASSUME TypeOK
  PROVE  N \in Nat /\ Obs = 1 .. N
<1>1. PICK n \in Nat : Obs = 1 .. n
  <2>1. Len(track) \in Nat /\ Obs = 1 .. Len(track)
    BY TrackAssumption DEF TypeOK, Obs
  <2> QED
    BY <2>1
<1>2. Cardinality(1 .. n) = n
  BY FS_Interval
<1> QED
  BY <1>1, <1>2 DEF N

LEMMA VisitedFinite ==
  ASSUME TypeOK, NEW i \in Obs
  PROVE  /\ \A d \in Directions : /\ VisitedBefore(i, d) \in 0 .. NumNeighbours(i, d)
                                   /\ NumNeighbours(i, d) \in Nat
         /\ IsFiniteSet(Visited(i)) /\ IsFiniteSet(Counted(i))
         /\ Visited(i) = Neighbours(i, "forward", 0, VisitedBefore(i, "forward"))
                            \cup Neighbours(i, "backward", 0, VisitedBefore(i, "backward"))
<1>1. N \in Nat /\ i \in 1 .. N
  BY TrackLength
<1>2. \A d \in Directions : NumNeighbours(i, d) \in Nat
  BY <1>1 DEF NumNeighbours, N
<1>3. \A d \in Directions : VisitedBefore(i, d) \in 0 .. NumNeighbours(i, d)
  BY <1>2 DEF TypeOK, VisitedBefore, NoPreviousSweep
<1>4. \A d \in Directions : IsFiniteSet(Neighbours(i, d, 0, VisitedBefore(i, d)))
  BY <1>1, <1>2, <1>3, NeighboursFinite
<1>5. Visited(i) = Neighbours(i, "forward", 0, VisitedBefore(i, "forward"))
                     \cup Neighbours(i, "backward", 0, VisitedBefore(i, "backward"))
  BY DEF Visited, Directions
<1>6. IsFiniteSet(Visited(i))
  BY <1>4, <1>5, FS_Union DEF Directions
<1>7. Counted(i) \in SUBSET Visited(i)
  BY DEF Counted
<1> QED
  BY <1>2, <1>3, <1>5, <1>6, <1>7, FS_Subset

LEMMA CountsAreNat ==
  ASSUME IInv, NEW i \in Obs, ~Rejected(i)
  PROVE  /\ checks[i] \in Nat /\ failures[i] \in Nat
         /\ checks[i] = 0 => failures[i] = 0
<1>1. IsFiniteSet(Counted(i))
  BY VisitedFinite DEF IInv
<1>2. checks[i] = NumChecks(Counted(i)) /\ failures[i] = NumFailures(i, Counted(i))
  BY DEF IInv, CountersInv
<1> QED
  BY <1>1, <1>2, NoChecks

LEMMA InitIInv == Init => IInv
<1> SUFFICES ASSUME Init PROVE IInv
  OBVIOUS
<1>1. N \in Nat /\ Obs = 1 .. N
  <2>1. PICK n \in Nat : Obs = 1 .. n
    <3>1. Len(track) \in Nat /\ Obs = 1 .. Len(track)
      BY TrackAssumption DEF Init, Obs
    <3> QED
      BY <3>1
  <2>2. Cardinality(1 .. n) = n
    BY FS_Interval
  <2> QED
    BY <2>1, <2>2 DEF N
<1>2. TypeOK
  <2>1. \A i \in Obs, d \in Directions : NumNeighbours(i, d) \in Nat /\ numVisited[i][d] = -1
    BY <1>1 DEF Init, NumNeighbours, N, NoPreviousSweep
  <2>2. numVisited \in [Obs -> [Directions -> Int]]
    BY DEF Init, NoPreviousSweep
  <2>3. checks \in [Obs -> Int] /\ failures \in [Obs -> Int]
    BY DEF Init
  <2> QED
    BY <1>1, <2>1, <2>2, <2>3 DEF Init, TypeOK
<1>3. CountersInv
  <2> SUFFICES ASSUME NEW i \in Obs
               PROVE  checks[i] = NumChecks(Counted(i)) /\ failures[i] = NumFailures(i, Counted(i))
    BY DEF CountersInv
  <2>1. \A d \in Directions : Neighbours(i, d, 0, VisitedBefore(i, d)) = {}
    BY DEF Init, Neighbours, VisitedBefore
  <2>2. Counted(i) = {}
    BY <2>1 DEF Counted, Visited
  <2>3. NumChecks({}) = 0 /\ NumFailures(i, {}) = 0
    BY NoChecks, FS_EmptySet
  <2> QED
    BY <2>2, <2>3 DEF Init
<1> QED
  BY <1>2, <1>3 DEF IInv, RejectedOnce, SweptAll, EndInv, Init

-----------------------------------------------------------------------------
(* A visit: the window grows, or stays, and does not leave the track.      *)
LEMMA WindowGrows ==
  ASSUME TypeOK, NEW i \in Obs, NEW d \in Directions
  PROVE  NumVisitedNow(i, d) \in VisitedBefore(i, d) .. NumNeighbours(i, d)
<1> DEFINE S == {m \in VisitedBefore(i, d) .. NumNeighbours(i, d) :
                   \/ NumDistinct(i, Fresh(i, d, m)) >= NumNew(i, d)
                   \/ m = NumNeighbours(i, d)}
<1>1. VisitedBefore(i, d) \in 0 .. NumNeighbours(i, d) /\ NumNeighbours(i, d) \in Nat
  BY VisitedFinite
<1>2. NumNeighbours(i, d) \in S /\ S \in SUBSET Nat
  BY <1>1
<1>3. NumVisitedNow(i, d) = Least(S)
  BY DEF NumVisitedNow
<1>4. Least(S) \in S
  <2> HIDE DEF S
  <2> QED
    BY <1>2, LeastIsMember
<1> QED
  BY <1>3, <1>4

(* The buddies that are counted exchange those that have gone for fresh ones. *)
LEMMA VisitExchanges ==
  ASSUME IInv, VisitNeighbours, NEW o, o = obsIdx
  PROVE  /\ AllGone(o) \in SUBSET Counted(o) /\ IsFiniteSet(AllFresh(o))
         /\ AllFresh(o) \cap Counted(o) = {}
         /\ Counted(o)' = (Counted(o) \ AllGone(o)) \cup AllFresh(o)
<1>a. PICK gone : gone = AllGone(o)
  OBVIOUS
<1>b. PICK fresh : fresh = AllFresh(o)
  OBVIOUS
<1> DEFINE vf == VisitedBefore(o, "forward")
           vb == VisitedBefore(o, "backward")
           mf == NumVisitedNow(o, "forward")
           mb == NumVisitedNow(o, "backward")
<1>0. /\ TypeOK /\ o \in Obs /\ o \in Int /\ pc = "visit" /\ pc' = "visit"
      /\ obsIdx' = o + 1 /\ UNCHANGED <<track, options, rejected>>
  BY TrackLength DEF IInv, TypeOK, VisitNeighbours
<1>1. vf \in Nat /\ vb \in Nat /\ mf \in Nat /\ mb \in Nat /\ vf <= mf /\ vb <= mb
  <2>1. \A d \in Directions : /\ VisitedBefore(o, d) \in 0 .. NumNeighbours(o, d)
                              /\ NumNeighbours(o, d) \in Nat
                              /\ NumVisitedNow(o, d) \in VisitedBefore(o, d) .. NumNeighbours(o, d)
    BY <1>0, WindowGrows, VisitedFinite
  <2>2. \A d \in Directions : /\ VisitedBefore(o, d) \in Nat /\ NumVisitedNow(o, d) \in Nat
                              /\ VisitedBefore(o, d) <= NumVisitedNow(o, d)
    BY <2>1
  <2> QED
    BY <2>2 DEF Directions
<1>2. Visited(o) = Neighbours(o, "forward", 0, vf) \cup Neighbours(o, "backward", 0, vb)
  BY <1>0, VisitedFinite
<1>3. Counted(o) = {j \in Visited(o) : j \notin rejectedBeforePreviousSweep}
  BY <1>0 DEF Counted, Looked
<1>4. gone = {j \in Visited(o) : j \in rejectedInPreviousSweep}
  BY <1>a, <1>2 DEF AllGone, Gone, Directions
<1>5. fresh = {j \in Neighbours(o, "forward", vf, mf) \cup Neighbours(o, "backward", vb, mb) :
                 ~Rejected(j)}
  BY <1>b DEF AllFresh, Fresh, Directions
<1>6. Visited(o)' = Neighbours(o, "forward", 0, mf) \cup Neighbours(o, "backward", 0, mb)
  <2>1. numVisited'[o] = [d \in Directions |-> NumVisitedNow(o, d)]
    BY <1>0 DEF VisitNeighbours, TypeOK
  <2>2. numVisited'[o]["forward"] = mf /\ numVisited'[o]["backward"] = mb
    BY <2>1 DEF Directions
  <2>3. VisitedBefore(o, "forward")' = mf /\ VisitedBefore(o, "backward")' = mb
    <3>1. mf # -1 /\ mb # -1
      BY <1>1
    <3> HIDE DEF mf, mb
    <3> QED
      BY <2>2, <3>1 DEF VisitedBefore, NoPreviousSweep
  <2> QED
    BY <2>3 DEF Visited, Directions
<1> HIDE DEF vf, vb, mf, mb
<1>7. /\ Neighbours(o, "forward", 0, vf) = o + 1 .. o + vf
      /\ Neighbours(o, "forward", 0, mf) = o + 1 .. o + mf
      /\ Neighbours(o, "forward", vf, mf) = o + vf + 1 .. o + mf
      /\ Neighbours(o, "backward", 0, vb) = o - vb .. o - 1
      /\ Neighbours(o, "backward", 0, mb) = o - mb .. o - 1
      /\ Neighbours(o, "backward", vb, mb) = o - mb .. o - vb - 1
      /\ IsFiniteSet(Neighbours(o, "forward", vf, mf))
      /\ IsFiniteSet(Neighbours(o, "backward", vb, mb))
  <2>1. "forward" \in Directions /\ "backward" \in Directions /\ "backward" # "forward"
    BY DEF Directions
  <2>2. \A k, m \in Int : /\ Neighbours(o, "forward", k, m) = o + k + 1 .. o + m
                         /\ Neighbours(o, "backward", k, m) = o - m .. o - k - 1
                         /\ IsFiniteSet(Neighbours(o, "forward", k, m))
                         /\ IsFiniteSet(Neighbours(o, "backward", k, m))
    BY <1>0, <2>1, NeighboursFinite
  <2>3. o + 0 + 1 = o + 1 /\ o - 0 - 1 = o - 1 /\ 0 \in Int
        /\ vf \in Int /\ mf \in Int /\ vb \in Int /\ mb \in Int
    BY <1>0, <1>1
  <2> QED
    BY <2>2, <2>3
<1>8. \A j : /\ j \in Visited(o) => j \in Visited(o)'
             /\ j \in Visited(o)' => \/ j \in Visited(o)
                                      \/ j \in Neighbours(o, "forward", vf, mf)
                                      \/ j \in Neighbours(o, "backward", vb, mb)
             /\ j \in Neighbours(o, "forward", vf, mf) \cup Neighbours(o, "backward", vb, mb)
                  => j \in Visited(o)' /\ j \notin Visited(o)
  BY <1>0, <1>1, <1>2, <1>6, <1>7
<1>9. Counted(o)' = {j \in Visited(o)' : ~Rejected(j)}
  <2>1. Looked(o)'
    BY <1>0 DEF Looked
  <2> QED
    BY <1>0, <2>1 DEF Counted, Rejected, rejected
<1>10. gone \in SUBSET Counted(o)
  BY <1>3, <1>4 DEF IInv, RejectedOnce
<1>11. IsFiniteSet(fresh)
  <2>1. /\ IsFiniteSet(Neighbours(o, "forward", vf, mf))
        /\ IsFiniteSet(Neighbours(o, "backward", vb, mb))
    BY <1>7
  <2>2. IsFiniteSet(Neighbours(o, "forward", vf, mf) \cup Neighbours(o, "backward", vb, mb))
    BY <2>1, FS_Union
  <2> QED
    BY <1>5, <2>2, FS_Subset
<1>12. fresh \cap Counted(o) = {}
  BY <1>3, <1>5, <1>8
<1>13. Counted(o)' = (Counted(o) \ gone) \cup fresh
  <2>1. \A j : j \in Counted(o)' <=> j \in (Counted(o) \ gone) \cup fresh
    BY <1>3, <1>4, <1>5, <1>8, <1>9 DEF Rejected
  <2> QED
    BY <2>1
<1> QED
  BY <1>a, <1>b, <1>10, <1>11, <1>12, <1>13

-----------------------------------------------------------------------------
(* The steps.                                                              *)

(* What concerns an observation the sweep has nothing to do with.          *)
LEMMA CountedKept ==
  ASSUME NEW i, UNCHANGED rejected, Looked(i)' <=> Looked(i),
         Visited(i)' = Visited(i)
  PROVE  Counted(i)' = Counted(i)
  BY DEF Counted, Rejected, rejected

LEMMA SameChecks ==
  ASSUME UNCHANGED <<track, options>>, NEW i
  PROVE  /\ NumChecks(Counted(i))' = NumChecks(Counted(i)')
         /\ NumFailures(i, Counted(i))' = NumFailures(i, Counted(i)')
<1>1. NumChecks(Counted(i))' = NumChecks(Counted(i)')
  BY DEF NumChecks, ChecksClimb
<1>2. \A j : (TooFast(i, j)' <=> TooFast(i, j)) /\ (TooSteep(i, j)' <=> TooSteep(i, j))
  BY DEF ChecksClimb, TooFast, TooSteep, Distance, TimeBetween, Between, Obs
<1>3. NumFailures(i, Counted(i))' = NumFailures(i, Counted(i)')
  BY <1>2 DEF NumFailures
<1> QED
  BY <1>1, <1>3

LEMMA VisitIInv == ASSUME IInv, VisitNeighbours PROVE IInv'
<1>0. PICK o : o = obsIdx
  OBVIOUS
<1>1. /\ TypeOK /\ o \in Obs /\ N \in Nat /\ Obs = 1 .. N /\ ~Rejected(o)
      /\ pc = "visit" /\ pc' = "visit" /\ obsIdx' = o + 1
      /\ UNCHANGED <<track, options, rejected>>
  BY <1>0, TrackLength DEF IInv, VisitNeighbours
<1>2. PICK gone : gone = AllGone(o)
  OBVIOUS
<1>3. PICK fresh : fresh = AllFresh(o)
  OBVIOUS
<1>4. /\ checks' = [checks EXCEPT ![o] = checks[o] - NumChecks(gone) + NumChecks(fresh)]
      /\ failures' = [failures EXCEPT
           ![o] = failures[o] - NumFailures(o, gone) + NumFailures(o, fresh)]
      /\ numVisited' = [numVisited EXCEPT ![o] = [d \in Directions |-> NumVisitedNow(o, d)]]
  BY <1>0, <1>2, <1>3 DEF VisitNeighbours, AllGone, AllFresh
<1>5. /\ gone \in SUBSET Counted(o) /\ IsFiniteSet(fresh) /\ fresh \cap Counted(o) = {}
      /\ Counted(o)' = (Counted(o) \ gone) \cup fresh
  BY <1>0, <1>2, <1>3, VisitExchanges
<1>6. IsFiniteSet(Counted(o))
  BY <1>1, VisitedFinite
<1>7. /\ checks[o] = NumChecks(Counted(o)) /\ failures[o] = NumFailures(o, Counted(o))
  BY <1>1 DEF IInv, CountersInv
<1>8. /\ NumChecks((Counted(o) \ gone) \cup fresh) =
           NumChecks(Counted(o)) - NumChecks(gone) + NumChecks(fresh)
      /\ NumFailures(o, (Counted(o) \ gone) \cup fresh) =
           NumFailures(o, Counted(o)) - NumFailures(o, gone) + NumFailures(o, fresh)
      /\ NumChecks(Counted(o)) \in Nat /\ NumChecks(gone) \in Nat /\ NumChecks(fresh) \in Nat
      /\ NumFailures(o, Counted(o)) \in Nat /\ NumFailures(o, gone) \in Nat
      /\ NumFailures(o, fresh) \in Nat
  <2>1. PICK A : A = Counted(o)
    OBVIOUS
  <2>2. IsFiniteSet(A) /\ gone \in SUBSET A /\ IsFiniteSet(fresh) /\ fresh \cap A = {}
    BY <1>5, <1>6, <2>1
  <2>3. /\ NumChecks((A \ gone) \cup fresh) = NumChecks(A) - NumChecks(gone) + NumChecks(fresh)
        /\ NumFailures(o, (A \ gone) \cup fresh) =
             NumFailures(o, A) - NumFailures(o, gone) + NumFailures(o, fresh)
        /\ NumChecks(A) \in Nat /\ NumChecks(gone) \in Nat /\ NumChecks(fresh) \in Nat
        /\ NumFailures(o, A) \in Nat /\ NumFailures(o, gone) \in Nat
        /\ NumFailures(o, fresh) \in Nat
    BY <2>2, ExchangeChecks
  <2> QED
    BY <2>1, <2>3
<1>9. TypeOK'
  <2>1. \A d \in Directions : NumVisitedNow(o, d) \in -1 .. NumNeighbours(o, d)
    <3> SUFFICES ASSUME NEW d \in Directions
                 PROVE  NumVisitedNow(o, d) \in -1 .. NumNeighbours(o, d)
      OBVIOUS
    <3>1. /\ NumVisitedNow(o, d) \in VisitedBefore(o, d) .. NumNeighbours(o, d)
          /\ VisitedBefore(o, d) \in 0 .. NumNeighbours(o, d)
          /\ NumNeighbours(o, d) \in Nat
      BY <1>1, WindowGrows, VisitedFinite
    <3> QED
      BY <3>1
  <2>2. \A i \in Obs, d \in Directions : NumNeighbours(i, d)' = NumNeighbours(i, d)
    BY <1>1 DEF NumNeighbours, Obs
  <2>3. Obs' = Obs /\ N' = N
    BY <1>1 DEF Obs, N
  <2>4. \A i \in Obs, d \in Directions :
          numVisited'[i][d] = IF i = o THEN NumVisitedNow(o, d) ELSE numVisited[i][d]
    BY <1>1, <1>4 DEF TypeOK
  <2>5. numVisited' \in [Obs -> [Directions -> Int]]
    <3>1. \A d \in Directions : NumVisitedNow(o, d) \in Int
      <4> SUFFICES ASSUME NEW d \in Directions PROVE NumVisitedNow(o, d) \in Int
        OBVIOUS
      <4>1. NumNeighbours(o, d) \in Nat
        BY <1>1, VisitedFinite
      <4> QED
        BY <2>1, <4>1
    <3>2. [d \in Directions |-> NumVisitedNow(o, d)] \in [Directions -> Int]
      BY <3>1
    <3> QED
      BY <1>1, <1>4, <3>2 DEF TypeOK
  <2>6. \A i \in Obs, d \in Directions : numVisited'[i][d] \in -1 .. NumNeighbours(i, d)
    BY <1>1, <2>1, <2>4 DEF TypeOK
  <2>7. checks' \in [Obs -> Int] /\ failures' \in [Obs -> Int]
    BY <1>1, <1>4, <1>7, <1>8 DEF TypeOK
  <2>8. obsIdx' \in 1 .. N + 1
    BY <1>1
  <2> QED
    BY <1>1, <2>2, <2>3, <2>5, <2>6, <2>7, <2>8 DEF TypeOK, rejected
<1>10. CountersInv'
  <2> SUFFICES ASSUME NEW i \in Obs, ~Rejected(i)
               PROVE  /\ checks'[i] = NumChecks(Counted(i)')
                      /\ failures'[i] = NumFailures(i, Counted(i)')
    <3>1. Obs' = Obs /\ \A i \in Obs : Rejected(i)' <=> Rejected(i)
      BY <1>1 DEF Obs, Rejected, rejected
    <3>2. \A i : /\ NumChecks(Counted(i))' = NumChecks(Counted(i)')
                 /\ NumFailures(i, Counted(i))' = NumFailures(i, Counted(i)')
      BY <1>1, SameChecks
    <3> QED
      BY <3>1, <3>2 DEF CountersInv
  <2>1. CASE i = o
    BY <1>1, <1>4, <1>5, <1>7, <1>8, <2>1 DEF TypeOK
  <2>2. CASE i # o
    <3>1. checks'[i] = checks[i] /\ failures'[i] = failures[i]
      BY <1>1, <1>4, <2>2 DEF TypeOK
    <3>2. numVisited'[i] = numVisited[i]
      BY <1>1, <1>4, <2>2 DEF TypeOK
    <3>3. Counted(i)' = Counted(i)
      <4>1. Visited(i)' = Visited(i)
        BY <3>2 DEF Visited, VisitedBefore
      <4>2. Looked(i)' <=> Looked(i)
        BY <1>0, <1>1, <2>2 DEF Looked
      <4> QED
        BY <1>1, <4>1, <4>2, CountedKept
    <3> QED
      BY <3>1, <3>3 DEF IInv, CountersInv
  <2> QED
    BY <2>1, <2>2
<1> QED
  BY <1>1, <1>9, <1>10 DEF IInv, RejectedOnce, SweptAll, EndInv, rejected

LEMMA SkipIInv == ASSUME IInv, SkipRejected PROVE IInv'
<1>1. /\ TypeOK /\ obsIdx \in Obs /\ N \in Nat /\ Obs = 1 .. N /\ Rejected(obsIdx)
      /\ pc = "visit" /\ pc' = "visit" /\ obsIdx' = obsIdx + 1
      /\ UNCHANGED <<track, options, rejected, checks, failures, numVisited>>
  BY TrackLength DEF IInv, SkipRejected, counters
<1>2. Obs' = Obs /\ N' = N /\ \A i : Rejected(i)' <=> Rejected(i)
  BY <1>1 DEF Obs, N, Rejected, rejected
<1>3. TypeOK'
  <2>1. \A i \in Obs, d \in Directions : NumNeighbours(i, d)' = NumNeighbours(i, d)
    BY <1>1, <1>2 DEF NumNeighbours
  <2> QED
    BY <1>1, <1>2, <2>1 DEF TypeOK, rejected
<1>4. CountersInv'
  <2> SUFFICES ASSUME NEW i \in Obs, ~Rejected(i)
               PROVE  checks'[i] = NumChecks(Counted(i))' /\ failures'[i] = NumFailures(i, Counted(i))'
    BY <1>2 DEF CountersInv
  <2>1. Visited(i)' = Visited(i)
    BY <1>1 DEF Visited, VisitedBefore
  <2>2. Looked(i)' <=> Looked(i)
    BY <1>1 DEF Looked
  <2>3. Counted(i)' = Counted(i)
    BY <1>1, <2>1, <2>2, CountedKept
  <2>4. checks[i] = NumChecks(Counted(i)) /\ failures[i] = NumFailures(i, Counted(i))
    BY DEF IInv, CountersInv
  <2>5. /\ NumChecks(Counted(i))' = NumChecks(Counted(i)')
        /\ NumFailures(i, Counted(i))' = NumFailures(i, Counted(i)')
    BY <1>1, SameChecks
  <2> QED
    BY <1>1, <2>3, <2>4, <2>5
<1> QED
  BY <1>1, <1>3, <1>4 DEF IInv, RejectedOnce, SweptAll, EndInv, rejected

(* The counters of an observation that is not rejected do not depend on    *)
(* whether the sweep has ended.                                            *)
LEMMA KeptAtEndOfSweep ==
  ASSUME IInv, pc = "visit", obsIdx \notin Obs,
         UNCHANGED <<track, options, obsIdx, checks, failures, rejected, numVisited>>
  PROVE  CountersInv' /\ obsIdx = N + 1
<1>1. TypeOK /\ N \in Nat /\ Obs = 1 .. N
  BY TrackLength DEF IInv
<1>2. obsIdx = N + 1
  BY <1>1 DEF TypeOK
<1>3. Obs' = Obs /\ \A i : Rejected(i)' <=> Rejected(i)
  BY DEF Obs, Rejected, rejected
<1>4. CountersInv'
  <2> SUFFICES ASSUME NEW i \in Obs, ~Rejected(i)
               PROVE  checks'[i] = NumChecks(Counted(i))' /\ failures'[i] = NumFailures(i, Counted(i))'
    BY <1>3 DEF CountersInv
  <2>1. Visited(i)' = Visited(i)
    BY DEF Visited, VisitedBefore
  <2>2. Looked(i)' <=> Looked(i)
    BY <1>1, <1>2 DEF Looked
  <2>3. Counted(i)' = Counted(i)
    BY <2>1, <2>2, CountedKept
  <2>4. checks[i] = NumChecks(Counted(i)) /\ failures[i] = NumFailures(i, Counted(i))
    BY DEF IInv, CountersInv
  <2>5. /\ NumChecks(Counted(i))' = NumChecks(Counted(i)')
        /\ NumFailures(i, Counted(i))' = NumFailures(i, Counted(i)')
    BY SameChecks
  <2> QED
    BY <2>3, <2>4, <2>5
<1> QED
  BY <1>2, <1>4

(* When the threshold is zero though its factor is not, no check fails.    *)
LEMMA NoneFails ==
  ASSUME IInv, NEW f \in MaxFractions, FailedChecksThreshold(f)[1] <= 0,
         options.threshold[1] > 0, NEW i \in Obs, ~Rejected(i)
  PROVE  failures[i] = 0
<1>1. options.threshold[1] \in Nat
  BY TrackAssumption DEF IInv, TypeOK
<1>2. f[1] \in Nat /\ f[2] \in Nat \ {0}
  <2>1. PICK k \in Obs : f = Fraction(k)
    BY DEF MaxFractions
  <2>2. CASE Rejected(k) \/ checks[k] = 0
    BY <2>1, <2>2 DEF Fraction
  <2>3. CASE ~(Rejected(k) \/ checks[k] = 0)
    BY <2>1, <2>3, CountsAreNat DEF Fraction
  <2> QED
    BY <2>2, <2>3
<1>3. f[1] = 0
  <2>1. options.threshold[1] * f[1] <= 0
    BY DEF FailedChecksThreshold, Times
  <2> QED
    BY <1>1, <1>2, <2>1
<1>4. ~Exceeds(Fraction(i), f)
  BY DEF MaxFractions
<1>5. checks[i] \in Nat /\ failures[i] \in Nat /\ (checks[i] = 0 => failures[i] = 0)
  BY CountsAreNat
<1>6. CASE checks[i] # 0
  <2>1. ~(failures[i] * f[2] > 0 * checks[i])
    BY <1>3, <1>4, <1>6 DEF Exceeds, Fraction
  <2> QED
    BY <1>2, <1>5, <2>1
<1> QED
  BY <1>5, <1>6

LEMMA EndSweepIInv == ASSUME IInv, EndSweep PROVE IInv'
<1>1. /\ TypeOK /\ pc = "visit" /\ obsIdx \notin Obs
      /\ UNCHANGED <<track, options, obsIdx, checks, failures, rejected, numVisited>>
  BY DEF IInv, EndSweep, counters
<1>2. CountersInv' /\ obsIdx = N + 1
  BY <1>1, KeptAtEndOfSweep
<1>3. PICK f \in MaxFractions :
        pc' = IF FailedChecksThreshold(f)[1] <= 0 THEN "done" ELSE "register"
  BY DEF EndSweep
<1>4. Obs' = Obs /\ N' = N /\ \A i : Rejected(i)' <=> Rejected(i)
  BY <1>1 DEF Obs, N, Rejected, rejected
<1>5. TypeOK'
  <2>1. \A i \in Obs, d \in Directions : NumNeighbours(i, d)' = NumNeighbours(i, d)
    BY <1>1, <1>4 DEF NumNeighbours
  <2> QED
    BY <1>1, <1>3, <1>4, <2>1 DEF TypeOK, rejected
<1>6. EndInv'
  <2> SUFFICES ASSUME pc' = "done", options.threshold[1] > 0, NEW i \in Obs, ~Rejected(i)
               PROVE  failures[i] = 0
    BY <1>1, <1>4 DEF EndInv
  <2>1. FailedChecksThreshold(f)[1] <= 0
    BY <1>3
  <2> QED
    BY <2>1, NoneFails
<1> QED
  BY <1>1, <1>2, <1>4, <1>5, <1>6 DEF IInv, RejectedOnce, SweptAll, rejected

(* An observation that has been rejected is not rejected again.            *)
LEMMA NotExceeded ==
  ASSUME IInv, NEW f \in MaxFractions, NEW i \in Obs, Rejected(i)
  PROVE  ~Exceeds(Fraction(i), FailedChecksThreshold(f))
<1>1. options.threshold[1] \in Nat
  BY TrackAssumption DEF IInv, TypeOK
<1>2. f[1] \in Nat
  <2>1. PICK k \in Obs : f = Fraction(k)
    BY DEF MaxFractions
  <2>2. CASE Rejected(k) \/ checks[k] = 0
    BY <2>1, <2>2 DEF Fraction
  <2>3. CASE ~(Rejected(k) \/ checks[k] = 0)
    BY <2>1, <2>3, CountsAreNat DEF Fraction
  <2> QED
    BY <2>2, <2>3
<1>3. options.threshold[1] * f[1] >= 0
  BY <1>1, <1>2
<1>4. Fraction(i) = <<0, 1>>
  BY DEF Fraction
<1>5. options.threshold[2] * f[2] \in Int
  <2>1. options.threshold[2] \in Nat
    BY TrackAssumption DEF IInv, TypeOK
  <2>2. f[2] \in Int
    <3>1. PICK k \in Obs : f = Fraction(k)
      BY DEF MaxFractions
    <3> QED
      BY <3>1 DEF IInv, TypeOK, Fraction
  <2> QED
    BY <2>1, <2>2
<1> QED
  BY <1>1, <1>2, <1>3, <1>4, <1>5 DEF Exceeds, FailedChecksThreshold, Times

LEMMA RegisterIInv == ASSUME IInv, RegisterSweepOutcome PROVE IInv'
<1>1. /\ TypeOK /\ N \in Nat /\ Obs = 1 .. N /\ pc = "register"
      /\ pc' = "visit" /\ obsIdx' = 1
      /\ UNCHANGED <<track, options, checks, failures, numVisited>>
      /\ rejectedBeforePreviousSweep' = {i \in Obs : Rejected(i)}
  BY TrackLength DEF IInv, RegisterSweepOutcome, counters
<1>2. PICK f \in MaxFractions :
        rejectedInPreviousSweep' = {i \in Obs : Exceeds(Fraction(i), FailedChecksThreshold(f))}
  BY DEF RegisterSweepOutcome
<1>3. Obs' = Obs /\ N' = N
  BY <1>1 DEF Obs, N
<1>4. RejectedOnce'
  BY <1>1, <1>2, NotExceeded DEF RejectedOnce
<1>5. TypeOK'
  <2>1. \A i \in Obs, d \in Directions : NumNeighbours(i, d)' = NumNeighbours(i, d)
    BY <1>1, <1>3 DEF NumNeighbours
  <2> QED
    BY <1>1, <1>2, <1>3, <2>1 DEF TypeOK
<1>6. CountersInv'
  <2> SUFFICES ASSUME NEW i \in Obs, ~Rejected(i)'
               PROVE  checks'[i] = NumChecks(Counted(i))' /\ failures'[i] = NumFailures(i, Counted(i))'
    BY <1>3 DEF CountersInv
  <2>1. ~Rejected(i)
    BY <1>1 DEF Rejected
  <2>2. Visited(i)' = Visited(i)
    BY <1>1 DEF Visited, VisitedBefore
  <2>3. Looked(i) /\ ~Looked(i)'
    BY <1>1 DEF Looked
  <2>4. \A j : j \in rejectedBeforePreviousSweep' <=> Rejected(j)
    BY <1>1 DEF Rejected, TypeOK
  <2>5. Counted(i)' = {j \in Visited(i)' : j \notin rejectedBeforePreviousSweep'}
    BY <2>3 DEF Counted
  <2>6. Counted(i) = {j \in Visited(i) : ~Rejected(j)}
    BY <2>3 DEF Counted
  <2>7. Counted(i)' = Counted(i)
    BY <2>2, <2>4, <2>5, <2>6
  <2>8. checks[i] = NumChecks(Counted(i)) /\ failures[i] = NumFailures(i, Counted(i))
    BY <2>1 DEF IInv, CountersInv
  <2>9. /\ NumChecks(Counted(i))' = NumChecks(Counted(i)')
        /\ NumFailures(i, Counted(i))' = NumFailures(i, Counted(i)')
    BY <1>1, SameChecks
  <2> QED
    BY <1>1, <2>7, <2>8, <2>9
<1> QED
  BY <1>1, <1>4, <1>5, <1>6 DEF IInv, SweptAll, EndInv

LEMMA StutterIInv == ASSUME IInv, UNCHANGED vars PROVE IInv'
<1>1. /\ UNCHANGED <<track, options, pc, obsIdx, checks, failures, numVisited>>
      /\ UNCHANGED <<rejectedInPreviousSweep, rejectedBeforePreviousSweep>>
  BY DEF vars, counters, rejected
<1>2. Obs' = Obs /\ N' = N /\ \A i : (Rejected(i)' <=> Rejected(i)) /\ (Looked(i)' <=> Looked(i))
  BY <1>1 DEF Obs, N, Rejected, Looked
<1>3. \A i : /\ NumChecks(Counted(i))' = NumChecks(Counted(i))
             /\ NumFailures(i, Counted(i))' = NumFailures(i, Counted(i))
  <2> SUFFICES ASSUME NEW i
               PROVE  /\ NumChecks(Counted(i))' = NumChecks(Counted(i))
                      /\ NumFailures(i, Counted(i))' = NumFailures(i, Counted(i))
    OBVIOUS
  <2>1. Visited(i)' = Visited(i)
    BY <1>1 DEF Visited, VisitedBefore
  <2>2. Counted(i)' = Counted(i)
    BY <1>1, <1>2, <2>1, CountedKept DEF rejected
  <2> QED
    BY <1>1, <2>2, SameChecks
<1>4. \A i, d : NumNeighbours(i, d)' = NumNeighbours(i, d)
  BY <1>2 DEF NumNeighbours
<1> QED
  BY <1>1, <1>2, <1>3, <1>4
  DEF IInv, TypeOK, RejectedOnce, SweptAll, CountersInv, EndInv

LEMMA Invariant == Spec => []IInv
<1>1. IInv /\ [Next]_vars => IInv'
  BY VisitIInv, SkipIInv, EndSweepIInv, RegisterIInv, StutterIInv DEF Next, Stopped
<1> QED
  BY InitIInv, <1>1, PTL DEF Spec

-----------------------------------------------------------------------------
(* The windows.                                                            *)

LEMMA DistinctCount ==
  ASSUME NEW i, NEW S, IsFiniteSet(S), NEW T, IsFiniteSet(T)
  PROVE  /\ NumDistinct(i, S) \in Nat
         /\ S \cap T = {} => NumDistinct(i, S \cup T) = NumDistinct(i, S) + NumDistinct(i, T)
         /\ S \subseteq T => NumDistinct(i, S) <= NumDistinct(i, T)
         /\ \A x : NumDistinct(i, {x}) <= 1
         /\ NumDistinct(i, {}) = 0
<1> DEFINE D(B) == {j \in B : Distinct(i, j)}
<1>1. PICK A : A = D(S)
  OBVIOUS
<1>2. PICK C : C = D(T)
  OBVIOUS
<1>3. IsFiniteSet(A) /\ IsFiniteSet(C)
  BY <1>1, <1>2, FS_Subset
<1>4. Cardinality(A) \in Nat /\ Cardinality(C) \in Nat /\ Cardinality({}) = 0
  BY <1>3, FS_CardinalityType, FS_EmptySet
<1>5. NumDistinct(i, S) = Cardinality(A) /\ NumDistinct(i, T) = Cardinality(C)
  BY <1>1, <1>2 DEF NumDistinct
<1>6. ASSUME S \cap T = {}
      PROVE  NumDistinct(i, S \cup T) = NumDistinct(i, S) + NumDistinct(i, T)
  <2>1. D(S \cup T) = A \cup C /\ A \cap C = {}
    BY <1>1, <1>2, <1>6
  <2>2. Cardinality(A \cup C) = Cardinality(A) + Cardinality(C)
    <3>1. Cardinality(A \cup C) = Cardinality(A) + Cardinality(C) - Cardinality(A \cap C)
      BY <1>3, FS_Union
    <3>2. Cardinality(A \cap C) = 0
      BY <1>4, <2>1
    <3> QED
      BY <1>4, <3>1, <3>2
  <2> QED
    BY <1>5, <2>1, <2>2 DEF NumDistinct
<1>7. ASSUME S \subseteq T PROVE NumDistinct(i, S) <= NumDistinct(i, T)
  <2>1. A \in SUBSET C
    BY <1>1, <1>2, <1>7
  <2>2. Cardinality(A) <= Cardinality(C)
    BY <1>3, <2>1, FS_Subset
  <2> QED
    BY <1>5, <2>2
<1>8. ASSUME NEW x PROVE NumDistinct(i, {x}) <= 1
  <2>1. D({x}) = {} \/ D({x}) = {x}
    OBVIOUS
  <2>2. Cardinality({x}) = 1
    BY FS_Singleton
  <2> QED
    BY <1>4, <2>1, <2>2 DEF NumDistinct
<1>9. NumDistinct(i, {}) = 0
  <2>1. D({}) = {}
    OBVIOUS
  <2> QED
    BY <1>4, <2>1 DEF NumDistinct
<1> QED
  BY <1>4, <1>5, <1>6, <1>7, <1>8, <1>9

(* A window that is one wider has at most one more distinct buddy.         *)
LEMMA BuddiesGrow ==
  ASSUME NEW i \in Int, NEW d \in Directions, NEW m \in Nat
  PROVE  /\ NumDistinct(i, Buddies(i, d, m)) \in Nat
         /\ NumDistinct(i, Buddies(i, d, m + 1)) <= NumDistinct(i, Buddies(i, d, m)) + 1
         /\ NumDistinct(i, Buddies(i, d, 0)) = 0
<1>1. PICK S : S = Buddies(i, d, m)
  OBVIOUS
<1>2. PICK T : T = Buddies(i, d, m + 1)
  OBVIOUS
<1>3. PICK x : x = Neighbour(i, d, m + 1)
  OBVIOUS
<1>4. IsFiniteSet(S) /\ IsFiniteSet(T)
  <2>1. /\ IsFiniteSet(Neighbours(i, d, 0, m)) /\ IsFiniteSet(Neighbours(i, d, 0, m + 1))
    BY NeighboursFinite
  <2> QED
    BY <1>1, <1>2, <2>1, FS_Subset DEF Buddies
<1>5. T \ S \subseteq {x}
  <2>1. \A y \in 0 + 1 .. m + 1 : y \in 0 + 1 .. m \/ y = m + 1
    OBVIOUS
  <2> QED
    BY <1>1, <1>2, <1>3, <2>1 DEF Buddies, Neighbours
<1>6. IsFiniteSet({x})
  BY FS_Singleton
<1>7. NumDistinct(i, T) <= NumDistinct(i, S) + 1
  <2>1. PICK R : R = {x} \ S
    OBVIOUS
  <2>2. IsFiniteSet(R) /\ S \cap R = {} /\ R \subseteq {x} /\ T \subseteq S \cup R
    BY <1>5, <1>6, <2>1, FS_Subset
  <2>3. IsFiniteSet(S \cup R)
    BY <1>4, <2>2, FS_Union
  <2>4. /\ NumDistinct(i, T) <= NumDistinct(i, S \cup R)
        /\ NumDistinct(i, T) \in Nat /\ NumDistinct(i, S \cup R) \in Nat
    BY <1>4, <2>2, <2>3, DistinctCount
  <2>5. NumDistinct(i, S \cup R) = NumDistinct(i, S) + NumDistinct(i, R) /\ NumDistinct(i, S) \in Nat
    BY <1>4, <2>2, DistinctCount
  <2>6. NumDistinct(i, R) <= NumDistinct(i, {x}) /\ NumDistinct(i, {x}) <= 1
        /\ NumDistinct(i, R) \in Nat /\ NumDistinct(i, {x}) \in Nat
    BY <1>6, <2>2, DistinctCount
  <2> QED
    BY <2>4, <2>5, <2>6
<1>8. NumDistinct(i, Buddies(i, d, 0)) = 0
  <2>1. Buddies(i, d, 0) = {}
    BY DEF Buddies, Neighbours
  <2> QED
    BY <2>1, <1>4, DistinctCount
<1> QED
  BY <1>1, <1>2, <1>4, <1>7, <1>8, DistinctCount

(* The buddies within a window are those visited before that are left and  *)
(* the fresh ones; those visited before have lost the buddies that have    *)
(* gone.                                                                   *)
LEMMA WindowSplits ==
  ASSUME NEW i \in Int, NEW d \in Directions, NEW k \in Nat, k = VisitedBefore(i, d),
         NEW m \in Nat, k <= m
  PROVE  /\ NumDistinct(i, Fresh(i, d, m)) \in Nat
         /\ NumDistinct(i, Buddies(i, d, m)) =
              NumDistinct(i, Buddies(i, d, k)) + NumDistinct(i, Fresh(i, d, m))
         /\ NumDistinct(i, Fresh(i, d, k)) = 0
<1>1. PICK S : S = Buddies(i, d, k)
  OBVIOUS
<1>2. PICK T : T = Fresh(i, d, m)
  OBVIOUS
<1>3. IsFiniteSet(S) /\ IsFiniteSet(T)
  <2>1. /\ IsFiniteSet(Neighbours(i, d, 0, k)) /\ IsFiniteSet(Neighbours(i, d, k, m))
    BY NeighboursFinite
  <2> QED
    BY <1>1, <1>2, <2>1, FS_Subset DEF Buddies, Fresh
<1>4. S \cap T = {} /\ Buddies(i, d, m) = S \cup T
  <2>1. /\ Neighbours(i, d, 0, k) \cap Neighbours(i, d, k, m) = {}
        /\ Neighbours(i, d, 0, m) = Neighbours(i, d, 0, k) \cup Neighbours(i, d, k, m)
    BY NeighboursFinite
  <2> QED
    BY <1>1, <1>2, <2>1 DEF Buddies, Fresh
<1>5. Fresh(i, d, k) = {}
  BY DEF Fresh, Neighbours
<1> QED
  BY <1>1, <1>2, <1>3, <1>4, <1>5, DistinctCount

(* What an observation the sweep has come to has, and what it needs.       *)
LEMMA WindowNeeds ==
  ASSUME IInv, WindowInv, pc = "visit", NEW o \in Obs, o = obsIdx, ~Rejected(o),
         NEW d \in Directions, NEW k, k = VisitedBefore(o, d), NEW n, n = NumNeighbours(o, d)
  PROVE  /\ \/ NumDistinct(o, Buddies(o, d, k)) + NumNew(o, d) = options.numDistinctBuddies
            \/ k = n /\ NumDistinct(o, Buddies(o, d, k)) <= options.numDistinctBuddies
         /\ NumNew(o, d) \in Nat
         /\ \A m \in 0 .. k - 1 :
              NumDistinct(o, Buddies(o, d, m)) < options.numDistinctBuddies
<1>1. TypeOK /\ o \in Int /\ k \in 0 .. n /\ k \in Nat /\ n \in Nat /\ ~Looked(o)
  BY TrackLength, VisitedFinite DEF IInv, Looked
<1>2. PICK B \in Nat : B = options.numDistinctBuddies
  BY <1>1, TrackAssumption DEF TypeOK
<1>3. CASE numVisited[o][d] = NoPreviousSweep
  <2>1. k = 0 /\ NumNew(o, d) = B
    BY <1>2, <1>3 DEF VisitedBefore, NumNew
  <2>2. NumDistinct(o, Buddies(o, d, 0)) = 0
    BY <1>1, BuddiesGrow
  <2> QED
    BY <1>2, <2>1, <2>2
<1>4. CASE numVisited[o][d] # NoPreviousSweep
  <2>1. numVisited[o][d] = k /\ NumNew(o, d) = NumDistinct(o, Gone(o, d))
    BY <1>4 DEF VisitedBefore, NumNew
  <2>2. Smallest(o, d, k)
    BY <1>4, <2>1 DEF WindowInv
  <2>3. PICK S : S = Buddies(o, d, k)
    OBVIOUS
  <2>4. PICK G : G = Gone(o, d)
    OBVIOUS
  <2>5. IsFiniteSet(S) /\ IsFiniteSet(G) /\ S \cap G = {} /\ Kept(o, d, k) = S \cup G
    <3>1. IsFiniteSet(Neighbours(o, d, 0, k))
      BY <1>1, NeighboursFinite
    <3>2. G = {j \in Neighbours(o, d, 0, k) : j \in rejectedInPreviousSweep}
      BY <2>4 DEF Gone
    <3>3. Kept(o, d, k) = {j \in Neighbours(o, d, 0, k) : j \notin rejectedBeforePreviousSweep}
      BY <1>1 DEF Kept
    <3>4. S = {j \in Neighbours(o, d, 0, k) : j \notin rejectedInPreviousSweep
                                             /\ j \notin rejectedBeforePreviousSweep}
      BY <2>3 DEF Buddies, Rejected
    <3>5. rejectedInPreviousSweep \cap rejectedBeforePreviousSweep = {}
      BY DEF IInv, RejectedOnce
    <3>6. IsFiniteSet(S) /\ IsFiniteSet(G)
      BY <3>1, <3>2, <3>4, FS_Subset
    <3>7. S \cap G = {}
      BY <3>2, <3>4
    <3>8. \A j : j \in Kept(o, d, k) <=> j \in S \cup G
      BY <3>2, <3>3, <3>4, <3>5
    <3> QED
      BY <3>6, <3>7, <3>8
  <2>6. /\ NumDistinct(o, Kept(o, d, k)) = NumDistinct(o, S) + NumDistinct(o, G)
        /\ NumDistinct(o, S) \in Nat /\ NumDistinct(o, G) \in Nat
    BY <2>5, DistinctCount
  <2>7. \/ NumDistinct(o, Kept(o, d, k)) = B
        \/ k = n /\ NumDistinct(o, Kept(o, d, k)) <= B
    BY <1>2, <2>2 DEF Smallest
  <2>8. ASSUME NEW m \in 0 .. k - 1
        PROVE  NumDistinct(o, Buddies(o, d, m)) < B
    <3>1. NumDistinct(o, Kept(o, d, m)) < B
      BY <1>2, <2>2 DEF Smallest
    <3>2. IsFiniteSet(Neighbours(o, d, 0, m))
      BY <1>1, NeighboursFinite
    <3>3. /\ Buddies(o, d, m) \subseteq Kept(o, d, m)
          /\ IsFiniteSet(Kept(o, d, m)) /\ IsFiniteSet(Buddies(o, d, m))
      BY <1>1, <3>2, FS_Subset DEF Buddies, Kept, Rejected
    <3>4. /\ NumDistinct(o, Buddies(o, d, m)) <= NumDistinct(o, Kept(o, d, m))
          /\ NumDistinct(o, Buddies(o, d, m)) \in Nat /\ NumDistinct(o, Kept(o, d, m)) \in Nat
      <4>1. PICK X : X = Buddies(o, d, m)
        OBVIOUS
      <4>2. PICK Y : Y = Kept(o, d, m)
        OBVIOUS
      <4> QED
        BY <3>3, <4>1, <4>2, DistinctCount
    <3> QED
      BY <3>1, <3>4
  <2> QED
    BY <1>2, <2>1, <2>3, <2>4, <2>6, <2>7, <2>8
<1> QED
  BY <1>3, <1>4

(* A visit leaves the smallest window of buddies that are not rejected.    *)
LEMMA VisitSmallest ==
  ASSUME IInv, WindowInv, pc = "visit", NEW o \in Obs, o = obsIdx, ~Rejected(o),
         NEW d \in Directions, NEW w, w = NumVisitedNow(o, d), NEW n, n = NumNeighbours(o, d)
  PROVE  /\ w \in 0 .. n
         /\ \/ NumDistinct(o, Buddies(o, d, w)) = options.numDistinctBuddies
            \/ w = n /\ NumDistinct(o, Buddies(o, d, w)) <= options.numDistinctBuddies
         /\ \A m \in 0 .. w - 1 :
              NumDistinct(o, Buddies(o, d, m)) < options.numDistinctBuddies
<1>1. PICK k : k = VisitedBefore(o, d)
  OBVIOUS
<1>2. PICK B : B = options.numDistinctBuddies
  OBVIOUS
<1>3. PICK new : new = NumNew(o, d)
  OBVIOUS
<1>4. TypeOK /\ o \in Int /\ k \in 0 .. n /\ k \in Nat /\ n \in Nat /\ B \in Nat
  BY <1>1, <1>2, TrackLength, VisitedFinite, TrackAssumption DEF IInv, TypeOK
<1> DEFINE c(m) == NumDistinct(o, Buddies(o, d, m))
           f(m) == NumDistinct(o, Fresh(o, d, m))
           S    == {m \in k .. n : f(m) >= new \/ m = n}
<1>5. /\ c(k) + new = B \/ (k = n /\ c(k) <= B)
      /\ new \in Nat
      /\ \A m \in 0 .. k - 1 : c(m) < B
  BY <1>1, <1>2, <1>3, WindowNeeds
<1>6. \A m \in Nat : c(m) \in Nat /\ c(m + 1) <= c(m) + 1
  BY <1>4, BuddiesGrow
<1>7. \A m \in k .. n : f(m) \in Nat /\ c(m) = c(k) + f(m)
  BY <1>1, <1>4, WindowSplits
<1>8. f(k) = 0
  BY <1>1, <1>4, WindowSplits
<1>9. w = Least(S)
  BY <1>1, <1>3 DEF NumVisitedNow
<1> HIDE DEF c, f
<1>10. w \in S /\ \A m \in S : w <= m
  <2>1. S \in SUBSET Nat /\ n \in S
    BY <1>4
  <2> HIDE DEF S
  <2> QED
    BY <1>9, <2>1, LeastIsMember
<1>11. w \in Nat /\ w \in k .. n /\ (f(w) >= new \/ w = n)
  BY <1>4, <1>10
<1>12. \A m \in k .. w - 1 : f(m) < new /\ m # n
  <2> SUFFICES ASSUME NEW m \in k .. w - 1 PROVE f(m) < new /\ m # n
    OBVIOUS
  <2>1. m \in k .. n /\ m < w /\ f(m) \in Nat
    BY <1>4, <1>7, <1>11
  <2>2. m \notin S
    BY <1>10, <2>1
  <2> QED
    BY <1>5, <2>1, <2>2
<1>13. \A m \in 0 .. w - 1 : c(m) < B
  <2> SUFFICES ASSUME NEW m \in 0 .. w - 1 PROVE c(m) < B
    OBVIOUS
  <2>1. CASE m < k
    BY <1>4, <1>5, <2>1
  <2>2. CASE m >= k
    <3>1. m \in k .. w - 1 /\ m \in k .. n /\ k # n
      BY <1>4, <1>11, <2>2
    <3>2. f(m) < new /\ c(m) = c(k) + f(m) /\ f(m) \in Nat /\ c(k) \in Nat
      BY <1>4, <1>6, <1>7, <1>12, <3>1
    <3> QED
      BY <1>4, <1>5, <3>1, <3>2
  <2> QED
    BY <1>4, <2>1, <2>2
<1>14. c(w) <= B
  <2>1. CASE w = k
    BY <1>4, <1>5, <1>6, <2>1
  <2>2. CASE w # k
    <3>1. w - 1 \in Nat /\ w - 1 \in 0 .. w - 1 /\ (w - 1) + 1 = w
      BY <1>4, <1>11, <2>2
    <3>2. c(w - 1) < B /\ c(w) <= c(w - 1) + 1 /\ c(w - 1) \in Nat /\ c(w) \in Nat
      BY <1>6, <1>11, <1>13, <3>1
    <3> QED
      BY <1>4, <3>2
  <2> QED
    BY <2>1, <2>2
<1>15. c(w) = B \/ w = n
  <2> SUFFICES ASSUME w # n PROVE c(w) = B
    OBVIOUS
  <2>1. f(w) >= new /\ f(w) \in Nat /\ c(w) = c(k) + f(w) /\ c(k) \in Nat /\ c(k) + new = B
    BY <1>4, <1>5, <1>6, <1>7, <1>11
  <2> QED
    BY <1>4, <1>5, <1>14, <2>1
<1> QED
  BY <1>2, <1>4, <1>11, <1>13, <1>14, <1>15 DEF c

LEMMA SameDistinct ==
  ASSUME UNCHANGED <<track, options>>, NEW i
  PROVE  \A d, m : /\ NumDistinct(i, Kept(i, d, m))' = NumDistinct(i, Kept(i, d, m)')
                   /\ NumNeighbours(i, d)' = NumNeighbours(i, d)
<1>1. \A j : Distinct(i, j)' <=> Distinct(i, j)
  BY DEF Distinct, Distance, TimeBetween
<1> QED
  BY <1>1 DEF NumDistinct, NumNeighbours, Obs

(* A window stays the smallest while what is counted within it does not    *)
(* change.                                                                 *)
LEMMA SmallestKept ==
  ASSUME UNCHANGED <<track, options>>, NEW i, NEW d, NEW k, Smallest(i, d, k),
         \A m : Kept(i, d, m)' = Kept(i, d, m)
  PROVE  (Smallest(i, d, k))'
<1>1. \A m : NumDistinct(i, Kept(i, d, m))' = NumDistinct(i, Kept(i, d, m))
  BY SameDistinct
<1>2. NumNeighbours(i, d)' = NumNeighbours(i, d)
  BY SameDistinct
<1> QED
  BY <1>1, <1>2 DEF Smallest

LEMMA VisitWindowInv == ASSUME IInv, WindowInv, VisitNeighbours PROVE WindowInv'
<1>1. PICK o : o = obsIdx
  OBVIOUS
<1>2. /\ TypeOK /\ o \in Obs /\ N \in Nat /\ Obs = 1 .. N /\ ~Rejected(o)
      /\ pc = "visit" /\ pc' = "visit" /\ obsIdx' = o + 1
      /\ UNCHANGED <<track, options, rejectedInPreviousSweep, rejectedBeforePreviousSweep>>
      /\ numVisited' = [numVisited EXCEPT ![o] = [d \in Directions |-> NumVisitedNow(o, d)]]
  BY <1>1, TrackLength DEF IInv, VisitNeighbours, rejected
<1>3. Obs' = Obs /\ \A i : Rejected(i)' <=> Rejected(i)
  BY <1>2 DEF Obs, Rejected
<1> SUFFICES ASSUME NEW i \in Obs, NEW d \in Directions, ~Rejected(i),
                    Looked(i)' \/ numVisited'[i][d] # NoPreviousSweep,
                    NEW k, k = numVisited'[i][d]
             PROVE  (Smallest(i, d, k))'
  BY <1>3 DEF WindowInv
<1>4. CASE i = o
  <2>1. k = NumVisitedNow(o, d)
    BY <1>2, <1>4 DEF TypeOK
  <2>2. PICK n : n = NumNeighbours(o, d)
    OBVIOUS
  <2>3. /\ k \in 0 .. n
        /\ \/ NumDistinct(o, Buddies(o, d, k)) = options.numDistinctBuddies
           \/ k = n /\ NumDistinct(o, Buddies(o, d, k)) <= options.numDistinctBuddies
        /\ \A m \in 0 .. k - 1 :
             NumDistinct(o, Buddies(o, d, m)) < options.numDistinctBuddies
    BY <1>1, <1>2, <2>1, <2>2, VisitSmallest
  <2>4. \A m : Kept(o, d, m)' = Buddies(o, d, m)
    <3>1. Looked(o)'
      BY <1>2 DEF Looked
    <3> QED
      BY <1>3, <3>1 DEF Kept, Buddies
  <2>5. /\ \A m : NumDistinct(o, Kept(o, d, m))' = NumDistinct(o, Kept(o, d, m)')
        /\ NumNeighbours(o, d)' = NumNeighbours(o, d)
    BY <1>2, SameDistinct
  <2>6. \A m : NumDistinct(o, Kept(o, d, m))' = NumDistinct(o, Buddies(o, d, m))
    BY <2>4, <2>5
  <2> QED
    BY <1>2, <1>4, <2>2, <2>3, <2>5, <2>6 DEF Smallest
<1>5. CASE i # o
  <2>1. numVisited'[i] = numVisited[i] /\ (Looked(i)' <=> Looked(i))
    BY <1>1, <1>2, <1>5 DEF TypeOK, Looked
  <2>2. \A m : Kept(i, d, m)' = Kept(i, d, m)
    BY <1>2, <1>3, <2>1 DEF Kept
  <2>3. Smallest(i, d, k)
    BY <2>1 DEF WindowInv
  <2> QED
    BY <1>2, <2>2, <2>3, SmallestKept
<1> QED
  BY <1>4, <1>5

(* A step that moves no window and under which what is counted for an      *)
(* observation that is not rejected afterwards stays the same.             *)
LEMMA OtherWindowInv ==
  ASSUME WindowInv, UNCHANGED <<track, options, numVisited>>,
         \A i \in Obs : ~Rejected(i)' =>
            /\ ~Rejected(i)
            /\ Looked(i)' => Looked(i)
            /\ \A d, m : Kept(i, d, m)' = Kept(i, d, m)
  PROVE  WindowInv'
<1>1. Obs' = Obs
  BY DEF Obs
<1> SUFFICES ASSUME NEW i \in Obs, NEW d \in Directions, ~Rejected(i)',
                    Looked(i)' \/ numVisited[i][d] # NoPreviousSweep,
                    NEW k, k = numVisited[i][d]
             PROVE  (Smallest(i, d, k))'
  BY <1>1 DEF WindowInv
<1>2. Smallest(i, d, k)
  BY DEF WindowInv
<1> QED
  BY <1>2, SmallestKept

LEMMA NextWindowInv == IInv /\ WindowInv /\ [Next]_vars => WindowInv'
<1> SUFFICES ASSUME IInv, WindowInv, [Next]_vars PROVE WindowInv'
  OBVIOUS
<1>1. TypeOK /\ N \in Nat /\ Obs = 1 .. N /\ obsIdx \in 1 .. N + 1
  BY TrackLength DEF IInv, TypeOK
<1>2. CASE VisitNeighbours
  BY <1>2, VisitWindowInv
<1>3. CASE SkipRejected
  <2>1. /\ UNCHANGED <<track, options, pc, rejectedInPreviousSweep,
                        rejectedBeforePreviousSweep, numVisited>>
        /\ pc = "visit" /\ Rejected(obsIdx) /\ obsIdx' = obsIdx + 1 /\ obsIdx \in Obs
    BY <1>3 DEF SkipRejected, rejected
  <2>2. \A i : Rejected(i)' <=> Rejected(i)
    BY <2>1 DEF Rejected
  <2>3. \A i \in Obs : ~Rejected(i) => (Looked(i)' <=> Looked(i))
    BY <1>1, <2>1 DEF Looked
  <2>4. \A i \in Obs : ~Rejected(i) => \A d, m : Kept(i, d, m)' = Kept(i, d, m)
    BY <2>1, <2>2, <2>3 DEF Kept
  <2> QED
    BY <2>1, <2>2, <2>3, <2>4, OtherWindowInv
<1>4. CASE EndSweep
  <2>1. /\ UNCHANGED <<track, options, obsIdx, rejectedInPreviousSweep,
                        rejectedBeforePreviousSweep, numVisited>>
        /\ obsIdx \notin Obs
    BY <1>4 DEF EndSweep, rejected
  <2>2. \A i : Rejected(i)' <=> Rejected(i)
    BY <2>1 DEF Rejected
  <2>3. \A i \in Obs : Looked(i)' /\ Looked(i)
    BY <1>1, <2>1 DEF Looked
  <2>4. \A i \in Obs : \A d, m : Kept(i, d, m)' = Kept(i, d, m)
    BY <2>1, <2>2, <2>3 DEF Kept
  <2> QED
    BY <2>1, <2>2, <2>3, <2>4, OtherWindowInv
<1>5. CASE RegisterSweepOutcome
  <2>1. /\ UNCHANGED <<track, options, numVisited>> /\ pc = "register" /\ pc' = "visit"
        /\ obsIdx' = 1 /\ rejectedBeforePreviousSweep' = {i \in Obs : Rejected(i)}
    BY <1>5 DEF RegisterSweepOutcome
  <2>2. \A j : j \in rejectedBeforePreviousSweep' <=> Rejected(j)
    BY <1>1, <2>1 DEF Rejected, TypeOK
  <2>3. \A i \in Obs : ~Rejected(i)' => ~Rejected(i)
    BY <2>2 DEF Rejected
  <2>4. \A i \in Obs : Looked(i) /\ ~Looked(i)'
    BY <1>1, <2>1 DEF Looked
  <2>5. \A i \in Obs : \A d, m : Kept(i, d, m)' = Kept(i, d, m)
    BY <2>2, <2>4 DEF Kept
  <2> QED
    BY <2>1, <2>3, <2>4, <2>5, OtherWindowInv
<1>6. CASE UNCHANGED vars
  <2>1. UNCHANGED <<track, options, pc, obsIdx, rejectedInPreviousSweep,
                     rejectedBeforePreviousSweep, numVisited>>
    BY <1>6 DEF vars, rejected
  <2>2. \A i : (Rejected(i)' <=> Rejected(i)) /\ (Looked(i)' <=> Looked(i))
    BY <2>1 DEF Rejected, Looked, Obs
  <2>3. \A i, d, m : Kept(i, d, m)' = Kept(i, d, m)
    BY <2>1, <2>2 DEF Kept
  <2> QED
    BY <2>1, <2>2, <2>3, OtherWindowInv
<1> QED
  BY <1>2, <1>3, <1>4, <1>5, <1>6 DEF Next, Stopped

-----------------------------------------------------------------------------

(* What a sweep has dealt with counts what a full check would.             *)
LEMMA CountedIsVisited ==
  ASSUME TypeOK, NEW i \in Obs, Looked(i)
  PROVE  Counted(i) = VisitedBuddies(i)
<1>1. \A d \in Directions :
        Neighbours(i, d, 0, numVisited[i][d]) = Neighbours(i, d, 0, VisitedBefore(i, d))
  BY DEF Neighbours, VisitedBefore, NoPreviousSweep
<1>2. VisitedBuddies(i) =
        UNION {{j \in Neighbours(i, d, 0, VisitedBefore(i, d)) : ~Rejected(j)} : d \in Directions}
  BY <1>1 DEF VisitedBuddies, Buddies
<1> QED
  BY <1>2 DEF Counted, Visited

(* The variables of a track check keep their types, whatever the track and *)
(* the options.                                                            *)
THEOREM TypeCorrect == Spec => []TypeOK
  BY Invariant, PTL DEF IInv

(* The counters updated from sweep to sweep equal what checking against    *)
(* all the visited buddies that are not rejected would give.               *)
THEOREM CountersAreUpToDate == Spec => []CountersUpToDate
<1>1. IInv => CountersUpToDate
  BY CountedIsVisited DEF IInv, CountersInv, CountersUpToDate
<1> QED
  BY Invariant, <1>1, PTL

(* Once the sweeps end, no accepted observation fails a check against an   *)
(* accepted neighbour it has been compared with.                           *)
THEOREM AcceptedBuddiesAgree == Spec => []AcceptedAgree
<1>1. IInv => AcceptedAgree
  <2> SUFFICES ASSUME IInv, pc = "done", options.threshold[1] > 0,
                      NEW i \in Obs, ~Rejected(i)
               PROVE  NumFailures(i, VisitedBuddies(i)) = 0
    BY DEF AcceptedAgree
  <2>1. Counted(i) = VisitedBuddies(i)
    BY CountedIsVisited DEF IInv, Looked
  <2>2. failures[i] = 0 /\ failures[i] = NumFailures(i, Counted(i))
    BY DEF IInv, EndInv, CountersInv
  <2> QED
    BY <2>1, <2>2
<1> QED
  BY Invariant, <1>1, PTL

(* TrackCheckParameters.h: every observation the sweep has dealt with has  *)
(* been compared against the smallest set of neighbours on either side     *)
(* that contains the required number of distinct buddies not rejected,     *)
(* though the set is extended from sweep to sweep and never recomputed.    *)
THEOREM SmallestSetsVisited == Spec => []SmallestSetVisited
<1>1. Init => WindowInv
  <2> SUFFICES ASSUME Init, NEW i \in Obs, NEW d \in Directions
               PROVE  ~Looked(i) /\ numVisited[i][d] = NoPreviousSweep
    BY DEF WindowInv
  <2>1. N \in Nat /\ i \in 1 .. N
    BY InitIInv, TrackLength DEF IInv
  <2> QED
    BY <2>1 DEF Init, Looked
<1>2. TypeOK /\ WindowInv => SmallestSetVisited
  <2> SUFFICES ASSUME TypeOK, WindowInv, NEW i \in Obs, NEW d \in Directions,
                      Looked(i), ~Rejected(i), NEW k, k = numVisited[i][d],
                      NEW n, n = NumNeighbours(i, d)
               PROVE  k = Least({m \in 0 .. n :
                             \/ NumDistinct(i, Buddies(i, d, m)) = options.numDistinctBuddies
                             \/ m = n})
    BY DEF SmallestSetVisited
  <2> DEFINE S == {m \in 0 .. n :
                     \/ NumDistinct(i, Buddies(i, d, m)) = options.numDistinctBuddies
                     \/ m = n}
  <2>1. n \in Nat /\ i \in Int
    BY VisitedFinite, TrackLength
  <2>2. options.numDistinctBuddies \in Nat
    BY TrackAssumption DEF TypeOK
  <2>3. \A m : Kept(i, d, m) = Buddies(i, d, m)
    BY DEF Kept, Buddies
  <2>4. /\ k \in 0 .. n
        /\ NumDistinct(i, Buddies(i, d, k)) = options.numDistinctBuddies \/ k = n
        /\ \A m \in 0 .. k - 1 :
             NumDistinct(i, Buddies(i, d, m)) < options.numDistinctBuddies
    BY <2>3 DEF WindowInv, Smallest
  <2>5. k \in S /\ \A m \in S : k <= m
    <3>1. k \in S
      BY <2>4
    <3>2. ASSUME NEW m \in S PROVE k <= m
      <4> SUFFICES ASSUME m < k PROVE FALSE
        BY <2>1, <2>4
      <4>1. m \in 0 .. k - 1 /\ m # n
        BY <2>1, <2>4
      <4>2. NumDistinct(i, Buddies(i, d, m)) = options.numDistinctBuddies
        BY <4>1
      <4> QED
        BY <2>2, <2>4, <4>1, <4>2
    <3> QED
      BY <3>1, <3>2
  <2>6. S \in SUBSET Nat /\ k \in Nat
    BY <2>1, <2>4
  <2> HIDE DEF S
  <2>7. Least(S) \in S /\ \A m \in S : Least(S) <= m
    BY <2>5, <2>6, LeastIsMember
  <2>8. k = Least(S)
    <3>1. Least(S) \in Nat /\ Least(S) <= k /\ k <= Least(S)
      BY <2>5, <2>6, <2>7
    <3> QED
      BY <2>6, <3>1
  <2> QED
    BY <2>8 DEF S
<1>3. TypeOK /\ WindowInv /\ IInv => SmallestSetVisited
  BY <1>2
<1> QED
  BY Invariant, NextWindowInv, <1>1, <1>3, PTL DEF Spec, IInv

-----------------------------------------------------------------------------
(* StuckCheck.                                                             *)

AllPresent == \A i \in Stuck!Obs : Stuck!value(i) # Stuck!Missing

(* The observations of the streaks to be rejected that end before last.     *)
LongBefore(last) ==
  {i \in Stuck!Obs : \E a, b \in Stuck!Obs :
     i \in a .. b /\ b < last /\ Stuck!IsStreak(a, b) /\ Stuck!TooLong(a, b)}

(* The current streak begins at firstSameValueIndex, and all before it have *)
(* been judged; at the end of the station it has been judged too.           *)
StreakInv ==
  LET n == observationIndex
      f == firstSameValueIndex
  IN /\ n \in 1 .. Len(station) + 1
     /\ n = 1 => f = 1 /\ isRejected = {}
     /\ n > 1 =>
          /\ f \in 1 .. n - 1
          /\ previousObservationValue = Stuck!value(f)
          /\ \A i \in f .. n - 1 : Stuck!value(i) = Stuck!value(f)
          /\ f > 1 => Stuck!value(f - 1) # Stuck!value(f)
          /\ isRejected = LongBefore(f) \cup
               {i \in f .. Len(station) : n = Len(station) + 1 /\ Stuck!TooLong(f, Len(station))}

StuckInv == /\ station \in Stations /\ stuckOptions \in StuckOptions
            /\ AllPresent => StreakInv

LEMMA StationLength ==
  ASSUME Stuck!StuckAssumption, station \in Stations
  PROVE  Len(station) \in Nat \ {0, 1} /\ Stuck!Obs = 1 .. Len(station)
<1>1. station \in Seq([time : Int, value : Nat]) /\ Len(station) > 1
  BY DEF Stuck!StuckAssumption
<1>2. Len(station) \in Nat /\ DOMAIN station = 1 .. Len(station)
  BY <1>1
<1> QED
  BY <1>1, <1>2 DEF Stuck!Obs

(* Two streaks that overlap are the same.                                  *)
LEMMA StreaksAreApart ==
  ASSUME NEW L \in Nat, Len(station) = L, Stuck!Obs = 1 .. L,
         NEW a \in Stuck!Obs, NEW b \in Stuck!Obs, NEW c \in Stuck!Obs, NEW d \in Stuck!Obs,
         Stuck!IsStreak(a, b), Stuck!IsStreak(c, d), NEW x \in a .. b, x \in c .. d
  PROVE  a = c /\ b = d
<1>1. /\ \A i \in a .. b : Stuck!value(i) = Stuck!value(a)
      /\ \A i \in c .. d : Stuck!value(i) = Stuck!value(c)
      /\ a > 1 => Stuck!value(a - 1) # Stuck!value(a)
      /\ c > 1 => Stuck!value(c - 1) # Stuck!value(c)
      /\ b < L => Stuck!value(b + 1) # Stuck!value(a)
      /\ d < L => Stuck!value(d + 1) # Stuck!value(c)
  BY DEF Stuck!IsStreak
<1>2. Stuck!value(a) = Stuck!value(c)
  BY <1>1
<1>3. ~(a < c)
  <2> SUFFICES ASSUME a < c PROVE FALSE
    OBVIOUS
  <2>1. c - 1 \in a .. b /\ c > 1
    OBVIOUS
  <2> QED
    BY <1>1, <1>2, <2>1
<1>4. ~(c < a)
  <2> SUFFICES ASSUME c < a PROVE FALSE
    OBVIOUS
  <2>1. a - 1 \in c .. d /\ a > 1
    OBVIOUS
  <2> QED
    BY <1>1, <1>2, <2>1
<1>5. ~(b < d)
  <2> SUFFICES ASSUME b < d PROVE FALSE
    OBVIOUS
  <2>1. b + 1 \in c .. d /\ b < L
    OBVIOUS
  <2> QED
    BY <1>1, <1>2, <2>1
<1>6. ~(d < b)
  <2> SUFFICES ASSUME d < b PROVE FALSE
    OBVIOUS
  <2>1. d + 1 \in a .. b /\ d < L
    OBVIOUS
  <2> QED
    BY <1>1, <1>2, <2>1
<1> QED
  BY <1>3, <1>4, <1>5, <1>6

(* Once the streak first .. last has ended it is one more of those before. *)
LEMMA OneMoreStreak ==
  ASSUME NEW L \in Nat, Len(station) = L, Stuck!Obs = 1 .. L,
         NEW a \in Stuck!Obs, NEW b \in Stuck!Obs, Stuck!IsStreak(a, b)
  PROVE  LongBefore(b + 1) = LongBefore(a) \cup {i \in a .. b : Stuck!TooLong(a, b)}
<1>1. a <= b
  BY DEF Stuck!IsStreak
<1>2. ASSUME NEW i \in LongBefore(b + 1), i \notin LongBefore(a)
      PROVE  i \in a .. b /\ Stuck!TooLong(a, b)
  <2>1. PICK c, d \in Stuck!Obs :
          i \in c .. d /\ d < b + 1 /\ Stuck!IsStreak(c, d) /\ Stuck!TooLong(c, d)
    BY DEF LongBefore
  <2>2. d \in a .. b
    BY <1>2, <2>1 DEF LongBefore
  <2>3. d \in c .. d
    BY <2>1
  <2>4. a = c /\ b = d
    BY <2>1, <2>2, <2>3, StreaksAreApart
  <2> QED
    BY <2>1, <2>4
<1>3. LongBefore(a) \subseteq LongBefore(b + 1)
  BY <1>1 DEF LongBefore
<1>4. \A i \in a .. b : Stuck!TooLong(a, b) => i \in LongBefore(b + 1)
  BY DEF LongBefore
<1> QED
  BY <1>2, <1>3, <1>4

(* A single observation is never too many: more than one are tolerated.     *)
LEMMA SingleTolerated ==
  ASSUME Stuck!StuckAssumption, station \in Stations, stuckOptions \in StuckOptions, NEW i \in Nat
  PROVE  ~Stuck!TooLong(i, i)
<1>1. stuckOptions.numberStuckTolerance \in Nat \ {0} /\ stuckOptions.percentageStuckTolerance \in 0 .. 100
      /\ stuckOptions.byPercentage \in BOOLEAN
  BY DEF Stuck!StuckAssumption
<1>2. Stuck!NumberStuckTolerance \in Int
  <2>1. Stuck!Rounded(stuckOptions.percentageStuckTolerance) \in Int
    <3>1. stuckOptions.percentageStuckTolerance \in Int
      BY <1>1
    <3>2. Len(station) \in Int
      BY StationLength
    <3>3. stuckOptions.percentageStuckTolerance * Len(station) \in Int
      BY <3>1, <3>2
    <3> QED
      BY <3>3 DEF Stuck!Rounded
  <2> QED
    BY <1>1, <2>1 DEF Stuck!NumberStuckTolerance
<1>3. stuckOptions.byPercentage \/ Stuck!NumberStuckTolerance >= 1
  BY <1>1 DEF Stuck!NumberStuckTolerance
<1>4. i - i + 1 = 1
  OBVIOUS
<1> QED
  BY <1>2, <1>3, <1>4 DEF Stuck!TooLong

(* Before the end nothing of the current streak has been judged.           *)
LEMMA StreakGoesOn ==
  ASSUME StreakInv, NEW L \in Nat, Len(station) = L,
         NEW n \in 2 .. L, n = observationIndex, NEW f, f = firstSameValueIndex
  PROVE  /\ f \in 1 .. n - 1 /\ previousObservationValue = Stuck!value(f)
         /\ \A i \in f .. n - 1 : Stuck!value(i) = Stuck!value(f)
         /\ f > 1 => Stuck!value(f - 1) # Stuck!value(f)
         /\ isRejected = LongBefore(f)
<1>1. n > 1 /\ n # L + 1
  OBVIOUS
<1>2. {i \in f .. L : n = L + 1 /\ Stuck!TooLong(f, L)} = {}
  BY <1>1
<1> QED
  BY <1>1, <1>2 DEF StreakInv

LEMMA InitStuckInv == Stuck!StuckAssumption /\ Stuck!Init => StuckInv
<1> SUFFICES ASSUME Stuck!StuckAssumption, Stuck!Init PROVE StuckInv
  OBVIOUS
<1>1. station \in Stations /\ Len(station) \in Nat \ {0, 1}
  BY StationLength DEF Stuck!Init
<1> QED
  BY <1>1 DEF Stuck!Init, StuckInv, StreakInv

LEMMA NextStuckInv ==
  Stuck!StuckAssumption /\ StuckInv /\ [Stuck!Next]_(Stuck!vars) => StuckInv'
<1> SUFFICES ASSUME Stuck!StuckAssumption, StuckInv, [Stuck!Next]_(Stuck!vars) PROVE StuckInv'
  OBVIOUS
<1>1. station' = station /\ stuckOptions' = stuckOptions
  BY DEF Stuck!Next, Stuck!SkipMissing, Stuck!Start, Stuck!SameValue, Stuck!NewValue,
         Stuck!Stopped, Stuck!Continue, Stuck!vars
<1>2. /\ Stuck!Obs' = Stuck!Obs /\ \A i : Stuck!value(i)' = Stuck!value(i)
      /\ \A a, b : Stuck!TooLong(a, b)' = Stuck!TooLong(a, b)
      /\ \A a, b : Stuck!IsStreak(a, b)' = Stuck!IsStreak(a, b)
  BY <1>1 DEF Stuck!Obs, Stuck!value, Stuck!TooLong, Stuck!NumberStuckTolerance, Stuck!Rounded,
              Stuck!IsStreak
<1>3. /\ AllPresent' = AllPresent /\ \A k : LongBefore(k)' = LongBefore(k)
  BY <1>1, <1>2 DEF AllPresent, LongBefore, Stuck!Missing
<1>4. SUFFICES ASSUME AllPresent PROVE StreakInv'
  BY <1>1, <1>3 DEF StuckInv
<1> DEFINE n == observationIndex
           f == firstSameValueIndex
           L == Len(station)
<1>5. L \in Nat \ {0, 1} /\ Stuck!Obs = 1 .. L
  BY StationLength DEF StuckInv
<1>6. StreakInv
  BY <1>4 DEF StuckInv
<1>7. CASE Stuck!SkipMissing
  BY <1>4, <1>7 DEF Stuck!SkipMissing, AllPresent
<1>8. CASE Stuck!Start
  <2>1. /\ n = 1 /\ n' = 2 /\ f' = 1 /\ f = 1 /\ isRejected' = {} /\ previousObservationValue' = Stuck!value(1)
    BY <1>6, <1>8 DEF Stuck!Start, Stuck!Continue, StreakInv
  <2>2. LongBefore(1) = {}
    BY <1>5 DEF LongBefore
  <2>3. /\ n' \in 1 .. L + 1 /\ n' # 1 /\ n' # L + 1
        /\ f' \in 1 .. n' - 1 /\ \A i \in f' .. n' - 1 : i = f'
    <3>1. 2 \in 1 .. L + 1 /\ 2 # L + 1 /\ 2 - 1 = 1
      BY <1>5
    <3>2. 1 \in 1 .. 1 /\ \A i \in 1 .. 1 : i = 1
      OBVIOUS
    <3> QED
      BY <2>1, <3>1, <3>2
  <2> QED
    BY <1>1, <1>2, <1>3, <2>1, <2>2, <2>3 DEF StreakInv
<1>9. CASE Stuck!SameValue
  <2>1. /\ n \in 2 .. L /\ n' = n + 1 /\ f' = f /\ previousObservationValue' = previousObservationValue
        /\ Stuck!value(n) = previousObservationValue
        /\ isRejected' = isRejected \cup {i \in f .. n : n = L /\ Stuck!TooLong(f, n)}
    BY <1>5, <1>9 DEF Stuck!SameValue, Stuck!Continue, Stuck!RejectStreak
  <2>2. /\ f \in 1 .. n - 1 /\ previousObservationValue = Stuck!value(f)
        /\ \A i \in f .. n - 1 : Stuck!value(i) = Stuck!value(f)
        /\ f > 1 => Stuck!value(f - 1) # Stuck!value(f)
        /\ isRejected = LongBefore(f)
    BY <1>5, <1>6, <2>1, StreakGoesOn
  <2>3. \A i \in f .. n : Stuck!value(i) = Stuck!value(f)
    BY <1>5, <2>1, <2>2
  <2>4. isRejected' = LongBefore(f) \cup {i \in f .. L : n + 1 = L + 1 /\ Stuck!TooLong(f, L)}
    BY <1>5, <2>1, <2>2
  <2>5. n' \in 1 .. L + 1 /\ n' > 1 /\ f \in 1 .. n' - 1 /\ n' - 1 = n
    BY <1>5, <2>1, <2>2
  <2> QED
    BY <1>1, <1>2, <1>3, <2>1, <2>2, <2>3, <2>4, <2>5 DEF StreakInv
<1>10. CASE Stuck!NewValue
  <2>1. /\ n \in 2 .. L /\ n' = n + 1 /\ f' = n /\ previousObservationValue' = Stuck!value(n)
        /\ Stuck!value(n) # previousObservationValue
        /\ isRejected' = isRejected \cup {i \in f .. n - 1 : Stuck!TooLong(f, n - 1)}
    BY <1>5, <1>10 DEF Stuck!NewValue, Stuck!Continue, Stuck!RejectStreak
  <2>2. /\ f \in 1 .. n - 1 /\ previousObservationValue = Stuck!value(f)
        /\ \A i \in f .. n - 1 : Stuck!value(i) = Stuck!value(f)
        /\ f > 1 => Stuck!value(f - 1) # Stuck!value(f)
        /\ isRejected = LongBefore(f)
    BY <1>5, <1>6, <2>1, StreakGoesOn
  <2>3. f \in Stuck!Obs /\ n - 1 \in Stuck!Obs /\ n - 1 + 1 = n
    BY <1>5, <2>1, <2>2
  <2>4. Stuck!IsStreak(f, n - 1)
    BY <2>1, <2>2, <2>3 DEF Stuck!IsStreak
  <2>5. LongBefore(n) = LongBefore(f) \cup {i \in f .. n - 1 : Stuck!TooLong(f, n - 1)}
    BY <1>5, <2>3, <2>4, OneMoreStreak
  <2>6. ~Stuck!TooLong(L, L)
    BY <1>5, SingleTolerated DEF StuckInv
  <2>7. isRejected' = LongBefore(n) \cup {i \in n .. L : n + 1 = L + 1 /\ Stuck!TooLong(n, L)}
    BY <1>5, <2>1, <2>2, <2>5, <2>6
  <2>8. /\ n' \in 1 .. L + 1 /\ n' > 1 /\ n \in 1 .. n' - 1 /\ n' - 1 = n
        /\ \A i \in n .. n : i = n
    BY <1>5, <2>1
  <2>9. n > 1 => Stuck!value(n - 1) # Stuck!value(n)
    BY <2>1, <2>2
  <2> QED
    BY <1>1, <1>2, <1>3, <2>1, <2>7, <2>8, <2>9 DEF StreakInv
<1>11. CASE UNCHANGED Stuck!vars
  BY <1>1, <1>2, <1>3, <1>6, <1>11 DEF StreakInv, Stuck!vars
<1> QED
  BY <1>7, <1>8, <1>9, <1>10, <1>11 DEF Stuck!Next, Stuck!Stopped

(* In a station of any length without missing values exactly the streaks    *)
(* that are too long are rejected, each as a whole                         *)
(* (StuckCheck::potentiallyRejectStreak).                                  *)
THEOREM LongStreaksRejected ==
  Stuck!StuckAssumption /\ Stuck!Spec => []StreaksRejected
<1>1. Stuck!StuckAssumption /\ StuckInv => StreaksRejected
  <2> SUFFICES ASSUME Stuck!StuckAssumption, StuckInv, Stuck!Done, AllPresent
               PROVE  isRejected = UNION {s[1] .. s[2] : s \in
                        {s \in Stuck!Obs \X Stuck!Obs :
                           Stuck!IsStreak(s[1], s[2]) /\ Stuck!TooLong(s[1], s[2])}}
    BY DEF StreaksRejected, Stuck!StreaksRejected, AllPresent
  <2> DEFINE L == Len(station)
             f == firstSameValueIndex
             Long == {s \in Stuck!Obs \X Stuck!Obs :
                        Stuck!IsStreak(s[1], s[2]) /\ Stuck!TooLong(s[1], s[2])}
  <2>1. L \in Nat \ {0, 1} /\ Stuck!Obs = 1 .. L
    BY StationLength DEF StuckInv
  <2>2. StreakInv /\ observationIndex = L + 1
    BY <2>1 DEF StuckInv, StreakInv, Stuck!Done
  <2>3. /\ f \in Stuck!Obs /\ \A i \in f .. L : Stuck!value(i) = Stuck!value(f)
        /\ f > 1 => Stuck!value(f - 1) # Stuck!value(f)
        /\ isRejected = LongBefore(f) \cup {i \in f .. L : Stuck!TooLong(f, L)}
    BY <2>1, <2>2 DEF StreakInv
  <2>4. Stuck!IsStreak(f, L) /\ L \in Stuck!Obs
    BY <2>1, <2>3 DEF Stuck!IsStreak
  <2>5. isRejected = LongBefore(L + 1)
    BY <2>1, <2>3, <2>4, OneMoreStreak
  <2>6. \A i : i \in LongBefore(L + 1) <=> \E s \in Long : i \in s[1] .. s[2]
    <3>1. ASSUME NEW i \in LongBefore(L + 1) PROVE \E s \in Long : i \in s[1] .. s[2]
      <4>1. PICK a, b \in Stuck!Obs : i \in a .. b /\ Stuck!IsStreak(a, b) /\ Stuck!TooLong(a, b)
        BY DEF LongBefore
      <4>2. <<a, b>> \in Long
        BY <4>1
      <4> QED
        BY <4>1, <4>2
    <3>2. ASSUME NEW s \in Long, NEW i \in s[1] .. s[2] PROVE i \in LongBefore(L + 1)
      <4>1. /\ s[1] \in 1 .. L /\ s[2] \in 1 .. L /\ i \in 1 .. L /\ s[2] < L + 1
            /\ Stuck!IsStreak(s[1], s[2]) /\ Stuck!TooLong(s[1], s[2])
        BY <2>1
      <4> QED
        BY <2>1, <4>1 DEF LongBefore
    <3> QED
      BY <3>1, <3>2
  <2> QED
    BY <2>5, <2>6
<1>2. Stuck!StuckAssumption => Stuck!StuckAssumption'
  BY DEF Stuck!StuckAssumption
<1> QED
  BY InitStuckInv, NextStuckInv, <1>1, <1>2, PTL DEF Stuck!Spec

-----------------------------------------------------------------------------
(* TrackCheckShip.                                                         *)

(* t lists K in ascending order.                                           *)
Ascending(t, K) ==
  /\ t \in Seq(Ship!Obs)
  /\ \A k, l \in 1 .. Len(t) : k < l => t[k] < t[l]
  /\ \A i : i \in K <=> \E k \in 1 .. Len(t) : t[k] = i

Statistics == [distance : Int, speed : Int, distanceAveraged : Int, speedAveraged : Int,
               angle : {0, 180}]

(* What the loop relies on: the segment that ends at an observation has the *)
(* speed that is recorded with it, and two segments that are long enough    *)
(* meet at the recorded angle.                                             *)
UpToDate(s, t, k) ==
  /\ k = 1 => s = Ship!NoStatistics
  /\ k > 1 => s.speed = Ship!SpeedEstimate(t[k - 1], t[k])
  /\ k > 1 /\ k < Len(t) /\ Ship!HasAngle(t[k - 1], t[k], t[k + 1])
       => s.angle = Ship!Angle(t[k - 1], t[k], t[k + 1])

AllUpToDate == \A k \in 1 .. Len(shipTrack) : UpToDate(stats[shipTrack[k]], shipTrack, k)

LoopInv == Ascending(shipTrack, Ship!Kept) /\ AllUpToDate

(* The loop has ended by itself, and not all observations were rejected.    *)
LoopEnded == LoopInv /\ (Len(shipTrack) < 3 \/ Ship!SlowEnough(Ship!Fastest))

ShipInv ==
  /\ obs \in ShipTracks /\ shipOptions \in ShipOptions
  /\ stats \in [Ship!Obs -> Statistics]
  /\ shipPc = "start" => Ascending(shipTrack, Ship!Kept) /\ shipRejected = {}
  /\ shipPc = "loop"  => LoopInv
  /\ shipPc = "done"  => \/ shipRejected = {} /\ shipOptions.earlyBreakCheck
                         \/ Ship!Kept = {}
                         \/ LoopEnded

LEMMA SeqElements ==
  ASSUME NEW S, NEW s \in Seq(S)
  PROVE  Len(s) \in Nat /\ DOMAIN s = 1 .. Len(s) /\ \A k \in 1 .. Len(s) : s[k] \in S
  OBVIOUS

LEMMA ShipInputs ==
  ASSUME Ship!ShipAssumption, obs \in ShipTracks, shipOptions \in ShipOptions
  PROVE  /\ Len(obs) \in Nat /\ Ship!Obs = 1 .. Len(obs)
         /\ \A i \in Ship!Obs : obs[i].time \in Int /\ obs[i].position \in Int
         /\ Scale \in Nat
         /\ shipOptions.maxSpeed \in Nat \ {0} /\ shipOptions.spatialResolution \in Nat
         /\ shipOptions.temporalResolution \in Nat \ {0}
         /\ shipOptions.earlyBreakCheck \in BOOLEAN
<1>1. obs \in Seq([time : Int, position : Int])
  BY DEF Ship!ShipAssumption
<1>2. Len(obs) \in Nat /\ DOMAIN obs = 1 .. Len(obs)
  BY <1>1
<1>3. \A i \in Ship!Obs : obs[i] \in [time : Int, position : Int]
  <2>1. \A i \in 1 .. Len(obs) : obs[i] \in [time : Int, position : Int]
    BY <1>1, SeqElements
  <2> QED
    BY <1>2, <2>1 DEF Ship!Obs
<1> QED
  BY <1>2, <1>3 DEF Ship!Obs, Ship!ShipAssumption

LEMMA SpeedIsInteger ==
  ASSUME Ship!ShipAssumption, obs \in ShipTracks, shipOptions \in ShipOptions,
         NEW i \in Ship!Obs, NEW j \in Ship!Obs
  PROVE  Ship!Distance(i, j) \in Int /\ Ship!SpeedEstimate(i, j) \in Int
<1> DEFINE d == Ship!Distance(i, j)
           w == 2 * Ship!Larger(Ship!Time(i, j), shipOptions.temporalResolution)
<1>1. d \in Int
  BY ShipInputs DEF Ship!Distance, Ship!Abs
<1>2. Ship!Time(i, j) \in Int
  BY ShipInputs DEF Ship!Time, Ship!Abs
<1>3. w \in Int /\ w > 0
  BY <1>2, ShipInputs DEF Ship!Larger
<1> HIDE DEF d, w
<1>4. Scale \div w \in Int
  BY <1>3, ShipInputs
<1>5. (2 * d - shipOptions.spatialResolution) \in Int
  BY <1>1, ShipInputs
<1>6. (2 * d - shipOptions.spatialResolution) * (Scale \div w) \in Int
  BY <1>4, <1>5
<1>7. Ship!SpeedEstimate(i, j) \in {0, (2 * d - shipOptions.spatialResolution) * (Scale \div w)}
  BY DEF Ship!SpeedEstimate, d, w
<1> QED
  BY <1>1, <1>6, <1>7 DEF d

LEMMA AscendingIndices ==
  ASSUME NEW K, NEW t, Ascending(t, K), NEW k \in 1 .. Len(t), NEW l \in 1 .. Len(t), t[k] = t[l],
         Ship!Obs \subseteq Int
  PROVE  k = l
<1>1. Len(t) \in Nat /\ t[k] \in Int /\ t[l] \in Int
  <2>1. t \in Seq(Ship!Obs)
    BY DEF Ascending
  <2>2. Len(t) \in Nat /\ t[k] \in Ship!Obs /\ t[l] \in Ship!Obs
    BY <2>1, SeqElements
  <2> QED
    BY <2>2
<1>2. ~(k < l) /\ ~(l < k)
  BY <1>1 DEF Ascending
<1> QED
  BY <1>1, <1>2

(* calculateTrackSegmentProperties brings all of a track up to date.        *)
LEMMA Recalculated ==
  ASSUME Ship!ShipAssumption, obs \in ShipTracks, shipOptions \in ShipOptions,
         stats \in [Ship!Obs -> Statistics],
         NEW K, NEW t, Ascending(t, K), NEW new, new = Ship!TrackSegmentProperties(t)
  PROVE  /\ new \in [Ship!Obs -> Statistics]
         /\ \A k \in 1 .. Len(t) : UpToDate(new[t[k]], t, k)
<1>1. /\ Ship!Obs \subseteq Int /\ Len(t) \in Nat /\ DOMAIN t = 1 .. Len(t)
      /\ \A k \in 1 .. Len(t) : t[k] \in Ship!Obs
  BY ShipInputs DEF Ascending
<1>2. ASSUME NEW s \in Statistics, NEW k \in 1 .. Len(t)
      PROVE  Ship!Calculated(s, t, k) \in Statistics /\ UpToDate(Ship!Calculated(s, t, k), t, k)
  <2>1. CASE k = 1
    <3>1. Ship!Calculated(s, t, k) = Ship!NoStatistics
      BY <2>1 DEF Ship!Calculated
    <3>2. Ship!NoStatistics \in Statistics
      BY DEF Ship!NoStatistics, Statistics
    <3> QED
      BY <2>1, <3>1, <3>2 DEF UpToDate
  <2>2. CASE k > 1
    <3> DEFINE two == Ship!TwoObservationValues(s, t, k)
               three == Ship!ThreeObservationValues(two, t, k)
    <3>1. t[k - 1] \in Ship!Obs /\ t[k] \in Ship!Obs
      BY <1>1, <2>2
    <3>2. two \in Statistics /\ two.speed = Ship!SpeedEstimate(t[k - 1], t[k])
      BY <3>1, SpeedIsInteger DEF Statistics, Ship!TwoObservationValues
    <3>3. k < Len(t) => /\ three \in Statistics /\ three.speed = two.speed
                        /\ Ship!HasAngle(t[k - 1], t[k], t[k + 1])
                             => three.angle = Ship!Angle(t[k - 1], t[k], t[k + 1])
      <4> SUFFICES ASSUME k < Len(t)
                   PROVE  /\ three \in Statistics /\ three.speed = two.speed
                          /\ Ship!HasAngle(t[k - 1], t[k], t[k + 1])
                               => three.angle = Ship!Angle(t[k - 1], t[k], t[k + 1])
        OBVIOUS
      <4>1. t[k + 1] \in Ship!Obs
        BY <1>1
      <4>2. /\ Ship!Distance(t[k - 1], t[k + 1]) \in Int
            /\ Ship!SpeedEstimate(t[k - 1], t[k + 1]) \in Int
            /\ Ship!Angle(t[k - 1], t[k], t[k + 1]) \in {0, 180}
        BY <3>1, <4>1, SpeedIsInteger DEF Ship!Angle
      <4> HIDE DEF two
      <4> QED
        BY <3>2, <4>2 DEF Statistics, Ship!ThreeObservationValues
    <3>4. Ship!Calculated(s, t, k) = IF k < Len(t) THEN three ELSE two
      BY <2>2 DEF Ship!Calculated
    <3> HIDE DEF two, three
    <3> QED
      BY <2>2, <3>2, <3>3, <3>4 DEF UpToDate
  <2> QED
    BY <1>1, <2>1, <2>2
<1>3. \A i \in Ship!Obs : stats[i] \in Statistics
  OBVIOUS
<1>4. \A k \in 1 .. Len(t) : new[t[k]] = Ship!Calculated(stats[t[k]], t, k)
  <2> TAKE k \in 1 .. Len(t)
  <2>1. (CHOOSE l \in DOMAIN t : t[l] = t[k]) = k
    BY <1>1, AscendingIndices
  <2> QED
    BY <1>1, <2>1 DEF Ship!TrackSegmentProperties
<1>5. ASSUME NEW i \in Ship!Obs PROVE new[i] \in Statistics
  <2>1. CASE \E k \in DOMAIN t : t[k] = i
    BY <1>1, <1>2, <1>3, <1>4, <2>1
  <2>2. CASE ~\E k \in DOMAIN t : t[k] = i
    BY <1>3, <2>2 DEF Ship!TrackSegmentProperties
  <2> QED
    BY <2>1, <2>2
<1>6. new = [i \in Ship!Obs |-> new[i]]
  BY DEF Ship!TrackSegmentProperties
<1> QED
  BY <1>1, <1>2, <1>3, <1>4, <1>5, <1>6

(* k is the place of the first of the largest of f[1] .. f[m].              *)
FirstLargest(f, m, k) == \A l \in 1 .. m : f[l] <= f[k] /\ (l < k => f[l] < f[k])
HasLargest(f, m) == \E k \in 1 .. m : FirstLargest(f, m, k)

LEMMA LargestExists ==
  ASSUME NEW n \in Nat, NEW f \in [1 .. n -> Int], n # 0
  PROVE  HasLargest(f, n)
<1> DEFINE S == {m \in 1 .. n : ~HasLargest(f, m)}
<1> SUFFICES ASSUME S # {} PROVE FALSE
  OBVIOUS
<1>1. S \in SUBSET Nat
  OBVIOUS
<1>2. PICK m \in S : \A y \in S : m <= y
  <2> HIDE DEF S
  <2> QED
    BY <1>1, LeastIsMember
<1>3. m \in 1 .. n /\ ~HasLargest(f, m) /\ \A y \in 1 .. n : y < m => HasLargest(f, y)
  BY <1>2
<1> HIDE DEF S
<1>4. m # 1
  <2>1. HasLargest(f, 1)
    <3>1. 1 \in 1 .. 1 /\ \A l \in 1 .. 1 : l = 1
      OBVIOUS
    <3>2. f[1] \in Int
      BY <1>3
    <3> QED
      BY <3>1, <3>2 DEF HasLargest, FirstLargest
  <2> QED
    BY <1>3, <2>1
<1>5. m - 1 \in 1 .. n /\ m - 1 < m
  BY <1>3, <1>4
<1>6. PICK k \in 1 .. m - 1 : \A l \in 1 .. m - 1 : f[l] <= f[k] /\ (l < k => f[l] < f[k])
  BY <1>3, <1>5 DEF HasLargest, FirstLargest
<1>7. k \in 1 .. m /\ f[k] \in Int /\ f[m] \in Int /\ m \in 1 .. m
  BY <1>3, <1>6
<1>8. \A l \in 1 .. m : l # m => l \in 1 .. m - 1
  BY <1>3
<1>9. \A l \in 1 .. m : f[l] \in Int
  BY <1>3
<1>10. CASE f[m] <= f[k]
  <2>1. FirstLargest(f, m, k)
    <3> SUFFICES ASSUME NEW l \in 1 .. m PROVE f[l] <= f[k] /\ (l < k => f[l] < f[k])
      BY DEF FirstLargest
    <3>1. ~(m < k)
      BY <1>3, <1>6
    <3> QED
      BY <1>6, <1>8, <1>10, <3>1
  <2> QED
    BY <1>3, <1>7, <2>1 DEF HasLargest
<1>11. CASE f[k] < f[m]
  <2>1. FirstLargest(f, m, m)
    <3> SUFFICES ASSUME NEW l \in 1 .. m PROVE f[l] <= f[m] /\ (l < m => f[l] < f[m])
      BY DEF FirstLargest
    <3>1. l # m => f[l] <= f[k]
      BY <1>6, <1>8
    <3> QED
      BY <1>3, <1>7, <1>9, <1>11, <3>1
  <2> QED
    BY <1>3, <1>7, <2>1 DEF HasLargest
<1> QED
  BY <1>7, <1>10, <1>11

LEMMA FastestExists ==
  ASSUME Ship!ShipAssumption, obs \in ShipTracks, stats \in [Ship!Obs -> Statistics],
         LoopInv, Len(shipTrack) # 0
  PROVE  Ship!Fastest \in 1 .. Len(shipTrack) /\ Ship!IsFastest(Ship!Fastest)
<1> DEFINE n == Len(shipTrack)
           f == [k \in 1 .. n |-> stats[shipTrack[k]].speed]
<1>1. /\ n \in Nat /\ DOMAIN shipTrack = 1 .. n
      /\ \A k \in 1 .. n : shipTrack[k] \in Ship!Obs
  BY SeqElements DEF LoopInv, Ascending
<1>2. f \in [1 .. n -> Int]
  BY <1>1 DEF Statistics
<1> HIDE DEF n
<1>3. HasLargest(f, n)
  <2> HIDE DEF f
  <2> QED
    BY <1>1, <1>2, LargestExists DEF n
<1>4. PICK k \in 1 .. n : Ship!IsFastest(k)
  <2>1. \A l \in 1 .. n : Ship!At(l).speed = f[l]
    BY DEF Ship!At
  <2> QED
    BY <1>1, <1>3, <2>1 DEF Ship!IsFastest, HasLargest, FirstLargest
<1> QED
  BY <1>1, <1>4 DEF Ship!Fastest, n

(* A segment that is not slow enough does not end at the first observation. *)
LEMMA FastestIsSegment ==
  ASSUME Ship!ShipAssumption, obs \in ShipTracks, shipOptions \in ShipOptions,
         LoopInv, NEW k \in 1 .. Len(shipTrack), ~Ship!SlowEnough(k)
  PROVE  k > 1
<1> SUFFICES ASSUME k = 1 PROVE FALSE
  OBVIOUS
<1>1. UpToDate(stats[shipTrack[k]], shipTrack, k)
  BY DEF LoopInv, AllUpToDate
<1>2. Ship!At(k).speed = 0
  BY <1>1 DEF UpToDate, Ship!NoStatistics, Ship!At
<1> QED
  BY <1>2, ShipInputs DEF Ship!SlowEnough

LEMMA FaultyInTrack ==
  ASSUME NEW n \in Nat, NEW k \in 2 .. n
  PROVE  Ship!Faulty(k) \subseteq 1 .. n
  BY DEF Ship!Faulty

LEMMA SameCardinality == \A S : Ship!Cardinality(S) = Cardinality(S)
  BY DEF Ship!Cardinality, Cardinality

(* What is not removed, in the order it had.                                *)
LEMMA WithoutFaulty ==
  ASSUME Ship!Obs \subseteq Int, NEW K, NEW t, Ascending(t, K), NEW F \in SUBSET (1 .. Len(t))
  PROVE  Ascending(Ship!Without(t, F), K \ {t[k] : k \in F})
<1> DEFINE kept == DOMAIN t \ F
           n == Cardinality(kept)
           rank == [k \in kept |-> Cardinality({l \in kept : l <= k})]
           new == Ship!Without(t, F)
           at == [m \in 1 .. n |-> CHOOSE k \in kept : rank[k] = m]
<1>1. Len(t) \in Nat /\ DOMAIN t = 1 .. Len(t) /\ \A k \in 1 .. Len(t) : t[k] \in Ship!Obs
  BY SeqElements DEF Ascending
<1>2. kept \subseteq 1 .. Len(t) /\ IsFiniteSet(kept) /\ n \in Nat /\ \A k \in kept : k \in Int
  <2>1. kept \subseteq 1 .. Len(t)
    BY <1>1
  <2>2. IsFiniteSet(1 .. Len(t))
    BY <1>1, FS_Interval
  <2> HIDE DEF kept
  <2>3. IsFiniteSet(kept)
    BY <2>1, <2>2, FS_Subset
  <2> QED
    BY <2>1, <2>3, FS_CardinalityType
<1> HIDE DEF kept
<1>3. kept \in SUBSET Int
  BY <1>2
<1> HIDE DEF rank
<1>4. RankFacts(kept, rank)
  BY <1>2, <1>3, Ranks DEF rank
<1>5. rank \in [kept -> 1 .. n]
  BY <1>4 DEF RankFacts
<1>6. /\ \A k, m \in kept : rank[k] = rank[m] => k = m
      /\ \A k, m \in kept : k < m => rank[k] < rank[m]
  BY <1>4 DEF RankFacts
<1>7. \A m \in 1 .. n : \E k \in kept : rank[k] = m
  BY <1>4 DEF RankFacts
<1>8. \A m \in 1 .. n : at[m] \in kept /\ rank[at[m]] = m
  BY <1>7
<1>9. new = [m \in 1 .. n |-> t[at[m]]]
  <2> DEFINE order(k) == Ship!Cardinality({l \in kept : l <= k})
  <2>1. new = [m \in 1 .. Ship!Cardinality(kept) |-> t[CHOOSE k \in kept : order(k) = m]]
    BY DEF Ship!Without, kept
  <2>2. Ship!Cardinality(kept) = n /\ \A k \in kept : order(k) = rank[k]
    BY SameCardinality DEF rank
  <2> HIDE DEF order, n
  <2>3. \A m : (CHOOSE k \in kept : order(k) = m) = CHOOSE k \in kept : rank[k] = m
    <3> TAKE m
    <3>1. \A k : k \in kept /\ order(k) = m <=> k \in kept /\ rank[k] = m
      BY <2>2
    <3> QED
      BY <3>1
  <2>4. \A m \in 1 .. n : at[m] = CHOOSE k \in kept : order(k) = m
    BY <2>3 DEF n
  <2> HIDE DEF new, at
  <2> QED
    BY <2>1, <2>2, <2>4
<1> HIDE DEF at, new
<1>10. new \in Seq(Ship!Obs) /\ Len(new) = n
  <2>1. new \in [1 .. n -> Ship!Obs] /\ n \in Nat
    BY <1>1, <1>2, <1>8, <1>9
  <2> HIDE DEF n
  <2>2. new \in Seq(Ship!Obs) /\ DOMAIN new = 1 .. n
    BY <2>1
  <2> QED
    BY <2>1, <2>2
<1>11. \A k, m \in 1 .. n : k < m => new[k] < new[m]
  <2> TAKE k, m \in 1 .. n
  <2> HAVE k < m
  <2>1. ~(at[m] <= at[k])
    <3>1. at[k] \in Int /\ at[m] \in Int /\ rank[at[k]] = k /\ rank[at[m]] = m
      BY <1>2, <1>8
    <3> QED
      BY <1>6, <1>8, <3>1
  <2>2. at[k] \in 1 .. Len(t) /\ at[m] \in 1 .. Len(t) /\ at[k] < at[m]
    <3>1. at[k] \in kept /\ at[m] \in kept
      BY <1>8
    <3>2. /\ at[k] \in 1 .. Len(t) /\ at[m] \in 1 .. Len(t)
          /\ at[k] \in Int /\ at[m] \in Int
      BY <1>2, <3>1
    <3> QED
      BY <2>1, <3>2
  <2> QED
    BY <1>9, <2>2 DEF Ascending
<1>12. \A i : i \in K \ {t[k] : k \in F} <=> \E k \in 1 .. n : new[k] = i
  <2>1. \A i : i \in K \ {t[k] : k \in F} <=> \E k \in kept : t[k] = i
    <3>1. \A i : i \in K <=> \E k \in 1 .. Len(t) : t[k] = i
      BY DEF Ascending
    <3>2. \A k \in kept : t[k] \notin {t[l] : l \in F}
      BY <1>1, AscendingIndices DEF kept
    <3> QED
      BY <1>1, <3>1, <3>2 DEF kept
  <2>2. \A k \in kept : rank[k] \in 1 .. n /\ at[rank[k]] = k
    BY <1>5, <1>6, <1>8
  <2>3. \A i : (\E k \in kept : t[k] = i) <=> \E m \in 1 .. n : new[m] = i
    <3>1. \A k \in kept : new[rank[k]] = t[k]
      BY <1>9, <2>2
    <3>2. \A m \in 1 .. n : new[m] = t[at[m]]
      BY <1>9
    <3> HIDE DEF n
    <3> QED
      BY <1>8, <2>2, <3>1, <3>2
  <2> QED
    BY <2>1, <2>3
<1> QED
  BY <1>10, <1>11, <1>12 DEF Ascending, new

-----------------------------------------------------------------------------
(* The steps of TrackCheckShip.                                            *)

LEMMA InitShipInv == Ship!ShipAssumption /\ Ship!Init => ShipInv
<1> SUFFICES ASSUME Ship!ShipAssumption, Ship!Init PROVE ShipInv
  OBVIOUS
<1>1. obs \in ShipTracks /\ shipOptions \in ShipOptions /\ shipPc = "start" /\ shipRejected = {}
      /\ shipTrack = [k \in Ship!Obs |-> k] /\ stats = [i \in Ship!Obs |-> Ship!NoStatistics]
  BY DEF Ship!Init
<1>2. stats \in [Ship!Obs -> Statistics]
  BY <1>1 DEF Ship!NoStatistics, Statistics
<1>3. Ascending(shipTrack, Ship!Kept)
  <2> DEFINE n == Len(obs)
  <2>1. n \in Nat /\ Ship!Obs = 1 .. n
    BY <1>1, ShipInputs
  <2> HIDE DEF n
  <2>2. shipTrack \in [1 .. n -> Ship!Obs]
    BY <1>1, <2>1
  <2>3. shipTrack \in Seq(Ship!Obs) /\ Len(shipTrack) = n
    <3>1. shipTrack \in Seq(Ship!Obs) /\ DOMAIN shipTrack = 1 .. n
      BY <2>1, <2>2
    <3> QED
      BY <2>1, <3>1
  <2>4. Ship!Kept = 1 .. n
    BY <1>1, <2>1 DEF Ship!Kept
  <2> QED
    BY <1>1, <2>1, <2>3, <2>4 DEF Ascending
<1> QED
  BY <1>1, <1>2, <1>3 DEF ShipInv

LEMMA NextShipInv ==
  Ship!ShipAssumption /\ ShipInv /\ [Ship!Next]_(Ship!vars) => ShipInv'
<1> SUFFICES ASSUME Ship!ShipAssumption, ShipInv, [Ship!Next]_(Ship!vars) PROVE ShipInv'
  OBVIOUS
<1>1. obs' = obs /\ shipOptions' = shipOptions
  BY DEF Ship!Next, Ship!FirstIteration, Ship!RemoveFaultyObservation, Ship!EndLoop,
         Ship!Stopped, Ship!vars
<1>2. /\ Ship!Obs' = Ship!Obs
      /\ \A i, j : Ship!SpeedEstimate(i, j)' = Ship!SpeedEstimate(i, j)
      /\ \A i, j, k : /\ Ship!HasAngle(i, j, k)' = Ship!HasAngle(i, j, k)
                      /\ Ship!Angle(i, j, k)' = Ship!Angle(i, j, k)
  BY <1>1 DEF Ship!Obs, Ship!SpeedEstimate, Ship!Distance, Ship!Time, Ship!HasAngle, Ship!Angle
<1>3. \A t, K : Ascending(t, K)' = Ascending(t, K)
  BY <1>2 DEF Ascending
<1>4. \A s, t, k : UpToDate(s, t, k)' = UpToDate(s, t, k)
  BY <1>2 DEF UpToDate, Ship!NoStatistics
<1>5. /\ obs \in ShipTracks /\ shipOptions \in ShipOptions /\ stats \in [Ship!Obs -> Statistics]
      /\ Ship!Obs \subseteq Int
  BY ShipInputs DEF ShipInv
<1>6. CASE Ship!FirstIteration
  <2>1. /\ shipPc = "start" /\ shipTrack' = shipTrack /\ shipRejected' = shipRejected
        /\ stats' = Ship!TrackSegmentProperties(shipTrack)
        /\ shipPc' = "loop" \/ (shipPc' = "done" /\ shipOptions.earlyBreakCheck)
    BY <1>6 DEF Ship!FirstIteration
  <2>2. Ascending(shipTrack, Ship!Kept) /\ shipRejected = {} /\ Ship!Kept' = Ship!Kept
    BY <1>2, <2>1 DEF ShipInv, Ship!Kept
  <2>3. /\ stats' \in [Ship!Obs -> Statistics]
        /\ \A k \in 1 .. Len(shipTrack) : UpToDate(stats'[shipTrack[k]], shipTrack, k)
    BY <1>5, <2>1, <2>2, Recalculated
  <2>4. LoopInv'
    BY <1>3, <1>4, <2>1, <2>2, <2>3 DEF LoopInv, AllUpToDate
  <2> QED
    BY <1>1, <1>2, <1>5, <2>1, <2>2, <2>3, <2>4 DEF ShipInv
<1>7. CASE Ship!RemoveFaultyObservation
  <2> DEFINE k == Ship!Fastest
             F == Ship!Faulty(k)
  <2>1. /\ shipPc = "loop" /\ shipPc' = "loop" /\ Len(shipTrack) >= 3 /\ ~Ship!SlowEnough(k)
        /\ shipRejected' = shipRejected \cup {shipTrack[l] : l \in F}
        /\ shipTrack' = Ship!Without(shipTrack, F)
        /\ stats' = Ship!TrackSegmentProperties(shipTrack')
    BY <1>7 DEF Ship!RemoveFaultyObservation
  <2>2. LoopInv /\ Ascending(shipTrack, Ship!Kept) /\ Len(shipTrack) \in Nat
    <3>1. LoopInv
      BY <2>1 DEF ShipInv
    <3> QED
      BY <3>1, SeqElements DEF LoopInv, Ascending
  <2>3. k \in 1 .. Len(shipTrack)
    BY <1>5, <2>1, <2>2, FastestExists
  <2> HIDE DEF k
  <2>4. k > 1
    BY <1>5, <2>1, <2>2, <2>3, FastestIsSegment
  <2>5. F \subseteq 1 .. Len(shipTrack)
    <3>1. k \in 2 .. Len(shipTrack)
      BY <2>2, <2>3, <2>4
    <3> QED
      BY <2>2, <3>1, FaultyInTrack
  <2> HIDE DEF F
  <2>6. Ascending(shipTrack', Ship!Kept \ {shipTrack[l] : l \in F})
    BY <1>5, <2>1, <2>2, <2>5, WithoutFaulty
  <2>7. Ship!Kept' = Ship!Kept \ {shipTrack[l] : l \in F}
    BY <1>2, <2>1 DEF Ship!Kept
  <2>8. /\ stats' \in [Ship!Obs -> Statistics]
        /\ \A l \in 1 .. Len(shipTrack') : UpToDate(stats'[shipTrack'[l]], shipTrack', l)
    <3> DEFINE new == shipTrack'
    <3>1. Ascending(new, Ship!Kept') /\ stats' = Ship!TrackSegmentProperties(new)
      BY <2>1, <2>6, <2>7
    <3> HIDE DEF new
    <3>2. /\ stats' \in [Ship!Obs -> Statistics]
          /\ \A l \in 1 .. Len(new) : UpToDate(stats'[new[l]], new, l)
      BY <1>5, <3>1, Recalculated
    <3> QED
      BY <3>2 DEF new
  <2>9. LoopInv'
    BY <1>3, <1>4, <2>6, <2>7, <2>8 DEF LoopInv, AllUpToDate
  <2> QED
    BY <1>1, <1>2, <1>5, <2>1, <2>8, <2>9 DEF ShipInv
<1>8. CASE Ship!EndLoop
  <2>1. /\ shipPc = "loop" /\ shipPc' = "done" /\ shipTrack' = shipTrack /\ stats' = stats
        /\ Len(shipTrack) < 3 \/ Ship!SlowEnough(Ship!Fastest)
        /\ shipRejected' \in {Ship!Obs, shipRejected}
    BY <1>8 DEF Ship!EndLoop
  <2>2. LoopInv
    BY <2>1 DEF ShipInv
  <2>3. CASE shipRejected' = Ship!Obs
    <3>1. Ship!Kept' = {}
      BY <1>2, <2>3 DEF Ship!Kept
    <3> QED
      BY <1>1, <1>2, <1>5, <2>1, <3>1 DEF ShipInv
  <2>4. CASE shipRejected' = shipRejected
    <3>1. Ship!Kept' = Ship!Kept
      BY <1>2, <2>4 DEF Ship!Kept
    <3>2. LoopInv'
      BY <1>3, <1>4, <2>1, <2>2, <3>1 DEF LoopInv, AllUpToDate
    <3>3. (Len(shipTrack) < 3 \/ Ship!SlowEnough(Ship!Fastest))'
      <4>1. \A k : Ship!SlowEnough(k)' = Ship!SlowEnough(k)
        BY <1>1, <2>1 DEF Ship!SlowEnough, Ship!At
      <4>2. Ship!Fastest' = Ship!Fastest
        BY <2>1 DEF Ship!Fastest, Ship!IsFastest, Ship!At
      <4> QED
        BY <2>1, <4>1, <4>2
    <3> QED
      BY <1>1, <1>2, <1>5, <2>1, <3>2, <3>3 DEF ShipInv, LoopEnded
  <2> QED
    BY <2>1, <2>3, <2>4
<1>9. CASE UNCHANGED Ship!vars
  <2>1. /\ shipPc' = shipPc /\ shipTrack' = shipTrack /\ stats' = stats /\ shipRejected' = shipRejected
    BY <1>9 DEF Ship!vars
  <2>2. Ship!Kept' = Ship!Kept
    BY <1>2, <2>1 DEF Ship!Kept
  <2>3. LoopInv' = LoopInv
    BY <1>3, <1>4, <2>1, <2>2 DEF LoopInv, AllUpToDate
  <2>4. LoopEnded' = LoopEnded
    <3>1. \A k : Ship!SlowEnough(k)' = Ship!SlowEnough(k)
      BY <1>1, <2>1 DEF Ship!SlowEnough, Ship!At
    <3>2. Ship!Fastest' = Ship!Fastest
      BY <2>1 DEF Ship!Fastest, Ship!IsFastest, Ship!At
    <3> QED
      BY <2>1, <2>3, <3>1, <3>2 DEF LoopEnded
  <2> QED
    BY <1>1, <1>2, <1>3, <1>5, <2>1, <2>2, <2>3, <2>4 DEF ShipInv
<1> QED
  BY <1>6, <1>7, <1>8, <1>9 DEF Ship!Next, Ship!Stopped

(* Consecutive observations of what is kept are neighbours in the track.    *)
LEMMA ConsecutiveInTrack ==
  ASSUME Ship!Obs \subseteq Int, Ascending(shipTrack, Ship!Kept), NEW i, NEW j, Ship!Consecutive(i, j)
  PROVE  \E k \in 1 .. Len(shipTrack) - 1 : shipTrack[k] = i /\ shipTrack[k + 1] = j
<1>1. /\ Len(shipTrack) \in Nat
      /\ \A k \in 1 .. Len(shipTrack) : shipTrack[k] \in Int /\ shipTrack[k] \in Ship!Kept
      /\ \A k, l \in 1 .. Len(shipTrack) : k < l => shipTrack[k] < shipTrack[l]
  BY SeqElements DEF Ascending
<1>2. i < j /\ \A k \in Ship!Kept : k <= i \/ k >= j
  BY DEF Ship!Consecutive
<1>3. PICK k \in 1 .. Len(shipTrack) : shipTrack[k] = i
  BY DEF Ship!Consecutive, Ascending
<1>4. PICK l \in 1 .. Len(shipTrack) : shipTrack[l] = j
  BY DEF Ship!Consecutive, Ascending
<1>5. k < l
  <2>1. ~(l < k) /\ l # k
    BY <1>1, <1>2, <1>3, <1>4
  <2> QED
    BY <1>1, <2>1
<1>6. ~(k + 1 < l)
  <2> SUFFICES ASSUME k + 1 < l PROVE FALSE
    OBVIOUS
  <2>1. k + 1 \in 1 .. Len(shipTrack) /\ k < k + 1
    BY <1>1
  <2>2. i < shipTrack[k + 1] /\ shipTrack[k + 1] < j
    BY <1>1, <1>3, <1>4, <2>1
  <2> QED
    BY <1>1, <1>2, <1>3, <1>4, <2>1, <2>2
<1> QED
  BY <1>1, <1>3, <1>4, <1>5, <1>6

LEMMA NeighboursAreConsecutive ==
  ASSUME Ship!Obs \subseteq Int, Ascending(shipTrack, Ship!Kept),
         NEW k \in 1 .. Len(shipTrack) - 1
  PROVE  Ship!Consecutive(shipTrack[k], shipTrack[k + 1])
<1>1. /\ Len(shipTrack) \in Nat
      /\ \A l \in 1 .. Len(shipTrack) : shipTrack[l] \in Int /\ shipTrack[l] \in Ship!Kept
      /\ \A l, m \in 1 .. Len(shipTrack) : l < m => shipTrack[l] < shipTrack[m]
  BY SeqElements DEF Ascending
<1>2. k \in 1 .. Len(shipTrack) /\ k + 1 \in 1 .. Len(shipTrack) /\ k < k + 1
  BY <1>1
<1>3. ASSUME NEW i \in Ship!Kept PROVE i <= shipTrack[k] \/ i >= shipTrack[k + 1]
  <2>1. PICK l \in 1 .. Len(shipTrack) : shipTrack[l] = i
    BY DEF Ascending
  <2>2. l <= k \/ l >= k + 1
    BY <1>2, <2>1
  <2>3. /\ l < k => shipTrack[l] < shipTrack[k]
        /\ k + 1 < l => shipTrack[k + 1] < shipTrack[l]
        /\ shipTrack[l] \in Int /\ shipTrack[k] \in Int /\ shipTrack[k + 1] \in Int
    BY <1>1, <1>2, <2>1
  <2>4. l < k \/ l = k \/ l = k + 1 \/ k + 1 < l
    BY <1>1, <1>2, <2>1, <2>2
  <2> QED
    BY <2>1, <2>3, <2>4
<1> QED
  BY <1>1, <1>2, <1>3 DEF Ship!Consecutive

LEMMA TrackHasAll ==
  ASSUME Ship!Obs \subseteq Int, NEW K, NEW t, Ascending(t, K)
  PROVE  Cardinality(K) <= Len(t)
<1>1. Len(t) \in Nat /\ DOMAIN t = 1 .. Len(t) /\ \A k \in 1 .. Len(t) : t[k] \in K
  BY SeqElements DEF Ascending
<1>2. t = [k \in 1 .. Len(t) |-> t[k]]
  BY SeqElements DEF Ascending
<1>3. t \in [1 .. Len(t) -> K]
  BY <1>1, <1>2
<1>4. \A i \in K : \E k \in 1 .. Len(t) : t[k] = i
  BY DEF Ascending
<1>5. t \in Surjection(1 .. Len(t), K)
  BY <1>3, <1>4 DEF Surjection
<1>6. IsFiniteSet(1 .. Len(t)) /\ Cardinality(1 .. Len(t)) = Len(t)
  BY <1>1, FS_Interval
<1> QED
  BY <1>5, <1>6, FS_Surjection

(* What the end of the loop says of the segment between the k-th and the    *)
(* next observation of the track.                                          *)
LEMMA SegmentIsSlow ==
  ASSUME Ship!ShipAssumption, obs \in ShipTracks, shipOptions \in ShipOptions,
         stats \in [Ship!Obs -> Statistics], LoopInv, Ship!SlowEnough(Ship!Fastest),
         NEW k \in 1 .. Len(shipTrack) - 1
  PROVE  /\ Ship!SpeedEstimate(shipTrack[k], shipTrack[k + 1]) = Ship!At(k + 1).speed
         /\ Ship!At(k + 1).speed \in Int
         /\ Ship!At(k + 1).speed <= Ship!At(Ship!Fastest).speed
         /\ Ship!At(k + 1).speed < shipOptions.maxSpeed
<1> DEFINE F == Ship!Fastest
<1>1. /\ Len(shipTrack) \in Nat /\ DOMAIN shipTrack = 1 .. Len(shipTrack)
      /\ \A l \in 1 .. Len(shipTrack) : shipTrack[l] \in Ship!Obs
  BY SeqElements DEF LoopInv, Ascending
<1>2. k + 1 \in 1 .. Len(shipTrack) /\ k + 1 > 1 /\ (k + 1) - 1 = k
  BY <1>1
<1>3. F \in 1 .. Len(shipTrack) /\ Ship!IsFastest(F)
  BY <1>1, <1>2, FastestExists
<1> HIDE DEF F
<1>4. Ship!At(k + 1).speed = Ship!SpeedEstimate(shipTrack[k], shipTrack[k + 1])
  <2>1. UpToDate(stats[shipTrack[k + 1]], shipTrack, k + 1)
    BY <1>2 DEF LoopInv, AllUpToDate
  <2> QED
    BY <1>2, <2>1 DEF UpToDate, Ship!At
<1>5. \A l \in 1 .. Len(shipTrack) : Ship!At(l).speed \in Int
  BY <1>1 DEF Statistics, Ship!At
<1>6. Ship!At(k + 1).speed <= Ship!At(F).speed
  BY <1>1, <1>2, <1>3 DEF Ship!IsFastest
<1>7. Ship!At(F).speed < shipOptions.maxSpeed
  <2>1. Ship!SlowEnough(F)
    BY DEF F
  <2>2. 10 * Ship!At(F).speed <= 8 * shipOptions.maxSpeed \/ Ship!At(F).speed < shipOptions.maxSpeed
    BY <2>1 DEF Ship!SlowEnough
  <2>3. Ship!At(F).speed \in Int /\ shipOptions.maxSpeed \in Nat \ {0}
    BY <1>3, <1>5, ShipInputs
  <2> QED
    BY <2>2, <2>3
<1>8. Ship!At(F).speed \in Int /\ Ship!At(k + 1).speed \in Int /\ shipOptions.maxSpeed \in Int
  BY <1>2, <1>3, <1>5, ShipInputs
<1> QED
  BY <1>4, <1>6, <1>7, <1>8 DEF F

(* If the segment is the fastest of all, it is slow or the track does not   *)
(* turn back at either of its ends.                                        *)
LEMMA FastestTurnsNot ==
  ASSUME Ship!ShipAssumption, obs \in ShipTracks, shipOptions \in ShipOptions,
         stats \in [Ship!Obs -> Statistics], LoopInv, Ship!SlowEnough(Ship!Fastest),
         NEW k \in 1 .. Len(shipTrack) - 1,
         \A l \in 1 .. Len(shipTrack) - 1 :
           l # k => Ship!SpeedEstimate(shipTrack[l], shipTrack[l + 1])
                      < Ship!SpeedEstimate(shipTrack[k], shipTrack[k + 1])
  PROVE  \/ Ship!Slowest80(shipTrack[k], shipTrack[k + 1])
         \/ /\ k > 1 => ~Ship!TurnsBack(shipTrack[k - 1], shipTrack[k], shipTrack[k + 1])
            /\ k + 1 < Len(shipTrack)
                 => ~Ship!TurnsBack(shipTrack[k], shipTrack[k + 1], shipTrack[k + 2])
<1> DEFINE F == Ship!Fastest
<1>1. /\ Len(shipTrack) \in Nat /\ DOMAIN shipTrack = 1 .. Len(shipTrack)
      /\ \A l \in 1 .. Len(shipTrack) : shipTrack[l] \in Ship!Obs
  BY SeqElements DEF LoopInv, Ascending
<1>2. k \in 1 .. Len(shipTrack) /\ k + 1 \in 1 .. Len(shipTrack)
  BY <1>1
<1>3. F \in 1 .. Len(shipTrack) /\ Ship!IsFastest(F) /\ Ship!SlowEnough(F)
  BY <1>1, <1>2, FastestExists
<1> HIDE DEF F
<1>4. /\ \A l \in 1 .. Len(shipTrack) - 1 :
           /\ Ship!SpeedEstimate(shipTrack[l], shipTrack[l + 1]) = Ship!At(l + 1).speed
           /\ Ship!At(l + 1).speed \in Int
           /\ Ship!At(l + 1).speed <= Ship!At(F).speed
  BY SegmentIsSlow DEF F
<1>5. CASE F = 1
  <2>1. UpToDate(stats[shipTrack[F]], shipTrack, F)
    BY <1>3 DEF LoopInv, AllUpToDate
  <2>2. Ship!At(F).speed = 0
    BY <1>5, <2>1 DEF UpToDate, Ship!NoStatistics, Ship!At
  <2>3. Ship!At(k + 1).speed \in Int /\ Ship!At(k + 1).speed <= 0
    BY <1>4, <2>2
  <2>4. 10 * Ship!At(k + 1).speed <= 8 * shipOptions.maxSpeed
    BY <2>3, ShipInputs
  <2> QED
    BY <1>4, <2>4 DEF Ship!Slowest80
<1>6. CASE F # 1
  <2>1. F - 1 \in 1 .. Len(shipTrack) - 1 /\ (F - 1) + 1 = F
    BY <1>1, <1>3, <1>6
  <2>2. F - 1 = k
    <3> SUFFICES ASSUME F - 1 # k PROVE FALSE
      OBVIOUS
    <3>1. Ship!At(F).speed < Ship!At(k + 1).speed
      BY <1>4, <2>1
    <3>2. Ship!At(F).speed \in Int /\ Ship!At(k + 1).speed \in Int
      BY <1>4, <2>1
    <3> QED
      BY <1>4, <3>1, <3>2
  <2>3. F = k + 1
    BY <1>3, <2>2
  <2>4. \/ 10 * Ship!At(k + 1).speed <= 8 * shipOptions.maxSpeed
        \/ Ship!Larger(Ship!At(k).angle, Ship!At(k + 1).angle) <= 90
    BY <1>3, <2>2, <2>3 DEF Ship!SlowEnough
  <2>5. CASE 10 * Ship!At(k + 1).speed <= 8 * shipOptions.maxSpeed
    BY <1>4, <2>5 DEF Ship!Slowest80
  <2>6. CASE Ship!Larger(Ship!At(k).angle, Ship!At(k + 1).angle) <= 90
    <3>1. Ship!At(k).angle \in {0, 180} /\ Ship!At(k + 1).angle \in {0, 180}
      BY <1>1, <1>2 DEF Ship!At, Statistics
    <3>2. Ship!At(k).angle = 0 /\ Ship!At(k + 1).angle = 0
      BY <2>6, <3>1 DEF Ship!Larger
    <3>3. /\ UpToDate(stats[shipTrack[k]], shipTrack, k)
          /\ UpToDate(stats[shipTrack[k + 1]], shipTrack, k + 1)
      BY <1>2 DEF LoopInv, AllUpToDate
    <3>4. k < Len(shipTrack) /\ k + 1 > 1 /\ (k + 1) - 1 = k /\ (k + 1) + 1 = k + 2
      BY <1>1
    <3>5. ASSUME k > 1 PROVE ~Ship!TurnsBack(shipTrack[k - 1], shipTrack[k], shipTrack[k + 1])
      BY <3>2, <3>3, <3>4, <3>5 DEF UpToDate, Ship!TurnsBack, Ship!At
    <3>6. ASSUME k + 1 < Len(shipTrack)
          PROVE  ~Ship!TurnsBack(shipTrack[k], shipTrack[k + 1], shipTrack[k + 2])
      BY <3>2, <3>3, <3>4, <3>6 DEF UpToDate, Ship!TurnsBack, Ship!At
    <3> QED
      BY <3>5, <3>6
  <2> QED
    BY <2>4, <2>5, <2>6
<1> QED
  BY <1>5, <1>6

(* FastSegmentsRemoved: although the statistics are updated in place, what  *)
(* the loop sees of the track it keeps is what times and positions say, so  *)
(* that no fast segment is left.                                           *)
THEOREM FastSegmentsAreRemoved ==
  Ship!ShipAssumption /\ Ship!Spec => []FastSegmentsRemoved
<1>1. Ship!ShipAssumption /\ ShipInv => FastSegmentsRemoved
  <2> SUFFICES ASSUME Ship!ShipAssumption, ShipInv, shipPc = "done",
                      Ship!Cardinality(Ship!Kept) >= 3,
                      shipRejected # {} \/ ~shipOptions.earlyBreakCheck,
                      NEW i \in Ship!Kept, NEW j \in Ship!Kept, Ship!Consecutive(i, j)
               PROVE  /\ Ship!SpeedEstimate(i, j) < shipOptions.maxSpeed
                      /\ (\A a, b \in Ship!Kept : Ship!Consecutive(a, b) =>
                             \/ Ship!SpeedEstimate(a, b) < Ship!SpeedEstimate(i, j)
                             \/ <<a, b>> = <<i, j>>)
                           => \/ Ship!Slowest80(i, j)
                              \/ \A k \in Ship!Kept :
                                   /\ Ship!Consecutive(k, i) => ~Ship!TurnsBack(k, i, j)
                                   /\ Ship!Consecutive(j, k) => ~Ship!TurnsBack(i, j, k)
    BY DEF FastSegmentsRemoved, Ship!FastSegmentsRemoved
  <2>1. Cardinality(Ship!Kept) >= 3
    BY SameCardinality
  <2>2. /\ obs \in ShipTracks /\ shipOptions \in ShipOptions /\ stats \in [Ship!Obs -> Statistics]
        /\ Ship!Obs \subseteq Int
    BY ShipInputs DEF ShipInv
  <2>3. LoopEnded
    <3>1. Ship!Kept # {}
      BY <2>1, FS_EmptySet
    <3> QED
      BY <3>1 DEF ShipInv
  <2>4. Ascending(shipTrack, Ship!Kept) /\ Len(shipTrack) \in Nat
    BY <2>3, SeqElements DEF LoopEnded, LoopInv, Ascending
  <2>5. Ship!SlowEnough(Ship!Fastest) /\ LoopInv
    <3>1. Cardinality(Ship!Kept) <= Len(shipTrack)
      BY <2>2, <2>4, TrackHasAll
    <3>2. Cardinality(Ship!Kept) \in Nat
      <4>1. IsFiniteSet(1 .. Len(obs))
        BY <2>2, ShipInputs, FS_Interval
      <4>2. Ship!Kept \subseteq 1 .. Len(obs)
        BY <2>2, ShipInputs DEF Ship!Kept
      <4> QED
        BY <4>1, <4>2, FS_Subset, FS_CardinalityType
    <3>3. ~(Len(shipTrack) < 3)
      BY <2>1, <2>4, <3>1, <3>2
    <3> QED
      BY <2>3, <3>3 DEF LoopEnded
  <2>6. PICK k \in 1 .. Len(shipTrack) - 1 : shipTrack[k] = i /\ shipTrack[k + 1] = j
    BY <2>2, <2>4, ConsecutiveInTrack
  <2>7. Ship!SpeedEstimate(i, j) < shipOptions.maxSpeed
    BY <2>2, <2>5, <2>6, SegmentIsSlow
  <2>8. ASSUME \A a, b \in Ship!Kept : Ship!Consecutive(a, b) =>
                 \/ Ship!SpeedEstimate(a, b) < Ship!SpeedEstimate(i, j)
                 \/ <<a, b>> = <<i, j>>
        PROVE  \/ Ship!Slowest80(i, j)
               \/ \A m \in Ship!Kept :
                    /\ Ship!Consecutive(m, i) => ~Ship!TurnsBack(m, i, j)
                    /\ Ship!Consecutive(j, m) => ~Ship!TurnsBack(i, j, m)
    <3>1. ASSUME NEW l \in 1 .. Len(shipTrack) - 1, l # k
          PROVE  Ship!SpeedEstimate(shipTrack[l], shipTrack[l + 1]) < Ship!SpeedEstimate(i, j)
      <4>1. Ship!Consecutive(shipTrack[l], shipTrack[l + 1])
        BY <2>2, <2>4, NeighboursAreConsecutive
      <4>2. l \in 1 .. Len(shipTrack) /\ k \in 1 .. Len(shipTrack)
        BY <2>4, <2>6
      <4>3. shipTrack[l] # i
        BY <2>2, <2>4, <2>6, <3>1, <4>2, AscendingIndices
      <4> QED
        BY <2>8, <4>1, <4>3 DEF Ship!Consecutive
    <3>2. \/ Ship!Slowest80(i, j)
          \/ /\ k > 1 => ~Ship!TurnsBack(shipTrack[k - 1], i, j)
             /\ k + 1 < Len(shipTrack) => ~Ship!TurnsBack(i, j, shipTrack[k + 2])
      BY <2>2, <2>5, <2>6, <3>1, FastestTurnsNot
    <3>3. ASSUME NEW m \in Ship!Kept, Ship!Consecutive(m, i)
          PROVE  k > 1 /\ m = shipTrack[k - 1]
      <4>1. PICK l \in 1 .. Len(shipTrack) - 1 : shipTrack[l] = m /\ shipTrack[l + 1] = i
        BY <2>2, <2>4, <3>3, ConsecutiveInTrack
      <4>2. l + 1 \in 1 .. Len(shipTrack) /\ k \in 1 .. Len(shipTrack)
        BY <2>4, <2>6, <4>1
      <4>3. l + 1 = k
        BY <2>2, <2>4, <2>6, <4>1, <4>2, AscendingIndices
      <4> QED
        BY <4>1, <4>3
    <3>4. ASSUME NEW m \in Ship!Kept, Ship!Consecutive(j, m)
          PROVE  k + 1 < Len(shipTrack) /\ m = shipTrack[k + 2]
      <4>1. PICK l \in 1 .. Len(shipTrack) - 1 : shipTrack[l] = j /\ shipTrack[l + 1] = m
        BY <2>2, <2>4, <3>4, ConsecutiveInTrack
      <4>2. l \in 1 .. Len(shipTrack) /\ k + 1 \in 1 .. Len(shipTrack)
        BY <2>4, <2>6, <4>1
      <4>3. l = k + 1
        BY <2>2, <2>4, <2>6, <4>1, <4>2, AscendingIndices
      <4> QED
        BY <2>4, <4>1, <4>3
    <3> QED
      BY <3>2, <3>3, <3>4
  <2> QED
    BY <2>7, <2>8
<1>2. Ship!ShipAssumption => Ship!ShipAssumption'
  BY DEF Ship!ShipAssumption
<1> QED
  BY InitShipInv, NextShipInv, <1>1, <1>2, PTL DEF Ship!Spec

-----------------------------------------------------------------------------
(* HistoryCheck.                                                           *)

Applied == History!WindowObs \cap scenario.apply

WindowIndex ==
  [l \in History!Labels(Applied, History!WindowObs) |->
     CHOOSE i \in Applied : History!Label(i, Applied, History!WindowObs) = l]

(* How far applyFilter is, and what it has by then.                         *)
HistoryInv ==
  /\ scenario \in Scenarios
  /\ wideFlagged \subseteq History!WiderObs
  /\ stage \in {"label window", "flag", "done"} =>
       wideFlaggedLocationIds = History!Labels(wideFlagged, History!WiderObs)
  /\ stage \in {"flag", "done"} => locationIdToIndex = WindowIndex
  /\ stage = "done" =>
       historyFlagged = {locationIdToIndex[l] : l \in wideFlaggedLocationIds \cap DOMAIN locationIdToIndex}

LEMMA InitHistoryInv == History!Init => HistoryInv
  BY DEF History!Init, HistoryInv

LEMMA NextHistoryInv == HistoryInv /\ [History!Next]_(History!vars) => HistoryInv'
<1> SUFFICES ASSUME HistoryInv, [History!Next]_(History!vars) PROVE HistoryInv'
  OBVIOUS
<1>1. scenario' = scenario
  BY DEF History!Next, History!TrackCheckShip, History!StuckCheck, History!SubFilter,
         History!LabelFlagged, History!LabelWindow, History!FlagCommon, History!Stopped, History!vars
<1>2. /\ WindowIndex' = WindowIndex /\ History!WiderObs' = History!WiderObs
      /\ \A S, obs_ : History!Labels(S, obs_)' = History!Labels(S, obs_)
  BY <1>1 DEF WindowIndex, Applied, History!WiderObs, History!WindowObs, History!ObsSpace, History!reports,
              History!Labels, History!Label, History!Identifier, History!stationId,
              History!RecordNumber, History!Names
<1>3. CASE History!TrackCheckShip \/ History!StuckCheck
  <2>1. /\ wideFlagged' \subseteq History!WiderObs
        /\ stage' \in {"stuck check", "label flagged"}
    BY <1>3 DEF History!TrackCheckShip, History!StuckCheck, History!SubFilter, HistoryInv
  <2> QED
    BY <1>1, <1>2, <2>1 DEF HistoryInv
<1>4. CASE History!LabelFlagged
  BY <1>1, <1>2, <1>4 DEF History!LabelFlagged, HistoryInv
<1>5. CASE History!LabelWindow
  <2>1. locationIdToIndex' = WindowIndex
    BY <1>5 DEF History!LabelWindow, WindowIndex, Applied
  <2> QED
    BY <1>1, <1>2, <1>5, <2>1 DEF History!LabelWindow, HistoryInv
<1>6. CASE History!FlagCommon
  BY <1>1, <1>2, <1>6 DEF History!FlagCommon, HistoryInv
<1>7. CASE UNCHANGED History!vars
  BY <1>1, <1>2, <1>7 DEF History!vars, HistoryInv
<1> QED
  BY <1>3, <1>4, <1>5, <1>6, <1>7 DEF History!Next, History!Stopped

LEMMA HistoryInputs ==
  ASSUME History!HistoryAssumption, scenario \in Scenarios
  PROVE  LET all == History!WindowObs \cup History!WiderObs IN
         /\ all \in SUBSET Int /\ IsFiniteSet(all)
         /\ \A i \in all : /\ History!reports[i].time \in Int
                           /\ History!reports[i].place \in Nat
                           /\ History!reports[i].station \in Nat
         /\ scenario.stationIds \in {"none", "records", "integer", "string"}
<1>1. /\ History!reports \in Seq([time : Int, place : Nat, station : Nat])
      /\ scenario.stationIds \in {"none", "records", "integer", "string"}
  BY DEF History!HistoryAssumption, History!reports, History!StationIds
<1> DEFINE n == Len(History!reports)
<1>2. /\ n \in Nat /\ DOMAIN History!reports = 1 .. n
      /\ \A i \in 1 .. n : History!reports[i] \in [time : Int, place : Nat, station : Nat]
  BY <1>1, SeqElements
<1>3. History!WindowObs \cup History!WiderObs \subseteq 1 .. n
  BY <1>2 DEF History!WindowObs, History!WiderObs, History!ObsSpace
<1> HIDE DEF n
<1>4. IsFiniteSet(1 .. n) /\ 1 .. n \subseteq Int
  BY <1>2, FS_Interval
<1> QED
  BY <1>1, <1>2, <1>3, <1>4, FS_Subset

(* Smaller numbers have smaller places among the members of a finite set.   *)
NumBelow(S, x) == Cardinality({n \in S : n < x})

LEMMA FewerBelow ==
  ASSUME NEW S \in SUBSET Int, IsFiniteSet(S), NEW a \in S, NEW b \in S,
         NumBelow(S, a) = NumBelow(S, b)
  PROVE  a = b
<1>1. \A x, y \in S : x < y => NumBelow(S, x) # NumBelow(S, y)
  <2> TAKE x, y \in S
  <2> HAVE x < y
  <2> DEFINE B == {n \in S : n < x}
             C == {n \in S : n < y}
  <2>1. B \subseteq C /\ x \in C /\ x \notin B
    <3>1. x \in Int /\ y \in Int /\ \A n \in S : n \in Int
      OBVIOUS
    <3>2. ~(x < x) /\ \A n \in S : n < x => n < y
      BY <3>1
    <3> QED
      BY <3>2
  <2>2. IsFiniteSet(C)
    BY FS_Subset
  <2> HIDE DEF B, C
  <2>3. Cardinality(B) # Cardinality(C)
    BY <2>1, <2>2, FS_Subset
  <2> QED
    BY <2>3 DEF B, C, NumBelow
<1>2. a \in Int /\ b \in Int
  OBVIOUS
<1>3. a < b \/ b < a \/ a = b
  BY <1>2
<1> QED
  BY <1>1, <1>3

LEMMA SameCardinalityOfHistory == \A S : History!Cardinality(S) = Cardinality(S)
  BY DEF History!Cardinality, Cardinality

(* Both obs spaces give a station the same number, unless it is that of a   *)
(* record, so that identifiers tell apart what is not identical.           *)
LEMMA IdentifiersAgree ==
  ASSUME History!HistoryAssumption, scenario \in Scenarios, scenario.stationIds # "records",
         NEW i \in History!WindowObs \cup History!WiderObs,
         NEW k \in History!WindowObs \cup History!WiderObs,
         NEW a, NEW b
  PROVE  History!Identifier(i, a) = History!Identifier(k, b) <=> History!Identical(i, k)
<1> DEFINE all == History!WindowObs \cup History!WiderObs
           S == History!Names(all)
           st == [m \in all |-> History!reports[m].station]
<1>1. /\ all \in SUBSET Int /\ IsFiniteSet(all) /\ st \in [all -> Nat]
      /\ scenario.stationIds \in {"none", "records", "integer", "string"}
  BY HistoryInputs
<1>2. S \in SUBSET Int /\ IsFiniteSet(S) /\ \A m \in all : History!reports[m].station \in S
  <2>1. S = {st[m] : m \in all}
    BY DEF History!Names
  <2> HIDE DEF all, st, S
  <2>2. st \in [all -> S] /\ \A x \in S : \E m \in all : st[m] = x
    BY <1>1, <2>1
  <2>3. st \in Surjection(all, S)
    BY <2>2 DEF Surjection
  <2>4. IsFiniteSet(S) /\ S \subseteq Int
    BY <1>1, <2>1, <2>3, FS_Surjection
  <2> QED
    BY <1>1, <2>2, <2>4 DEF st
<1> HIDE DEF S, st
<1>3. History!stationId(i, a) = History!stationId(k, b) <=>
        scenario.stationIds = "none" \/ History!reports[i].station = History!reports[k].station
  <2>1. CASE scenario.stationIds = "none"
    BY <2>1 DEF History!stationId
  <2>2. CASE scenario.stationIds = "integer"
    BY <2>2 DEF History!stationId
  <2>3. CASE scenario.stationIds = "string"
    <3>1. /\ History!stationId(i, a) = NumBelow(S, History!reports[i].station)
          /\ History!stationId(k, b) = NumBelow(S, History!reports[k].station)
      BY <2>3, SameCardinalityOfHistory DEF History!stationId, S, NumBelow
    <3>2. History!reports[i].station \in S /\ History!reports[k].station \in S
      BY <1>2
    <3>3. ASSUME NEW x \in S, NEW y \in S, NumBelow(S, x) = NumBelow(S, y) PROVE x = y
      BY <1>2, <3>3, FewerBelow
    <3> QED
      BY <2>3, <3>1, <3>2, <3>3
  <2> QED
    BY <1>1, <2>1, <2>2, <2>3
<1> QED
  BY <1>3 DEF History!Identifier, History!Identical

LEMMA LabelsEqual ==
  ASSUME NEW a, NEW b, NEW c, NEW d, NEW e, NEW f, NEW g, NEW h
  PROVE  Append(<<a, b, c>>, d) = Append(<<e, f, g>>, h) <=> <<a, b, c>> = <<e, f, g>> /\ d = h
<1> DEFINE S == {a, b, c, d, e, f, g, h}
<1>1. <<a, b, c>> \in Seq(S) /\ <<e, f, g>> \in Seq(S) /\ d \in S /\ h \in S
  OBVIOUS
<1> HIDE DEF S
<1> QED
  BY <1>1, AppendInjective

(* The counter of a label is that of its observation among its twins.       *)
LEMMA LabelOf ==
  ASSUME History!HistoryAssumption, scenario \in Scenarios, scenario.stationIds # "records",
         NEW all, all \in {History!WindowObs, History!WiderObs},
         NEW S \in SUBSET all, NEW i \in S
  PROVE  History!Label(i, S, all)
           = Append(History!Identifier(i, all), NumBelow(History!Twins(i, S), i))
<1>1. \A k \in S : /\ History!Identifier(k, all) = History!Identifier(i, all) <=> History!Identical(k, i)
                   /\ History!Identical(k, i) <=> History!Identical(i, k)
  BY IdentifiersAgree DEF History!Identical
<1>2. {k \in S : k < i /\ History!Identifier(k, all) = History!Identifier(i, all)}
        = {k \in History!Twins(i, S) : k < i}
  BY <1>1 DEF History!Twins
<1> QED
  BY <1>2, SameCardinalityOfHistory DEF History!Label, NumBelow

(* Labels of the same or of different obs spaces are equal if identical     *)
(* observations are the same number of places from the first of them.       *)
LEMMA LabelsAgree ==
  ASSUME History!HistoryAssumption, scenario \in Scenarios, scenario.stationIds # "records",
         NEW a, a \in {History!WindowObs, History!WiderObs}, NEW S \in SUBSET a, NEW i \in S,
         NEW b, b \in {History!WindowObs, History!WiderObs}, NEW T \in SUBSET b, NEW k \in T
  PROVE  History!Label(i, S, a) = History!Label(k, T, b)
           <=> /\ History!Identical(i, k)
               /\ NumBelow(History!Twins(i, S), i) = NumBelow(History!Twins(k, T), k)
<1>1. /\ History!Label(i, S, a) = Append(History!Identifier(i, a), NumBelow(History!Twins(i, S), i))
      /\ History!Label(k, T, b) = Append(History!Identifier(k, b), NumBelow(History!Twins(k, T), k))
  BY LabelOf
<1>2. Append(History!Identifier(i, a), NumBelow(History!Twins(i, S), i))
        = Append(History!Identifier(k, b), NumBelow(History!Twins(k, T), k))
      <=> /\ History!Identifier(i, a) = History!Identifier(k, b)
          /\ NumBelow(History!Twins(i, S), i) = NumBelow(History!Twins(k, T), k)
  BY LabelsEqual DEF History!Identifier
<1>3. History!Identifier(i, a) = History!Identifier(k, b) <=> History!Identical(i, k)
  BY IdentifiersAgree
<1> QED
  BY <1>1, <1>2, <1>3

LEMMA TwinsFinite ==
  ASSUME History!HistoryAssumption, scenario \in Scenarios, NEW i,
         NEW S, S \subseteq History!WindowObs \cup History!WiderObs
  PROVE  /\ S \in SUBSET Int /\ IsFiniteSet(S)
         /\ History!Twins(i, S) \in SUBSET Int /\ IsFiniteSet(History!Twins(i, S))
<1>1. S \in SUBSET Int /\ IsFiniteSet(S)
  BY HistoryInputs, FS_Subset
<1>2. History!Twins(i, S) \subseteq S
  BY DEF History!Twins
<1> QED
  BY <1>1, <1>2, FS_Subset

LEMMA TwinsShared ==
  ASSUME NEW i, NEW k, History!Identical(i, k), NEW S
  PROVE  /\ History!Twins(i, S) = History!Twins(k, S)
         /\ \A m : History!Identical(i, m) <=> History!Identical(k, m)
<1>1. \A m : History!Identical(i, m) <=> History!Identical(k, m)
  BY DEF History!Identical
<1> QED
  BY <1>1 DEF History!Twins

(* The number of those below is one less than the rank.                     *)
LEMMA BelowIsRank ==
  ASSUME NEW S \in SUBSET Int, IsFiniteSet(S)
  PROVE  RankFacts(S, [k \in S |-> NumBelow(S, k) + 1])
<1> DEFINE rank == [k \in S |-> Cardinality({l \in S : l <= k})]
<1>1. ASSUME NEW k \in S PROVE Cardinality({l \in S : l <= k}) = NumBelow(S, k) + 1
  <2> DEFINE B == {l \in S : l < k}
  <2>1. {l \in S : l <= k} = B \cup {k} /\ k \notin B
    <3>1. k \in Int /\ \A l \in S : l \in Int
      OBVIOUS
    <3>2. ~(k < k) /\ \A l \in S : l <= k <=> l < k \/ l = k
      BY <3>1
    <3> QED
      BY <3>2
  <2>2. IsFiniteSet(B)
    BY FS_Subset
  <2> HIDE DEF B
  <2>3. Cardinality(B \cup {k}) = Cardinality(B) + 1
    BY <2>1, <2>2, FS_AddElement
  <2> QED
    BY <2>1, <2>3 DEF B, NumBelow
<1>2. RankFacts(S, rank)
  BY Ranks
<1>3. rank = [k \in S |-> NumBelow(S, k) + 1]
  BY <1>1
<1> QED
  BY <1>2, <1>3

(* The same counters are given to the twins of an observation in S.         *)
LEMMA CountersFill ==
  ASSUME NEW S \in SUBSET Int, IsFiniteSet(S), NEW c
  PROVE  (\E k \in S : NumBelow(S, k) = c) <=> c \in 0 .. Cardinality(S) - 1
<1> DEFINE rank == [k \in S |-> NumBelow(S, k) + 1]
<1>1. RankFacts(S, rank)
  BY BelowIsRank
<1>2. Cardinality(S) \in Nat
  BY FS_CardinalityType
<1>3. ASSUME NEW k \in S PROVE NumBelow(S, k) \in Int /\ rank[k] = NumBelow(S, k) + 1
  <2>1. IsFiniteSet({n \in S : n < k})
    BY FS_Subset
  <2> QED
    BY <2>1, FS_CardinalityType DEF NumBelow
<1> HIDE DEF rank
<1>4. ASSUME NEW k \in S PROVE NumBelow(S, k) \in 0 .. Cardinality(S) - 1
  <2>1. rank[k] \in 1 .. Cardinality(S)
    BY <1>1 DEF RankFacts
  <2> QED
    BY <1>2, <1>3, <2>1
<1>5. ASSUME c \in 0 .. Cardinality(S) - 1 PROVE \E k \in S : NumBelow(S, k) = c
  <2>1. c + 1 \in 1 .. Cardinality(S)
    BY <1>2, <1>5
  <2>2. PICK k \in S : rank[k] = c + 1
    BY <1>1, <2>1 DEF RankFacts
  <2>3. NumBelow(S, k) = c
    BY <1>3, <1>5, <2>2
  <2> QED
    BY <2>3
<1> QED
  BY <1>4, <1>5

LEMMA CountersBelow ==
  ASSUME NEW S \in SUBSET Int, IsFiniteSet(S), NEW m \in Nat
  PROVE  Cardinality({k \in S : NumBelow(S, k) \in 0 .. m - 1})
           = IF m <= Cardinality(S) THEN m ELSE Cardinality(S)
<1> DEFINE rank == [k \in S |-> NumBelow(S, k) + 1]
<1>1. RankFacts(S, rank)
  BY BelowIsRank
<1>2. ASSUME NEW k \in S PROVE NumBelow(S, k) \in 0 .. m - 1 <=> rank[k] <= m
  <2>1. NumBelow(S, k) \in Nat
    <3>1. IsFiniteSet({n \in S : n < k})
      BY FS_Subset
    <3> QED
      BY <3>1, FS_CardinalityType DEF NumBelow
  <2> QED
    BY <2>1
<1>3. {k \in S : NumBelow(S, k) \in 0 .. m - 1} = {k \in S : rank[k] <= m}
  BY <1>2
<1> HIDE DEF rank
<1> QED
  BY <1>1, <1>3, FirstRanks

(* What is flagged in the window: the selected observations whose label is  *)
(* that of an observation flagged in the wider obs space.                  *)
LEMMA WhatIsFlagged ==
  ASSUME History!HistoryAssumption, HistoryInv, stage = "done", scenario.stationIds # "records"
  PROVE  /\ historyFlagged \subseteq Applied
         /\ \A i \in Applied :
              i \in historyFlagged <=>
                \E k \in wideFlagged :
                  /\ History!Identical(i, k)
                  /\ NumBelow(History!Twins(i, Applied), i)
                       = NumBelow(History!Twins(k, wideFlagged), k)
<1> DEFINE label(i) == History!Label(i, Applied, History!WindowObs)
           wide(k) == History!Label(k, wideFlagged, History!WiderObs)
<1>1. /\ scenario \in Scenarios /\ wideFlagged \subseteq History!WiderObs
      /\ Applied \subseteq History!WindowObs
      /\ wideFlaggedLocationIds = {wide(k) : k \in wideFlagged}
      /\ DOMAIN locationIdToIndex = {label(i) : i \in Applied}
      /\ \A l \in DOMAIN locationIdToIndex : locationIdToIndex[l] = CHOOSE i \in Applied : label(i) = l
      /\ historyFlagged = {locationIdToIndex[l] : l \in wideFlaggedLocationIds \cap DOMAIN locationIdToIndex}
  <2>1. locationIdToIndex = WindowIndex
    BY DEF HistoryInv
  <2>2. DOMAIN WindowIndex = {label(i) : i \in Applied}
    BY DEF WindowIndex, History!Labels
  <2>3. \A l \in DOMAIN WindowIndex : WindowIndex[l] = CHOOSE i \in Applied : label(i) = l
    BY DEF WindowIndex
  <2>4. wideFlaggedLocationIds = {wide(k) : k \in wideFlagged}
    BY DEF HistoryInv, History!Labels
  <2>5. Applied \subseteq History!WindowObs
    BY DEF Applied
  <2> HIDE DEF label, wide
  <2> QED
    BY <2>1, <2>2, <2>3, <2>4, <2>5 DEF HistoryInv
<1>2. ASSUME NEW i \in Applied, NEW k \in wideFlagged
      PROVE  label(i) = wide(k) <=>
               /\ History!Identical(i, k)
               /\ NumBelow(History!Twins(i, Applied), i) = NumBelow(History!Twins(k, wideFlagged), k)
  BY <1>1, LabelsAgree
<1>3. ASSUME NEW i \in Applied, NEW j \in Applied, label(i) = label(j) PROVE i = j
  <2> DEFINE T == History!Twins(i, Applied)
             rank == [k \in T |-> NumBelow(T, k) + 1]
  <2>1. History!Identical(i, j) /\ NumBelow(T, i) = NumBelow(History!Twins(j, Applied), j)
    BY <1>1, <1>3, LabelsAgree
  <2>2. History!Twins(j, Applied) = T
    BY <2>1, TwinsShared
  <2>3. i \in T /\ j \in T
    BY <2>1 DEF History!Twins, History!Identical
  <2>4. T \in SUBSET Int /\ IsFiniteSet(T)
    BY <1>1, TwinsFinite
  <2> HIDE DEF T
  <2>5. RankFacts(T, rank)
    BY <2>4, BelowIsRank
  <2>6. rank[i] = rank[j]
    BY <2>1, <2>2, <2>3
  <2> QED
    BY <2>3, <2>5, <2>6 DEF RankFacts
<1> HIDE DEF label, wide
<1>4. ASSUME NEW i \in Applied
      PROVE  label(i) \in DOMAIN locationIdToIndex /\ locationIdToIndex[label(i)] = i
  <2>1. label(i) \in DOMAIN locationIdToIndex
    BY <1>1
  <2>2. (CHOOSE j \in Applied : label(j) = label(i)) = i
    BY <1>3
  <2> QED
    BY <1>1, <2>1, <2>2
<1>5. historyFlagged = {i \in Applied : \E k \in wideFlagged : label(i) = wide(k)}
  <2>1. ASSUME NEW l \in wideFlaggedLocationIds \cap DOMAIN locationIdToIndex
        PROVE  /\ locationIdToIndex[l] \in Applied
               /\ \E k \in wideFlagged : label(locationIdToIndex[l]) = wide(k)
    <3>1. PICK i \in Applied : l = label(i)
      BY <1>1
    <3>2. PICK k \in wideFlagged : l = wide(k)
      BY <1>1
    <3> QED
      BY <1>4, <3>1, <3>2
  <2>2. ASSUME NEW i \in Applied, NEW k \in wideFlagged, label(i) = wide(k)
        PROVE  i \in historyFlagged
    <3>1. label(i) \in wideFlaggedLocationIds
      BY <1>1, <2>2
    <3> QED
      BY <1>1, <1>4, <3>1
  <2> QED
    BY <1>1, <2>1, <2>2
<1> QED
  BY <1>2, <1>5

(* FlagsCarriedOver: of identical observations of the window as many are    *)
(* flagged as in the wider obs space, as far as there are so many, although *)
(* the two obs spaces only share the labels.                               *)
THEOREM FlagsAreCarriedOver ==
  History!HistoryAssumption /\ History!Spec => []FlagsCarriedOver
<1>1. History!HistoryAssumption /\ HistoryInv => FlagsCarriedOver
  <2> SUFFICES ASSUME History!HistoryAssumption, HistoryInv, stage = "done",
                      scenario.stationIds # "records"
               PROVE  /\ historyFlagged \subseteq Applied
                      /\ \A i \in History!WindowObs : History!FlagsCarriedOverFor(i)
    BY DEF FlagsCarriedOver, History!FlagsCarriedOver, Applied
  <2>1. /\ scenario \in Scenarios
        /\ Applied \subseteq History!WindowObs \cup History!WiderObs
        /\ wideFlagged \subseteq History!WindowObs \cup History!WiderObs
    BY DEF HistoryInv, Applied
  <2>2. ASSUME NEW i \in History!WindowObs PROVE History!FlagsCarriedOverFor(i)
    <3> DEFINE T == History!Twins(i, Applied)
               W == History!Twins(i, wideFlagged)
    <3>1. T \in SUBSET Int /\ IsFiniteSet(T) /\ W \in SUBSET Int /\ IsFiniteSet(W)
      BY <2>1, TwinsFinite
    <3>2. Cardinality(W) \in Nat
      BY <3>1, FS_CardinalityType
    <3>3. ASSUME NEW j \in T PROVE j \in historyFlagged <=> NumBelow(T, j) \in 0 .. Cardinality(W) - 1
      <4>1. j \in Applied /\ History!Identical(i, j)
        BY DEF History!Twins
      <4>2. History!Twins(j, Applied) = T /\ \A m : History!Identical(i, m) <=> History!Identical(j, m)
        BY <4>1, TwinsShared
      <4>3. j \in historyFlagged <=>
              \E k \in wideFlagged : /\ History!Identical(j, k)
                                     /\ NumBelow(T, j) = NumBelow(History!Twins(k, wideFlagged), k)
        BY <4>1, <4>2, WhatIsFlagged
      <4>4. ASSUME NEW k \in wideFlagged, History!Identical(j, k)
            PROVE  k \in W /\ History!Twins(k, wideFlagged) = W
        BY <4>2, <4>4, TwinsShared DEF History!Twins
      <4>5. \A k \in W : k \in wideFlagged /\ History!Identical(j, k)
        BY <4>2 DEF History!Twins
      <4>6. j \in historyFlagged <=> \E k \in W : NumBelow(W, k) = NumBelow(T, j)
        <5> HIDE DEF T, W
        <5> QED
          BY <4>3, <4>4, <4>5
      <4> HIDE DEF T, W
      <4> QED
        BY <3>1, <4>6, CountersFill
    <3>4. History!Twins(i, historyFlagged) = {j \in T : NumBelow(T, j) \in 0 .. Cardinality(W) - 1}
      <4>1. History!Twins(i, historyFlagged) = {j \in T : j \in historyFlagged}
        BY WhatIsFlagged DEF History!Twins
      <4> HIDE DEF T, W
      <4> QED
        BY <3>3, <4>1
    <3> HIDE DEF T, W
    <3>5. Cardinality(History!Twins(i, historyFlagged))
            = IF Cardinality(W) <= Cardinality(T) THEN Cardinality(W) ELSE Cardinality(T)
      BY <3>1, <3>2, <3>4, CountersBelow
    <3> QED
      BY <3>5, SameCardinalityOfHistory DEF History!FlagsCarriedOverFor, T, W, Applied
  <2> QED
    BY <2>2, WhatIsFlagged
<1>2. History!HistoryAssumption => History!HistoryAssumption'
  BY DEF History!HistoryAssumption
<1> QED
  BY InitHistoryInv, NextHistoryInv, <1>1, <1>2, PTL DEF History!Spec

-----------------------------------------------------------------------------
(* SpikeAndStepCheck.                                                      *)

(* The loop has come to level ind, and has looked at the level after it     *)
(* unless that is the second.                                              *)
OutliersInv(outliers) ==
  /\ lastChecked \in outliers \cup {0} /\ lastChecked <= ind
  /\ \A k \in outliers : k <= ind => k <= lastChecked
  /\ isThinned = {Spikes!obsOf(k) : k \in {m \in outliers : m <= ind}}
  /\ spikeFlag = isThinned /\ stepFlag = {}

SpikeInv ==
  /\ record \in SpikeRecords /\ profileOptions \in SpikeOptions
  /\ Spikes!Regular => /\ ind \in 0 .. Spikes!NumDiffs + 1
                       /\ \A outliers \in SUBSET (Spikes!Levels \ {1}) :
                            Spikes!ConstantButFor(outliers) => OutliersInv(outliers)

LEMMA SameCardinalityOfSpikes == \A S : Spikes!Cardinality(S) = Cardinality(S)
  BY DEF Spikes!Cardinality, Cardinality

LEMMA ValidLevels ==
  ASSUME Spikes!SpikeAssumption, record \in SpikeRecords
  PROVE  /\ Spikes!NumDiffs \in Int /\ Spikes!Levels = 0 .. Spikes!NumDiffs
         /\ \A i \in Spikes!Levels : Spikes!xrec(i) \in Int /\ Spikes!yrec(i) \in Int
<1> DEFINE Level == [x : Nat \cup {-1}, y : Nat \cup {-1}, valid : BOOLEAN]
           V == Spikes!Valid
<1>1. record \in Seq(Level)
  BY DEF Spikes!SpikeAssumption, Spikes!Missing
<1>2. /\ Len(record) \in Nat /\ DOMAIN record = 1 .. Len(record)
      /\ \A k \in 1 .. Len(record) : record[k] \in Level
  BY <1>1, SeqElements
<1>3. V \subseteq 1 .. Len(record) /\ \A k \in V : record[k].x \in Int /\ record[k].y \in Int
  BY <1>2 DEF Spikes!Valid
<1> HIDE DEF V
<1>4. V \in SUBSET Int /\ IsFiniteSet(V) /\ Cardinality(V) \in Nat
  <2>1. IsFiniteSet(1 .. Len(record)) /\ 1 .. Len(record) \subseteq Int
    BY <1>2, FS_Interval
  <2> QED
    BY <1>3, <2>1, FS_Subset, FS_CardinalityType
<1>5. Spikes!NumDiffs = Cardinality(V) - 1 /\ Spikes!Levels = 0 .. Cardinality(V) - 1
  BY SameCardinalityOfSpikes DEF Spikes!NumDiffs, Spikes!Levels, V
<1>6. ASSUME NEW i \in Spikes!Levels PROVE Spikes!obsOf(i) \in V
  <2>1. \E k \in V : NumBelow(V, k) = i
    BY <1>4, <1>5, CountersFill
  <2>2. \A k : NumBelow(V, k) = Spikes!Cardinality({j \in V : j < k})
    BY SameCardinalityOfSpikes DEF NumBelow
  <2>3. \E k \in V : Spikes!Cardinality({j \in V : j < k}) = i
    BY <2>1, <2>2
  <2> QED
    BY <2>3 DEF Spikes!obsOf, V
<1>7. Spikes!NumDiffs \in Int /\ Spikes!Levels = 0 .. Spikes!NumDiffs
  BY <1>4, <1>5
<1> QED
  BY <1>3, <1>6, <1>7 DEF Spikes!xrec, Spikes!yrec

LEMMA TolerancesAreIntegers ==
  ASSUME Spikes!SpikeAssumption, profileOptions \in SpikeOptions, NEW i, Spikes!xrec(i) \in Int
  PROVE  Spikes!tolerance(i) \in Int
<1> DEFINE o == profileOptions
           x == Spikes!xrec(i)
           S == DOMAIN o.boundaries
           Above == {s \in S : x > o.boundaries[s]}
           s == Cardinality(Above)
<1>1. /\ o.nominal \in Nat /\ o.boundaries \in Seq(Int) /\ o.factors \in Seq(Int)
      /\ Len(o.boundaries) = Len(o.factors)
      /\ \A m \in 2 .. Len(o.boundaries) : o.boundaries[m - 1] <= o.boundaries[m]
  BY DEF Spikes!SpikeAssumption
<1>2. /\ Len(o.boundaries) \in Nat /\ S = 1 .. Len(o.boundaries)
      /\ \A m \in S : o.boundaries[m] \in Int /\ o.factors[m] \in Int
  BY <1>1, SeqElements
<1>3. /\ IsFiniteSet(S) /\ Cardinality(S) = Len(o.boundaries)
      /\ IsFiniteSet(Above) /\ Cardinality(Above) \in Nat
      /\ Cardinality(Above) <= Cardinality(S)
      /\ Cardinality(Above) = Cardinality(S) => Above = S
      /\ Cardinality(Above) = 0 => Above = {}
  <2>1. Above \subseteq S
    OBVIOUS
  <2>2. IsFiniteSet(S) /\ Cardinality(S) = Len(o.boundaries)
    BY <1>2, FS_Interval
  <2> HIDE DEF S, Above
  <2>3. /\ IsFiniteSet(Above) /\ Cardinality(Above) <= Cardinality(S)
        /\ Cardinality(Above) = Cardinality(S) => Above = S
    BY <2>1, <2>2, FS_Subset
  <2> QED
    BY <2>2, <2>3, FS_EmptySet, FS_CardinalityType
<1>4. Spikes!tolerance(i) =
        o.nominal * (IF Above = {} THEN 1
                     ELSE IF Above = S THEN o.factors[s]
                     ELSE o.factors[s] + Spikes!slope(s) * (x - o.boundaries[s]))
  BY SameCardinalityOfSpikes DEF Spikes!tolerance, Spikes!Sections, Spikes!opt
<1> HIDE DEF Above, S, s
<1>5. ASSUME Above # {} PROVE s \in S /\ o.factors[s] \in Int /\ o.boundaries[s] \in Int
  BY <1>2, <1>3, <1>5 DEF s
<1>6. ASSUME Above # {}, Above # S PROVE Spikes!slope(s) \in Int
  <2>1. s \in S /\ s + 1 \in S
    BY <1>2, <1>3, <1>6 DEF s
  <2>2. /\ o.factors[s] \in Int /\ o.factors[s + 1] \in Int
        /\ o.boundaries[s] \in Int /\ o.boundaries[s + 1] \in Int
    BY <1>2, <2>1
  <2>3. o.boundaries[s] <= o.boundaries[s + 1]
    <3>1. s + 1 \in 2 .. Len(o.boundaries) /\ (s + 1) - 1 = s
      BY <1>2, <2>1
    <3> QED
      BY <1>1, <3>1
  <2>4. Spikes!slope(s) = IF o.boundaries[s + 1] = o.boundaries[s] THEN 0
                          ELSE (o.factors[s + 1] - o.factors[s])
                                 \div (o.boundaries[s + 1] - o.boundaries[s])
    BY DEF Spikes!slope, Spikes!opt
  <2> QED
    BY <2>2, <2>3, <2>4
<1> DEFINE factor == IF Above = {} THEN 1
                     ELSE IF Above = S THEN o.factors[s]
                     ELSE o.factors[s] + Spikes!slope(s) * (x - o.boundaries[s])
<1>7. factor \in Int
  <2>1. ASSUME Above # {}, Above # S PROVE Spikes!slope(s) * (x - o.boundaries[s]) \in Int
    BY <1>5, <1>6, <2>1
  <2> QED
    BY <1>5, <2>1
<1> HIDE DEF factor
<1>8. o.nominal * factor \in Int
  BY <1>1, <1>7
<1> QED
  BY <1>4, <1>8 DEF factor

(* What the tests of the check compare, with d the difference to an outlier *)
(* and h the interval between levels.                                      *)
LEMMA FarOutside ==
  ASSUME NEW d \in Int, NEW t \in Int, NEW th \in Nat \ {0}, th <= 50, t > 0, Spikes!Abs(d) > t
  PROVE  th * t \in Int /\ th * t > 0 /\ 2 * (th * t) < 100 * Spikes!Abs(d)
<1>1. th * t \in Int /\ th * t > 0
  OBVIOUS
<1>2. (50 - th) * t >= 0
  OBVIOUS
<1>3. (50 - th) * t = 50 * t - th * t
  OBVIOUS
<1>4. Spikes!Abs(d) \in Int
  BY DEF Spikes!Abs
<1>5. 50 * t \in Int
  OBVIOUS
<1> DEFINE p == th * t
<1>6. 50 * t - p >= 0 /\ p \in Int /\ p > 0
  BY <1>1, <1>2, <1>3
<1> HIDE DEF p
<1>7. 2 * p < 100 * Spikes!Abs(d)
  BY <1>4, <1>5, <1>6
<1> QED
  BY <1>6, <1>7 DEF p

LEMMA NoSteadyGradient ==
  ASSUME NEW d \in Int, NEW t \in Int, NEW th \in Nat \ {0}, th <= 50, t > 0, Spikes!Abs(d) > t,
         NEW h \in Int, h + h # 0
  PROVE  ~(100 * Spikes!Abs(h * 0 - h * d) < th * t * Spikes!Abs(h + h))
<1> DEFINE v == Spikes!Abs(d)
           u == Spikes!Abs(h)
           p == th * t
<1>1. v \in Int /\ u \in Int /\ u > 0
  BY DEF Spikes!Abs
<1>2. Spikes!Abs(h + h) = 2 * u
  BY DEF Spikes!Abs
<1>3. Spikes!Abs(h * 0 - h * d) = u * v
  <2>1. h * 0 = 0 /\ h * d \in Int
    OBVIOUS
  <2>2. CASE h > 0 /\ d >= 0
    <3>1. h * d >= 0 /\ u = h /\ v = d
      BY <2>2 DEF Spikes!Abs
    <3> QED
      BY <2>1, <3>1 DEF Spikes!Abs
  <2>3. CASE h > 0 /\ d < 0
    <3>1. h * d <= 0 /\ u = h /\ v = -d /\ h * (-d) = -(h * d)
      BY <2>3 DEF Spikes!Abs
    <3> QED
      BY <2>1, <3>1 DEF Spikes!Abs
  <2>4. CASE h < 0 /\ d >= 0
    <3>1. h * d <= 0 /\ u = -h /\ v = d /\ (-h) * d = -(h * d)
      BY <2>4 DEF Spikes!Abs
    <3> QED
      BY <2>1, <3>1 DEF Spikes!Abs
  <2>5. CASE h < 0 /\ d < 0
    <3>1. h * d >= 0 /\ u = -h /\ v = -d /\ (-h) * (-d) = h * d
      BY <2>5 DEF Spikes!Abs
    <3> QED
      BY <2>1, <3>1 DEF Spikes!Abs
  <2> QED
    BY <2>2, <2>3, <2>4, <2>5
<1>4. p \in Int /\ 2 * p < 100 * v
  BY FarOutside
<1> HIDE DEF u, v, p
<1>5. u * (100 * v - 2 * p) > 0
  <2>1. 100 * v - 2 * p \in Int /\ 100 * v - 2 * p > 0
    BY <1>1, <1>4
  <2> QED
    BY <1>1, <2>1
<1>6. u * (100 * v - 2 * p) = 100 * (u * v) - p * (2 * u)
  BY <1>1, <1>4
<1>7. u * v \in Int /\ p * (2 * u) \in Int
  BY <1>1, <1>4
<1>8. ~(100 * (u * v) < p * (2 * u))
  BY <1>5, <1>6, <1>7
<1> QED
  BY <1>2, <1>3, <1>8 DEF p

(* What is known of the levels of a regular record.                         *)
LEMMA RegularLevels ==
  ASSUME Spikes!SpikeAssumption, record \in SpikeRecords, profileOptions \in SpikeOptions,
         Spikes!Regular
  PROVE  /\ profileOptions.yesSpikes
         /\ profileOptions.threshold \in Nat \ {0} /\ profileOptions.threshold <= 50
         /\ Spikes!NumDiffs \in Nat /\ Spikes!NumDiffs >= 2
         /\ Spikes!Levels = 0 .. Spikes!NumDiffs
         /\ \A i \in Spikes!Levels :
              /\ Spikes!yrec(i) \in Int
              /\ Spikes!tolerance(i) \in Int /\ Spikes!tolerance(i) > 0
         /\ \A i \in 0 .. Spikes!NumDiffs - 1 :
              /\ Spikes!HasDiff(i) /\ Spikes!xdiff(i) \in Int /\ Spikes!ydiff(i) \in Int
              /\ i > 0 => Spikes!xdiff(i) = Spikes!xdiff(i - 1)
<1>1. /\ profileOptions.yesSpikes
      /\ profileOptions.threshold \in Nat \ {0} /\ profileOptions.threshold <= 50
  BY DEF Spikes!SpikeAssumption, Spikes!Regular, Spikes!opt
<1>2. /\ Spikes!NumDiffs \in Nat /\ Spikes!NumDiffs >= 2 /\ Spikes!Levels = 0 .. Spikes!NumDiffs
      /\ \A i \in Spikes!Levels : Spikes!xrec(i) \in Int /\ Spikes!yrec(i) \in Int
  BY ValidLevels DEF Spikes!Regular
<1>3. \A i \in Spikes!Levels : Spikes!tolerance(i) \in Int /\ Spikes!tolerance(i) > 0
  BY <1>2, TolerancesAreIntegers DEF Spikes!Regular
<1>4. ASSUME NEW i \in 0 .. Spikes!NumDiffs - 1
      PROVE  /\ Spikes!HasDiff(i) /\ Spikes!xdiff(i) \in Int /\ Spikes!ydiff(i) \in Int
             /\ i > 0 => Spikes!xdiff(i) = Spikes!xdiff(i - 1)
  <2>1. i \in Spikes!Levels /\ i + 1 \in Spikes!Levels
    BY <1>2
  <2>2. Spikes!xdiff(i) \in Int /\ Spikes!ydiff(i) \in Int
    BY <1>2, <2>1 DEF Spikes!xdiff, Spikes!ydiff
  <2>3. Spikes!HasDiff(i) /\ (i > 0 => Spikes!xdiff(i) = Spikes!xdiff(i - 1))
    BY <1>2 DEF Spikes!Regular, Spikes!EvenlySpaced
  <2> QED
    BY <2>2, <2>3
<1> QED
  BY <1>1, <1>2, <1>3, <1>4

(* The level after ind is an outlier: it is a spike.                        *)
LEMMA OutlierIsSpike ==
  ASSUME Spikes!SpikeAssumption, record \in SpikeRecords, profileOptions \in SpikeOptions,
         Spikes!Regular, NEW outliers \in SUBSET (Spikes!Levels \ {1}),
         Spikes!ConstantButFor(outliers), OutliersInv(outliers),
         ind \in Spikes!Levels, ind + 1 \in outliers
  PROVE  Spikes!IsSpike
<1> DEFINE n == Spikes!NumDiffs
<1>1. /\ n \in Nat /\ n >= 2 /\ Spikes!Levels = 0 .. n
      /\ profileOptions.threshold \in Nat \ {0} /\ profileOptions.threshold <= 50
      /\ profileOptions.yesSpikes
  BY RegularLevels
<1>2. ind \in 0 .. n /\ \A i \in outliers : i \in 0 .. n /\ i # 1
  BY <1>1
<1> HIDE DEF n
<1>3. Spikes!IsOutlier(ind + 1) /\ ind \notin outliers
  BY <1>2 DEF Spikes!ConstantButFor
<1>4. ind >= 1 /\ ind < n - 1 /\ ind \in 0 .. n - 1 /\ ind + 1 \in 0 .. n - 1
  <2>1. (ind + 1) + 1 \in 0 .. n
    BY <1>1, <1>3 DEF Spikes!IsOutlier
  <2> QED
    BY <1>1, <1>2, <2>1
<1>5. ind > lastChecked
  BY <1>2, <1>3, <1>4 DEF OutliersInv
<1> DEFINE a == Spikes!ydiff(ind)
           b == Spikes!ydiff(ind + 1)
           t == Spikes!tolerance(ind + 1)
<1>6. /\ Spikes!HasDiff(ind) /\ Spikes!HasDiff(ind + 1)
      /\ a \in Int /\ b \in Int /\ t \in Int /\ t > 0
  BY <1>1, <1>2, <1>4, RegularLevels DEF n
<1>7. Spikes!Abs(b) > t /\ a + b = 0
  <2>1. (ind + 1) - 1 = ind /\ ind + 1 \in {(ind + 1) - 1, ind + 1, (ind + 1) + 1}
    BY <1>2
  <2>2. Spikes!Abs(b) > t /\ Spikes!yrec(ind) = Spikes!yrec((ind + 1) + 1)
    BY <1>3, <2>1 DEF Spikes!IsOutlier
  <2>3. /\ Spikes!yrec(ind) \in Int /\ Spikes!yrec(ind + 1) \in Int
        /\ Spikes!yrec((ind + 1) + 1) \in Int
    <3>1. ind \in 0 .. n /\ ind + 1 \in 0 .. n /\ (ind + 1) + 1 \in 0 .. n
      BY <1>1, <1>4
    <3> QED
      BY <1>1, <3>1, RegularLevels
  <2>4. /\ a = Spikes!yrec(ind + 1) - Spikes!yrec(ind)
        /\ b = Spikes!yrec((ind + 1) + 1) - Spikes!yrec(ind + 1)
    BY DEF Spikes!ydiff
  <2> HIDE DEF a, b, t
  <2> QED
    BY <2>2, <2>3, <2>4
<1>8. 100 * Spikes!Abs(a + b) < profileOptions.threshold * t
  <2>1. profileOptions.threshold * t > 0
    BY <1>1, <1>6, <1>7, FarOutside
  <2>2. Spikes!Abs(a + b) = 0
    BY <1>7 DEF Spikes!Abs
  <2> HIDE DEF a, b, t
  <2> QED
    BY <2>1, <2>2
<1>9. Spikes!Large /\ Spikes!ComesBack
  BY <1>7, <1>8 DEF Spikes!Large, Spikes!ComesBack, Spikes!opt
<1>10. Spikes!CanBeSpike
  BY <1>1, <1>4, <1>5, <1>6 DEF Spikes!CanBeSpike, Spikes!opt, n
<1> QED
  BY <1>9, <1>10 DEF Spikes!IsSpike

(* It is none: there is nothing to be found.                                *)
LEMMA OtherIsNeither ==
  ASSUME Spikes!SpikeAssumption, record \in SpikeRecords, profileOptions \in SpikeOptions,
         Spikes!Regular, NEW outliers \in SUBSET (Spikes!Levels \ {1}),
         Spikes!ConstantButFor(outliers), OutliersInv(outliers),
         ind \in Spikes!Levels, ind + 1 \notin outliers
  PROVE  ~Spikes!IsSpike /\ ~Spikes!IsGradient /\ ~Spikes!IsStep
<1> DEFINE n == Spikes!NumDiffs
           th == profileOptions.threshold
<1>1. /\ n \in Nat /\ n >= 2 /\ Spikes!Levels = 0 .. n /\ th \in Nat \ {0} /\ th <= 50
  BY RegularLevels
<1>2. ind \in 0 .. n /\ \A i \in outliers : i \in 0 .. n /\ i # 1
  BY <1>1
<1> HIDE DEF n, th
<1>3. CASE ~(ind > lastChecked) \/ ~(ind < n)
  <2>1. ~Spikes!CanBeSpike
    BY <1>1, <1>2, <1>3 DEF Spikes!CanBeSpike, n
  <2> QED
    BY <1>3, <2>1 DEF Spikes!IsSpike, Spikes!IsGradient, Spikes!IsStep, n
<1>4. CASE ind > lastChecked /\ ind < n
  <2>1. lastChecked \in Int
    BY <1>2 DEF OutliersInv
  <2>2. ind \notin outliers
    BY <1>2, <1>4, <2>1 DEF OutliersInv
  <2>3. ind \in 0 .. n - 1 /\ ind + 1 \in 0 .. n
    BY <1>1, <1>2, <1>4
  <2>4. Spikes!yrec(ind) = Spikes!yrec(ind + 1) /\ Spikes!yrec(ind) \in Int
    <3>1. ind \in Spikes!Levels \ outliers /\ ind + 1 \in Spikes!Levels \ outliers
      BY <1>1, <1>2, <2>2, <2>3
    <3> QED
      BY <3>1, RegularLevels DEF Spikes!ConstantButFor
  <2>5. Spikes!ydiff(ind) = 0
    BY <2>4 DEF Spikes!ydiff
  <2>6. Spikes!tolerance(ind) \in Int /\ Spikes!tolerance(ind) > 0
    BY <1>1, <1>2, RegularLevels
  <2>7. ~Spikes!IsStep
    BY <2>5, <2>6 DEF Spikes!IsStep, Spikes!Abs
  <2> DEFINE d == Spikes!ydiff(ind + 1)
             t == Spikes!tolerance(ind + 1)
             h == Spikes!xdiff(ind + 1)
  <2>8. t \in Int /\ t > 0
    BY <1>1, <2>3, RegularLevels
  <2>9. CASE ~(ind < n - 1)
    BY <2>7, <2>9 DEF Spikes!IsSpike, Spikes!IsGradient, Spikes!CanBeSpike, n
  <2>10. CASE ind < n - 1 /\ ind + 2 \notin outliers
    <3>1. ind + 1 \in Spikes!Levels \ outliers /\ ind + 2 \in Spikes!Levels \ outliers
      BY <1>1, <1>2, <2>10
    <3>2. Spikes!yrec(ind + 1) = Spikes!yrec(ind + 2) /\ Spikes!yrec(ind + 1) \in Int
      BY <3>1, RegularLevels DEF Spikes!ConstantButFor
    <3>3. (ind + 1) + 1 = ind + 2
      BY <1>2
    <3>4. d = 0
      BY <3>2, <3>3 DEF Spikes!ydiff
    <3>5. ~Spikes!Large /\ ~Spikes!Small
      <4>1. Spikes!Abs(0) = 0
        BY DEF Spikes!Abs
      <4> HIDE DEF d, t
      <4>2. ~(0 > t) /\ ~(2 * 0 > t)
        BY <2>8
      <4> QED
        BY <2>5, <3>4, <4>1, <4>2 DEF Spikes!Large, Spikes!Small, d, t
    <3> QED
      BY <2>7, <3>5 DEF Spikes!IsSpike, Spikes!IsGradient
  <2>11. CASE ind < n - 1 /\ ind + 2 \in outliers
    <3>1. Spikes!IsOutlier(ind + 2)
      BY <2>11 DEF Spikes!ConstantButFor
    <3>2. (ind + 2) - 1 = ind + 1 /\ (ind + 2) + 1 = ind + 3 /\ (ind + 1) + 1 = ind + 2
      BY <1>2
    <3>3. /\ ind + 1 \in Spikes!Levels /\ ind + 2 \in Spikes!Levels /\ ind + 3 \in Spikes!Levels
      BY <1>1, <2>3, <2>11, <3>1, <3>2 DEF Spikes!IsOutlier
    <3>4. /\ Spikes!yrec(ind + 1) \in Int /\ Spikes!yrec(ind + 2) \in Int
          /\ Spikes!yrec(ind + 3) \in Int
      BY <3>3, RegularLevels
    <3>5. /\ Spikes!yrec(ind + 1) = Spikes!yrec(ind + 3)
          /\ Spikes!Abs(Spikes!ydiff(ind + 2)) > t
      BY <3>1, <3>2 DEF Spikes!IsOutlier
    <3>6. d \in Int /\ Spikes!Abs(d) > t
      <4>1. /\ d = Spikes!yrec(ind + 2) - Spikes!yrec(ind + 1)
            /\ Spikes!ydiff(ind + 2) = Spikes!yrec(ind + 3) - Spikes!yrec(ind + 2)
        BY <3>2 DEF Spikes!ydiff
      <4> HIDE DEF d, t
      <4>2. Spikes!Abs(Spikes!ydiff(ind + 2)) = Spikes!Abs(d)
        BY <3>4, <3>5, <4>1 DEF Spikes!Abs
      <4> QED
        BY <3>4, <3>5, <4>1, <4>2
    <3>7. h \in Int /\ Spikes!xdiff(ind) = h
      <4>1. ind + 1 \in 0 .. n - 1 /\ ind + 1 > 0 /\ (ind + 1) - 1 = ind
        BY <1>1, <1>2, <2>11
      <4> QED
        BY <4>1, RegularLevels DEF n
    <3>8. Spikes!Large
      BY <3>6 DEF Spikes!Large
    <3>9. ~Spikes!ComesBack
      <4>1. th * t \in Int /\ th * t > 0 /\ 2 * (th * t) < 100 * Spikes!Abs(d)
        BY <1>1, <2>8, <3>6, FarOutside
      <4>2. 0 + d = d /\ Spikes!Abs(d) \in Int
        BY <3>6 DEF Spikes!Abs
      <4>3. ~(100 * Spikes!Abs(0 + d) < th * t)
        <5> DEFINE p == th * t
        <5>1. p \in Int /\ p > 0 /\ 2 * p < 100 * Spikes!Abs(d)
          BY <4>1
        <5> HIDE DEF p
        <5>2. ~(100 * Spikes!Abs(d) < p)
          BY <4>2, <5>1
        <5> QED
          BY <4>2, <5>2 DEF p
      <4> HIDE DEF d, t
      <4> QED
        BY <2>5, <4>3 DEF Spikes!ComesBack, Spikes!opt, d, t, th
    <3>10. ~Spikes!SteadyGradient
      <4>1. h + h # 0 => ~(100 * Spikes!Abs(h * 0 - h * d) < th * t * Spikes!Abs(h + h))
        BY <1>1, <2>8, <3>6, <3>7, NoSteadyGradient
      <4> QED
        BY <2>5, <3>7, <4>1 DEF Spikes!SteadyGradient, Spikes!opt, th
    <3> QED
      BY <2>7, <3>8, <3>9, <3>10 DEF Spikes!IsSpike, Spikes!IsGradient
  <2> QED
    BY <2>9, <2>10, <2>11
<1> QED
  BY <1>1, <1>2, <1>3, <1>4 DEF OutliersInv

LEMMA InitSpikeInv == Spikes!SpikeAssumption /\ Spikes!Init => SpikeInv
<1> SUFFICES ASSUME Spikes!SpikeAssumption, Spikes!Init PROVE SpikeInv
  OBVIOUS
<1>1. /\ record \in SpikeRecords /\ profileOptions \in SpikeOptions /\ ind = 0 /\ lastChecked = 0
      /\ isThinned = {} /\ spikeFlag = {} /\ stepFlag = {}
  BY DEF Spikes!Init
<1>2. ASSUME Spikes!Regular, NEW outliers \in SUBSET (Spikes!Levels \ {1}),
             Spikes!ConstantButFor(outliers)
      PROVE  OutliersInv(outliers)
  <2>1. \A k \in outliers : k \in Nat /\ k # 0
    <3>1. Spikes!Levels = 0 .. Spikes!NumDiffs /\ Spikes!NumDiffs \in Nat
      BY <1>1, <1>2, RegularLevels
    <3>2. ASSUME 0 \in outliers PROVE FALSE
      <4>1. 0 - 1 \in Spikes!Levels
        BY <1>2, <3>2 DEF Spikes!ConstantButFor, Spikes!IsOutlier
      <4> QED
        BY <3>1, <4>1
    <3> QED
      BY <3>1, <3>2
  <2>2. {m \in outliers : m <= 0} = {}
    BY <2>1
  <2> QED
    BY <1>1, <2>1, <2>2 DEF OutliersInv
<1>3. Spikes!Regular => ind \in 0 .. Spikes!NumDiffs + 1
  BY <1>1, RegularLevels
<1> QED
  BY <1>1, <1>2, <1>3 DEF SpikeInv

LEMMA NextSpikeInv ==
  Spikes!SpikeAssumption /\ SpikeInv /\ [Spikes!Next]_(Spikes!vars) => SpikeInv'
<1> SUFFICES ASSUME Spikes!SpikeAssumption, SpikeInv, [Spikes!Next]_(Spikes!vars) PROVE SpikeInv'
  OBVIOUS
<1>1. record' = record /\ profileOptions' = profileOptions
  BY DEF Spikes!Next, Spikes!Spike, Spikes!NotSpikeAfterAll, Spikes!Step, Spikes!NotStepAfterAll,
         Spikes!Neither, Spikes!Stopped, Spikes!vars
<1>2. /\ Spikes!Regular' = Spikes!Regular /\ Spikes!NumDiffs' = Spikes!NumDiffs
      /\ Spikes!Levels' = Spikes!Levels
      /\ \A o : Spikes!ConstantButFor(o)' = Spikes!ConstantButFor(o)
      /\ \A i : Spikes!obsOf(i)' = Spikes!obsOf(i)
  BY <1>1 DEF Spikes!Regular, Spikes!NumDiffs, Spikes!Levels, Spikes!ConstantButFor, Spikes!obsOf,
              Spikes!EvenlySpaced, Spikes!IsOutlier, Spikes!tolerance, Spikes!slope, Spikes!Sections,
              Spikes!HasDiff, Spikes!InBoundaryLayer, Spikes!xdiff, Spikes!ydiff, Spikes!xrec,
              Spikes!yrec, Spikes!Valid, Spikes!opt
<1>3. record \in SpikeRecords /\ profileOptions \in SpikeOptions
  BY DEF SpikeInv
<1>4. SUFFICES ASSUME Spikes!Regular
               PROVE  /\ ind' \in 0 .. Spikes!NumDiffs + 1
                      /\ \A outliers \in SUBSET (Spikes!Levels \ {1}) :
                           Spikes!ConstantButFor(outliers) => OutliersInv(outliers)'
  BY <1>1, <1>2, <1>3 DEF SpikeInv
<1>5. Spikes!NumDiffs \in Nat /\ Spikes!Levels = 0 .. Spikes!NumDiffs /\ ind \in 0 .. Spikes!NumDiffs + 1
  BY <1>3, <1>4, RegularLevels DEF SpikeInv
<1>6. CASE UNCHANGED Spikes!vars
  <2>1. /\ ind' = ind /\ lastChecked' = lastChecked /\ isThinned' = isThinned
        /\ spikeFlag' = spikeFlag /\ stepFlag' = stepFlag
    BY <1>6 DEF Spikes!vars
  <2>2. \A outliers : OutliersInv(outliers)' = OutliersInv(outliers)
    BY <1>2, <2>1 DEF OutliersInv
  <2> QED
    BY <1>4, <1>5, <2>1, <2>2 DEF SpikeInv
<1>7. CASE ~UNCHANGED Spikes!vars
  <2>1. /\ ind \in Spikes!Levels /\ ind' = ind + 1
        /\ \/ Spikes!Spike \/ Spikes!NotSpikeAfterAll \/ Spikes!Step \/ Spikes!NotStepAfterAll
           \/ Spikes!Neither
    BY <1>7 DEF Spikes!Next, Spikes!Spike, Spikes!NotSpikeAfterAll, Spikes!Step,
                Spikes!NotStepAfterAll, Spikes!Neither, Spikes!Stopped, Spikes!Looping
  <2>2. ASSUME NEW outliers \in SUBSET (Spikes!Levels \ {1}), Spikes!ConstantButFor(outliers)
        PROVE  OutliersInv(outliers)'
    <3>1. OutliersInv(outliers)
      BY <1>4, <2>2 DEF SpikeInv
    <3>2. \A k \in outliers : k \in Int
      BY <1>5
    <3>3. CASE ind + 1 \in outliers
      <4>1. Spikes!IsSpike
        BY <1>3, <1>4, <2>1, <2>2, <3>1, <3>3, OutlierIsSpike
      <4>2. Spikes!Spike
        BY <2>1, <4>1 DEF Spikes!NotSpikeAfterAll, Spikes!Step, Spikes!NotStepAfterAll,
                          Spikes!Neither, Spikes!IsGradient, Spikes!IsStep, Spikes!IsSpike
      <4>3. /\ isThinned' = isThinned \cup {Spikes!obsOf(ind + 1)}
            /\ spikeFlag' = spikeFlag \cup {Spikes!obsOf(ind + 1)}
            /\ lastChecked' = ind + 1 /\ ind' = ind + 1 /\ stepFlag' = stepFlag
        BY <4>2 DEF Spikes!Spike
      <4>4. {m \in outliers : m <= ind + 1} = {m \in outliers : m <= ind} \cup {ind + 1}
        <5>1. \A m \in outliers : m <= ind + 1 <=> m <= ind \/ m = ind + 1
          BY <1>5, <3>2
        <5> QED
          BY <3>3, <5>1
      <4>5. isThinned' = {Spikes!obsOf(k) : k \in {m \in outliers : m <= ind + 1}}
        BY <3>1, <4>3, <4>4 DEF OutliersInv
      <4>6. ind + 1 <= ind + 1
        BY <1>5
      <4> QED
        BY <1>2, <3>1, <3>3, <4>3, <4>5, <4>6 DEF OutliersInv
    <3>4. CASE ind + 1 \notin outliers
      <4>1. ~Spikes!IsSpike /\ ~Spikes!IsGradient /\ ~Spikes!IsStep
        BY <1>3, <1>4, <2>1, <2>2, <3>1, <3>4, OtherIsNeither
      <4>2. Spikes!Neither
        BY <2>1, <4>1 DEF Spikes!Spike, Spikes!NotSpikeAfterAll, Spikes!Step, Spikes!NotStepAfterAll
      <4>3. /\ isThinned' = isThinned /\ spikeFlag' = spikeFlag /\ lastChecked' = lastChecked
            /\ ind' = ind + 1 /\ stepFlag' = stepFlag
        BY <4>2 DEF Spikes!Neither
      <4>4. \A m \in outliers : m <= ind + 1 <=> m <= ind
        BY <1>5, <3>2, <3>4
      <4>5. {m \in outliers : m <= ind + 1} = {m \in outliers : m <= ind}
        BY <4>4
      <4>6. lastChecked \in Int /\ lastChecked <= ind + 1
        BY <1>5, <3>1, <3>2 DEF OutliersInv
      <4> QED
        BY <1>2, <3>1, <4>3, <4>4, <4>5, <4>6 DEF OutliersInv
    <3> QED
      BY <3>3, <3>4
  <2> QED
    BY <1>5, <2>1, <2>2
<1> QED
  BY <1>6, <1>7

(* OutliersAreSpikes: in a record that is constant but for outliers the     *)
(* loop thins exactly these, as spikes, and does not take their far side    *)
(* for a step, because it remembers what it has checked last.               *)
THEOREM OutliersAreSpikesOnly ==
  Spikes!SpikeAssumption /\ Spikes!Spec => []OutliersAreSpikes
<1>1. Spikes!SpikeAssumption /\ SpikeInv => OutliersAreSpikes
  <2> SUFFICES ASSUME Spikes!SpikeAssumption, SpikeInv, Spikes!Done, Spikes!Regular,
                      NEW outliers \in SUBSET (Spikes!Levels \ {1}),
                      Spikes!ConstantButFor(outliers)
               PROVE  /\ isThinned = {Spikes!obsOf(i) : i \in outliers}
                      /\ spikeFlag = isThinned /\ stepFlag = {}
    BY DEF OutliersAreSpikes, Spikes!OutliersAreSpikes
  <2>1. /\ Spikes!NumDiffs \in Nat /\ Spikes!NumDiffs >= 2
        /\ Spikes!Levels = 0 .. Spikes!NumDiffs /\ ind \in 0 .. Spikes!NumDiffs + 1
    BY RegularLevels DEF SpikeInv
  <2>2. ind = Spikes!NumDiffs + 1
    BY <2>1 DEF Spikes!Done, Spikes!Looping
  <2>3. {m \in outliers : m <= ind} = outliers
    <3>1. \A m \in outliers : m <= ind
      BY <2>1, <2>2
    <3> QED
      BY <3>1
  <2>4. OutliersInv(outliers)
    BY DEF SpikeInv
  <2> QED
    BY <2>3, <2>4 DEF OutliersInv
<1>2. Spikes!SpikeAssumption => Spikes!SpikeAssumption'
  BY DEF Spikes!SpikeAssumption
<1> QED
  BY InitSpikeInv, NextSpikeInv, <1>1, <1>2, PTL DEF Spikes!Spec

=============================================================================
