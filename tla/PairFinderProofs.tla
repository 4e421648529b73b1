---------------------------- MODULE PairFinderProofs ----------------------------
(***************************************************************************)
(* Theorems about MetOfficeBuddyPairFinder.                                *)
(*                                                                         *)
(* The relation Sees(p, q) says which positions of the order the search    *)
(* from position p would examine if it never had found enough.  The three  *)
(* loops list what p sees in a band (PotentialBuddiesAre), each once; the   *)
(* collector that has examined the positions Q has taken all that are      *)
(* within the radius, or has no room (CollectorOK); and no two positions    *)
(* see each other (SeesOneWay), but one of two that are within the radius   *)
(* sees the other if the ranges of longitudes are regular (OneSees).        *)
(***************************************************************************)
EXTENDS MetOfficeBuddyPairFinder, OrderLemmas

-----------------------------------------------------------------------------
(* Bands and distances.                                                    *)

LEMMA DivBounds ==
  ASSUME NEW x \in Int, NEW w \in Nat \ {0}
  PROVE  x \div w \in Int /\ w * (x \div w) <= x /\ x < w * (x \div w) + w
  OBVIOUS

LEMMA LessFactor ==
  ASSUME NEW x \in Int, NEW y \in Int, NEW w \in Nat \ {0}, w * x < w * y
  PROVE  x < y
  OBVIOUS

LEMMA TimesSum ==
  ASSUME NEW x \in Int, NEW y \in Int, NEW w \in Nat
  PROVE  w * (x + y) = w * x + w * y /\ w * (x + 1) = w * x + w /\ w * x \in Int
  OBVIOUS

NumObs == Cardinality(DOMAIN PairObs)

LEMMA InputOK ==
  ASSUME input \in PairInputs
  PROVE  /\ Pole \in Nat \ {0} /\ Meridian \in Nat \ {0}
         /\ IsFiniteSet(DOMAIN PairObs) /\ DOMAIN PairObs \subseteq Nat /\ NumObs \in Nat
         /\ \A i \in DOMAIN PairObs : /\ PairObs[i].lat \in Int /\ PairObs[i].lon \in Int
                                      /\ PairObs[i].lat \in -Pole .. Pole
                                      /\ PairObs[i].lon \in -Meridian .. Meridian
                                      /\ PairObs[i].time \in Int
         /\ PairOpt.numZonalBands \in Nat \ {0} /\ PairOpt.bandWidth \in Nat \ {0}
         /\ PairOpt.bandWidth * PairOpt.numZonalBands = 2 * Pole
         /\ PairOpt.searchDLat \in Nat
         /\ PairOpt.useLegacyBuddyCollector \in BOOLEAN
         /\ PairOpt.maxTotalNumBuddies \in Nat \ {0}
         /\ PairOpt.maxNumBuddiesFromSingleBand \in Nat \ {0}
         /\ PairOpt.maxNumBuddiesWithSameStationId \in Nat
         /\ \A b \in Bands(PairOpt) :
              /\ PairOpt.reach[b] \in Int /\ PairOpt.halfWidth[b] \in Nat
              /\ PairOpt.reach[b] <= PairOpt.halfWidth[b]
<1>1. /\ Pole \in Nat \ {0} /\ Meridian \in Nat \ {0}
      /\ IsFiniteSet(DOMAIN PairObs) /\ DOMAIN PairObs \subseteq Nat
      /\ PairOpt.numZonalBands \in Nat /\ PairOpt.bandWidth \in Nat
      /\ PairOpt.numZonalBands * PairOpt.bandWidth = 2 * Pole
  BY PairFinderAssumption DEF PairObs, PairOpt
<1>2. NumObs \in Nat
  BY <1>1, FS_CardinalityType DEF NumObs
<1>3. \A i \in DOMAIN PairObs : /\ PairObs[i].lat \in -Pole .. Pole
                                /\ PairObs[i].lon \in -Meridian .. Meridian
                                /\ PairObs[i].time \in Int
  BY PairFinderAssumption DEF PairObs, PairOpt
<1>4. \A i \in DOMAIN PairObs : PairObs[i].lat \in Int /\ PairObs[i].lon \in Int
  BY <1>3
<1>5. /\ PairOpt.numZonalBands # 0 /\ PairOpt.bandWidth # 0
      /\ PairOpt.bandWidth * PairOpt.numZonalBands = 2 * Pole
  BY <1>1
<1>6. /\ PairOpt.searchDLat \in Nat
      /\ PairOpt.useLegacyBuddyCollector \in BOOLEAN
      /\ PairOpt.maxTotalNumBuddies \in Nat \ {0}
      /\ PairOpt.maxNumBuddiesFromSingleBand \in Nat \ {0}
      /\ PairOpt.maxNumBuddiesWithSameStationId \in Nat
  BY PairFinderAssumption DEF PairObs, PairOpt
<1>7. \A b \in Bands(PairOpt) :
        /\ PairOpt.reach[b] \in Int /\ PairOpt.halfWidth[b] \in Nat
        /\ PairOpt.reach[b] <= PairOpt.halfWidth[b]
  BY PairFinderAssumption DEF PairObs, PairOpt
<1> QED
  BY <1>1, <1>2, <1>3, <1>4, <1>5, <1>6, <1>7

(* An observation is in its band.                                          *)
LEMMA BandBounds ==
  ASSUME input \in PairInputs, NEW i \in DOMAIN PairObs
  PROVE  /\ BandOf(i) \in Nat /\ BandOf(i) \in Bands(PairOpt)
         /\ PairOpt.bandWidth * BandOf(i) + PairObs[i].lat <= Pole
         /\ Pole <= PairOpt.bandWidth * BandOf(i) + PairOpt.bandWidth + PairObs[i].lat
<1> DEFINE w == PairOpt.bandWidth
           n == PairOpt.numZonalBands
           x == Pole - 1 - PairObs[i].lat
           q == x \div w
<1>1. /\ w \in Nat \ {0} /\ n \in Nat \ {0} /\ w * n = 2 * Pole
      /\ x \in Int /\ Pole \in Nat \ {0} /\ PairObs[i].lat \in Int
      /\ -Pole <= PairObs[i].lat /\ PairObs[i].lat <= Pole
  BY InputOK
<1>2. BandOf(i) = IF 0 < q THEN q ELSE 0
  BY DEF BandOf, Greater
<1> HIDE DEF w, n
<1>3. q \in Int /\ w * q <= x /\ x < w * q + w
  BY <1>1, DivBounds
<1>4. x < w * n
  BY <1>1
<1> HIDE DEF q
<1>5. w * q \in Int /\ w * n \in Int /\ w * 0 = 0
  BY <1>1, <1>3, TimesSum
<1>6. w * q < w * n
  BY <1>1, <1>3, <1>4, <1>5
<1>7. q < n
  BY <1>1, <1>3, <1>6, LessFactor
<1>8. CASE 0 < q
  <2>1. BandOf(i) = q
    BY <1>2, <1>8
  <2> QED
    BY <1>1, <1>3, <1>5, <1>7, <1>8, <2>1 DEF Bands, w, n
<1>9. CASE ~(0 < q)
  <2>1. BandOf(i) = 0
    BY <1>2, <1>9
  <2>2. w * q <= 0
    <3>1. q <= 0
      BY <1>3, <1>9
    <3>2. ~(w * 0 < w * q)
      BY <1>1, <1>3, <3>1, LessFactor
    <3> QED
      BY <1>5, <3>2
  <2>3. w * BandOf(i) = 0
    BY <1>5, <2>1
  <2>4. x < w
    BY <1>1, <1>3, <1>5, <2>2
  <2> QED
    BY <1>1, <2>1, <2>3, <2>4 DEF Bands, w, n
<1> QED
  BY <1>8, <1>9

LEMMA WithinRadiusBothWays ==
  ASSUME input \in PairInputs, NEW i \in DOMAIN PairObs, NEW j \in DOMAIN PairObs
  PROVE  /\ WithinRadius(i, j) <=> WithinRadius(j, i)
         /\ LonGap(i, j) \in Int /\ LonGap(i, j) = LonGap(j, i)
         /\ WithinRadius(i, j) => LonGap(i, j) <= PairOpt.halfWidth[BandOf(i)]
<1>1. /\ PairObs[i].lat \in Int /\ PairObs[j].lat \in Int
      /\ PairObs[i].lon \in Int /\ PairObs[j].lon \in Int /\ Meridian \in Int
  BY InputOK
<1>2. /\ Gap(PairObs[i].lat, PairObs[j].lat) = Gap(PairObs[j].lat, PairObs[i].lat)
      /\ Gap(PairObs[i].lon, PairObs[j].lon) = Gap(PairObs[j].lon, PairObs[i].lon)
      /\ Gap(PairObs[i].lon, PairObs[j].lon) \in Int
  BY <1>1 DEF Gap, Greater
<1>3. LonGap(i, j) = LonGap(j, i) /\ LonGap(i, j) \in Int
  BY <1>1, <1>2 DEF LonGap, Lesser
<1>4. /\ BandOf(i) \in Bands(PairOpt) /\ BandOf(j) \in Bands(PairOpt)
  BY BandBounds
<1> DEFINE r == PairOpt.reach[BandOf(i)]
           s == PairOpt.reach[BandOf(j)]
<1>5. r \in Int /\ s \in Int /\ r <= PairOpt.halfWidth[BandOf(i)] /\ PairOpt.halfWidth[BandOf(i)] \in Int
  BY <1>4, InputOK
<1>6. Lesser(r, s) = Lesser(s, r) /\ Lesser(r, s) <= r /\ Lesser(r, s) \in Int
  BY <1>5 DEF Lesser
<1>7. LatWithin(i, j) <=> LatWithin(j, i)
  BY <1>2 DEF LatWithin
<1>8. /\ WithinRadius(i, j) <=> LatWithin(i, j) /\ LonGap(i, j) <= Lesser(r, s)
      /\ WithinRadius(j, i) <=> LatWithin(j, i) /\ LonGap(j, i) <= Lesser(s, r)
  BY DEF WithinRadius
<1> HIDE DEF r, s
<1> QED
  BY <1>3, <1>5, <1>6, <1>7, <1>8

(* The bands that are searched are all those within reach.                 *)
LEMMA BandIsSearched ==
  ASSUME input \in PairInputs, NEW i \in DOMAIN PairObs, NEW j \in DOMAIN PairObs, LatWithin(i, j)
  PROVE  BandOf(j) <= BandOf(i) + PairOpt.searchDLat \div PairOpt.bandWidth + 1
<1> DEFINE w == PairOpt.bandWidth
           d == PairOpt.searchDLat
           q == d \div w
           bi == BandOf(i)
           bj == BandOf(j)
<1>1. w \in Nat \ {0} /\ d \in Int /\ PairObs[i].lat \in Int /\ PairObs[j].lat \in Int /\ Pole \in Int
  BY InputOK
<1>2. q \in Int /\ d < w * q + w
  BY <1>1, DivBounds
<1>3. /\ bi \in Int /\ Pole <= w * bi + w + PairObs[i].lat
      /\ bj \in Int /\ w * bj + PairObs[j].lat <= Pole
  BY BandBounds
<1>4. PairObs[i].lat - PairObs[j].lat <= d
  BY <1>1 DEF LatWithin, Gap, Greater
<1> HIDE DEF w, d, q, bi, bj
<1>5. w * bj \in Int /\ w * bi \in Int /\ w * q \in Int /\ bi + q \in Int /\ bi + q + 1 \in Int
  BY <1>1, <1>2, <1>3
<1>6. /\ w * (bi + q) = w * bi + w * q
      /\ w * (bi + q + 1) = w * (bi + q) + w
      /\ w * (bi + q + 1 + 1) = w * (bi + q + 1) + w
  <2>1. w * (bi + q) = w * bi + w * q
    BY <1>1, <1>2, <1>3, TimesSum
  <2>2. w * (bi + q + 1) = w * (bi + q) + w
    BY <1>1, <1>5, TimesSum
  <2>3. w * (bi + q + 1 + 1) = w * (bi + q + 1) + w
    BY <1>1, <1>5, TimesSum
  <2> QED
    BY <2>1, <2>2, <2>3
<1>7. w * bj < w * (bi + q + 1 + 1)
  BY <1>1, <1>2, <1>3, <1>4, <1>5, <1>6
<1>8. bj < bi + q + 1 + 1
  BY <1>1, <1>3, <1>5, <1>7, LessFactor
<1> QED
  BY <1>2, <1>3, <1>8 DEF bi, bj, q, w, d

LEMMA BandIsInReach ==
  ASSUME input \in PairInputs, obsIdA \in DOMAIN PairObs, NEW j \in DOMAIN PairObs, LatWithin(obsIdA, j)
  PROVE  ~OutOfReach(BandOf(j))
<1> DEFINE w == PairOpt.bandWidth
           b == BandOf(j)
           mid == 2 * Pole - w * (2 * b + 1)
           latA == PairObs[obsIdA].lat
           lat == PairObs[j].lat
<1>1. w \in Nat \ {0} /\ PairOpt.searchDLat \in Int /\ latA \in Int /\ lat \in Int /\ Pole \in Int
  BY InputOK
<1>2. b \in Int /\ w * b + lat <= Pole /\ Pole <= w * b + w + lat
  BY BandBounds
<1>3. latA - lat <= PairOpt.searchDLat /\ lat - latA <= PairOpt.searchDLat
  BY <1>1 DEF LatWithin, Gap, Greater
<1> HIDE DEF w, b, latA, lat
<1>4. w * b \in Int /\ w * (2 * b + 1) = 2 * (w * b) + w
  <2>1. w * (2 * b + 1) = w * (2 * b) + w /\ w * (b + b) = w * b + w * b /\ w * b \in Int
    BY <1>1, <1>2, TimesSum
  <2>2. 2 * b = b + b
    BY <1>2
  <2> QED
    BY <2>1, <2>2
<1>5. mid \in Int /\ mid = 2 * Pole - 2 * (w * b) - w
  BY <1>1, <1>4
<1> HIDE DEF mid
<1>6. Gap(2 * latA, mid) <= 2 * PairOpt.searchDLat + w
  BY <1>1, <1>2, <1>3, <1>4, <1>5 DEF Gap, Greater
<1> QED
  <2>1. Gap(2 * latA, mid) \in Int /\ 2 * latA \in Int
    BY <1>1, <1>5 DEF Gap, Greater
  <2>2. ~(Gap(2 * latA, mid) > 2 * PairOpt.searchDLat + w)
    BY <1>1, <1>6, <2>1
  <2> QED
    BY <2>2 DEF OutOfReach, mid, latA, w, b

-----------------------------------------------------------------------------
(* The order of the observations.                                          *)

LatOf(i) == PairObs[i].lat
LonOf(i) == PairObs[i].lon

LEMMA PrecedesIs ==
  ASSUME NEW i, NEW j
  PROVE  Precedes(i, j) <=>
           \/ BandOf(i) < BandOf(j)
           \/ BandOf(i) = BandOf(j) /\
              \/ LonOf(i) < LonOf(j)
              \/ LonOf(i) = LonOf(j) /\
                 \/ -LatOf(i) < -LatOf(j)
                 \/ -LatOf(i) = -LatOf(j) /\
                    \/ PairObs[i].time < PairObs[j].time
                    \/ PairObs[i].time = PairObs[j].time /\ i < j
<1> DEFINE K(x) == SortKey(x)
           Q(k) == K(i)[k] < K(j)[k] /\ \A m \in 1 .. k - 1 : K(i)[m] = K(j)[m]
<1>1. \A x : /\ K(x)[1] = BandOf(x) /\ K(x)[2] = LonOf(x) /\ K(x)[3] = -LatOf(x)
             /\ K(x)[4] = PairObs[x].time /\ K(x)[5] = x
  BY DEF SortKey, LatOf, LonOf
<1> HIDE DEF K
<1>2. 1 .. 1 - 1 = {} /\ 1 .. 2 - 1 = {1} /\ 1 .. 3 - 1 = {1, 2} /\ 1 .. 4 - 1 = {1, 2, 3}
      /\ 1 .. 5 - 1 = {1, 2, 3, 4} /\ 1 .. 5 = {1, 2, 3, 4, 5}
  OBVIOUS
<1>3. Precedes(i, j) <=> Q(1) \/ Q(2) \/ Q(3) \/ Q(4) \/ Q(5)
  <2>1. Precedes(i, j) <=> \E k \in 1 .. 5 : Q(k)
    BY DEF Precedes, K
  <2> HIDE DEF Q
  <2> QED
    BY <1>2, <2>1
<1>4. /\ Q(1) <=> K(i)[1] < K(j)[1]
      /\ Q(2) <=> K(i)[2] < K(j)[2] /\ K(i)[1] = K(j)[1]
      /\ Q(3) <=> K(i)[3] < K(j)[3] /\ K(i)[1] = K(j)[1] /\ K(i)[2] = K(j)[2]
      /\ Q(4) <=> K(i)[4] < K(j)[4] /\ K(i)[1] = K(j)[1] /\ K(i)[2] = K(j)[2] /\ K(i)[3] = K(j)[3]
      /\ Q(5) <=> K(i)[5] < K(j)[5] /\ K(i)[1] = K(j)[1] /\ K(i)[2] = K(j)[2] /\ K(i)[3] = K(j)[3]
                    /\ K(i)[4] = K(j)[4]
  BY <1>2
<1> HIDE DEF Q
<1> QED
  BY <1>1, <1>3, <1>4

Preceding == {p \in (DOMAIN PairObs) \X (DOMAIN PairObs) : Precedes(p[1], p[2])}

LEMMA PrecedingOrders ==
  ASSUME input \in PairInputs
  PROVE  /\ Orders(Preceding, DOMAIN PairObs)
         /\ \A i, j \in DOMAIN PairObs : <<i, j>> \in Preceding <=> Precedes(i, j)
         /\ \A i, j \in DOMAIN PairObs :
              /\ BandOf(i) < BandOf(j) => Precedes(i, j)
              /\ Precedes(i, j) => /\ BandOf(i) <= BandOf(j)
                                   /\ BandOf(i) = BandOf(j) => LonOf(i) <= LonOf(j)
<1> DEFINE O == DOMAIN PairObs
           T(i) == PairObs[i].time
<1>1. \A i \in O : BandOf(i) \in Int /\ LonOf(i) \in Int /\ LatOf(i) \in Int /\ T(i) \in Int /\ i \in Int
  <2> SUFFICES ASSUME NEW i \in O
               PROVE BandOf(i) \in Int /\ LonOf(i) \in Int /\ LatOf(i) \in Int /\ T(i) \in Int /\ i \in Int
    OBVIOUS
  <2>1. BandOf(i) \in Nat
    BY BandBounds
  <2> QED
    BY <2>1, InputOK DEF LonOf, LatOf
<1> HIDE DEF O, T
<1>2. \A i, j \in O : <<i, j>> \in Preceding <=> Precedes(i, j)
  BY DEF Preceding, O
<1>3. ASSUME NEW i \in O, NEW j \in O
      PROVE  /\ ~Precedes(i, i)
             /\ i = j \/ Precedes(i, j) \/ Precedes(j, i)
             /\ BandOf(i) < BandOf(j) => Precedes(i, j)
             /\ Precedes(i, j) => /\ BandOf(i) <= BandOf(j)
                                  /\ BandOf(i) = BandOf(j) => LonOf(i) <= LonOf(j)
  <2>1. ~Precedes(i, i)
    BY <1>1, PrecedesIs DEF T
  <2>2. Precedes(i, j) <=>
           \/ BandOf(i) < BandOf(j)
           \/ BandOf(i) = BandOf(j) /\
              \/ LonOf(i) < LonOf(j)
              \/ LonOf(i) = LonOf(j) /\
                 \/ -LatOf(i) < -LatOf(j)
                 \/ -LatOf(i) = -LatOf(j) /\ \/ T(i) < T(j)
                                             \/ T(i) = T(j) /\ i < j
    BY PrecedesIs DEF T
  <2>3. Precedes(j, i) <=>
           \/ BandOf(j) < BandOf(i)
           \/ BandOf(j) = BandOf(i) /\
              \/ LonOf(j) < LonOf(i)
              \/ LonOf(j) = LonOf(i) /\
                 \/ -LatOf(j) < -LatOf(i)
                 \/ -LatOf(j) = -LatOf(i) /\ \/ T(j) < T(i)
                                             \/ T(j) = T(i) /\ j < i
    BY PrecedesIs DEF T
  <2>4. i = j \/ Precedes(i, j) \/ Precedes(j, i)
    BY <1>1, <2>2, <2>3
  <2>5. /\ BandOf(i) < BandOf(j) => Precedes(i, j)
        /\ Precedes(i, j) => /\ BandOf(i) <= BandOf(j)
                             /\ BandOf(i) = BandOf(j) => LonOf(i) <= LonOf(j)
    BY <1>1, <2>2
  <2> QED
    BY <2>1, <2>4, <2>5
<1>4. ASSUME NEW i \in O, NEW j \in O, NEW k \in O, Precedes(i, j), Precedes(j, k)
      PROVE  Precedes(i, k)
  <2> DEFINE P(x, y) ==
           \/ BandOf(x) < BandOf(y)
           \/ BandOf(x) = BandOf(y) /\
              \/ LonOf(x) < LonOf(y)
              \/ LonOf(x) = LonOf(y) /\
                 \/ -LatOf(x) < -LatOf(y)
                 \/ -LatOf(x) = -LatOf(y) /\ \/ T(x) < T(y)
                                             \/ T(x) = T(y) /\ x < y
  <2>1. \A x, y : Precedes(x, y) <=> P(x, y)
    BY PrecedesIs DEF T
  <2>2. P(i, j) /\ P(j, k)
    <3> HIDE DEF P
    <3> QED
      BY <1>4, <2>1
  <2>3. P(i, k)
    BY <1>1, <2>2
  <2> HIDE DEF P
  <2> QED
    BY <2>1, <2>3
<1>5. Orders(Preceding, O)
  BY <1>2, <1>3, <1>4 DEF Orders, O
<1> QED
  BY <1>2, <1>3, <1>5 DEF O

(* s lists the observations band by band, each one by longitude, and b      *)
(* bounds the bands.                                                       *)
Sorted(s, bounds) ==
  /\ Lists(s, DOMAIN PairObs)
  /\ \A b \in 0 .. PairOpt.numZonalBands : bounds[b] \in 1 .. NumObs + 1
  /\ bounds[0] = 1 /\ bounds[PairOpt.numZonalBands] = NumObs + 1
  /\ \A b \in Bands(PairOpt) :
       /\ bounds[b] <= bounds[b + 1]
       /\ \A p \in 1 .. NumObs : BandOf(s[p]) = b <=> bounds[b] <= p /\ p < bounds[b + 1]
  /\ \A p, q \in 1 .. NumObs : p < q =>
       /\ BandOf(s[p]) <= BandOf(s[q])
       /\ BandOf(s[p]) = BandOf(s[q]) => LonOf(s[p]) <= LonOf(s[q])

LEMMA SortSorts ==
  ASSUME input \in PairInputs
  PROVE  Sorted([k \in 1 .. Cardinality(DOMAIN PairObs) |->
                   CHOOSE i \in DOMAIN PairObs :
                     Cardinality({j \in DOMAIN PairObs : Precedes(j, i)}) = k - 1],
                [b \in 0 .. PairOpt.numZonalBands |->
                   1 + Cardinality({i \in DOMAIN PairObs : BandOf(i) < b})])
<1> DEFINE O == DOMAIN PairObs
           n == PairOpt.numZonalBands
           R == Preceding
           rank(i) == Cardinality({j \in O : Precedes(j, i)})
           at(k) == CHOOSE i \in O : rank(i) = k - 1
           s == [k \in 1 .. Cardinality(O) |-> at(k)]
           north(b) == {i \in O : BandOf(i) < b}
           bounds == [b \in 0 .. n |-> 1 + Cardinality(north(b))]
<1>1. IsFiniteSet(O) /\ Cardinality(O) \in Nat /\ n \in Nat \ {0}
  BY InputOK DEF NumObs
<1>2. /\ Orders(R, O)
      /\ \A i, j \in O : <<i, j>> \in R <=> Precedes(i, j)
      /\ \A i, j \in O :
           /\ BandOf(i) < BandOf(j) => Precedes(i, j)
           /\ Precedes(i, j) => /\ BandOf(i) <= BandOf(j)
                                /\ BandOf(i) = BandOf(j) => LonOf(i) <= LonOf(j)
  BY PrecedingOrders
<1>3. \A i \in O : Below(O, R, i) = {j \in O : Precedes(j, i)}
  BY <1>2 DEF Below
<1>4. \A i \in O : rank(i) = Cardinality(Below(O, R, i))
  BY <1>3
<1>5. \A i \in O : BandOf(i) \in Int /\ 0 <= BandOf(i) /\ BandOf(i) < n
  <2>1. \A i \in O : BandOf(i) \in 0 .. n - 1
    BY BandBounds DEF Bands
  <2> QED
    BY <1>1, <2>1
<1> HIDE DEF n, R, rank, O
<1>6. Lists(s, O)
  <2> DEFINE ranked(k) == CHOOSE i \in O : Cardinality(Below(O, R, i)) = k - 1
  <2>1. \A k : at(k) = ranked(k)
    BY <1>4
  <2>2. s = [k \in 1 .. Cardinality(O) |-> ranked(k)]
    <3> HIDE DEF at, ranked
    <3> QED
      BY <2>1
  <2> QED
    BY <1>1, <1>2, <2>2, RankedLists
<1>7. \A k \in 1 .. Cardinality(O) : s[k] \in O /\ rank(s[k]) = k - 1
  <2> SUFFICES ASSUME NEW k \in 1 .. Cardinality(O) PROVE s[k] \in O /\ rank(s[k]) = k - 1
    OBVIOUS
  <2> DEFINE x == CHOOSE i \in O : Cardinality(Below(O, R, i)) = k - 1
  <2>1. x \in O /\ Cardinality(Below(O, R, x)) = k - 1
    BY <1>1, <1>2, RankOfListed
  <2>2. x \in O /\ rank(x) = k - 1
    BY <1>4, <2>1
  <2> HIDE DEF x
  <2>3. at(k) \in O /\ rank(at(k)) = k - 1
    BY <2>2
  <2>4. s[k] = at(k)
    OBVIOUS
  <2> HIDE DEF at, s
  <2> QED
    BY <2>3, <2>4
<1> HIDE DEF s, at
<1>8. ASSUME NEW p \in 1 .. Cardinality(O), NEW q \in 1 .. Cardinality(O), p < q
      PROVE  Precedes(s[p], s[q])
  <2>1. s[p] # s[q]
    BY <1>6, <1>8 DEF Lists
  <2>2. rank(s[p]) < rank(s[q])
    BY <1>7, <1>8
  <2>3. ~(<<s[q], s[p]>> \in R)
    <3>1. ASSUME <<s[q], s[p]>> \in R PROVE FALSE
      <4>1. Cardinality(Below(O, R, s[q])) < Cardinality(Below(O, R, s[p]))
        BY <1>1, <1>2, <1>7, <3>1, BelowGrows
      <4>2. rank(s[q]) < rank(s[p])
        BY <1>4, <1>7, <4>1
      <4>3. rank(s[q]) \in Int /\ rank(s[p]) \in Int
        BY <1>1, <1>7
      <4> QED
        BY <2>2, <4>2, <4>3
    <3> QED
      BY <3>1
  <2> QED
    BY <1>2, <1>7, <2>1, <2>3 DEF Orders
<1>9. \A b \in Int : /\ IsFiniteSet(north(b)) /\ Cardinality(north(b)) \in 0 .. Cardinality(O)
                     /\ Cardinality(north(b)) <= Cardinality(north(b + 1))
  <2> SUFFICES ASSUME NEW b \in Int
               PROVE  /\ IsFiniteSet(north(b)) /\ Cardinality(north(b)) \in 0 .. Cardinality(O)
                      /\ Cardinality(north(b)) <= Cardinality(north(b + 1))
    OBVIOUS
  <2>1. north(b) \subseteq O /\ north(b + 1) \subseteq O
    OBVIOUS
  <2>2. north(b) \subseteq north(b + 1)
    BY <1>5
  <2>3. IsFiniteSet(north(b)) /\ IsFiniteSet(north(b + 1)) /\ Cardinality(north(b)) <= Cardinality(O)
    BY <1>1, <2>1, FS_Subset
  <2>4. Cardinality(north(b)) <= Cardinality(north(b + 1)) /\ Cardinality(north(b)) \in Nat
    BY <2>2, <2>3, FS_Subset, FS_CardinalityType
  <2> QED
    BY <1>1, <2>3, <2>4
<1> HIDE DEF north
<1>10. \A b \in 0 .. n : bounds[b] = 1 + Cardinality(north(b)) /\ bounds[b] \in 1 .. Cardinality(O) + 1
  BY <1>1, <1>9
<1>11. bounds[0] = 1 /\ bounds[n] = Cardinality(O) + 1
  <2>1. north(0) = {}
    BY <1>5 DEF north
  <2>2. north(n) = O
    BY <1>5 DEF north
  <2>3. Cardinality({}) = 0
    BY FS_EmptySet
  <2> QED
    BY <1>1, <1>10, <2>1, <2>2, <2>3
<1>12. ASSUME NEW i \in O
       PROVE  /\ Cardinality(north(BandOf(i))) <= rank(i)
              /\ rank(i) < Cardinality(north(BandOf(i) + 1))
  <2> DEFINE before == {j \in O : Precedes(j, i)}
  <2>1. before \subseteq O /\ north(BandOf(i)) \subseteq before
    BY <1>2 DEF north
  <2>2. IsFiniteSet(before) /\ rank(i) = Cardinality(before)
    BY <1>1, <2>1, FS_Subset DEF rank
  <2>3. before \subseteq north(BandOf(i) + 1) /\ i \in north(BandOf(i) + 1)
    BY <1>2, <1>5 DEF north
  <2>4. i \notin before
    BY <1>2 DEF Orders
  <2>5. IsFiniteSet(north(BandOf(i) + 1))
    <3>1. BandOf(i) + 1 \in Int
      BY <1>5
    <3> QED
      BY <1>9, <3>1
  <2> HIDE DEF before
  <2>6. before # north(BandOf(i) + 1)
    BY <2>3, <2>4
  <2>7. Cardinality(north(BandOf(i))) <= Cardinality(before)
    BY <2>1, <2>2, FS_Subset
  <2>8. Cardinality(before) <= Cardinality(north(BandOf(i) + 1)) /\ Cardinality(before) # Cardinality(north(BandOf(i) + 1))
    BY <2>3, <2>5, <2>6, FS_Subset
  <2>9. Cardinality(before) \in Nat /\ Cardinality(north(BandOf(i) + 1)) \in Nat
    BY <2>2, <2>5, FS_CardinalityType
  <2> QED
    BY <2>2, <2>7, <2>8, <2>9
<1>13. \A b, c \in Int : b <= c => Cardinality(north(b)) <= Cardinality(north(c))
  <2> SUFFICES ASSUME NEW b \in Int, NEW c \in Int, b <= c
               PROVE  Cardinality(north(b)) <= Cardinality(north(c))
    OBVIOUS
  <2>1. north(b) \subseteq north(c)
    BY <1>5 DEF north
  <2>2. IsFiniteSet(north(c))
    BY <1>9
  <2> QED
    BY <2>1, <2>2, FS_Subset
<1>14. ASSUME NEW b \in 0 .. n - 1
       PROVE  /\ bounds[b] <= bounds[b + 1]
              /\ \A p \in 1 .. Cardinality(O) : BandOf(s[p]) = b <=> bounds[b] <= p /\ p < bounds[b + 1]
  <2>1. b \in 0 .. n /\ b + 1 \in 0 .. n /\ b \in Int
    BY <1>1
  <2>2. /\ bounds[b] = 1 + Cardinality(north(b)) /\ bounds[b + 1] = 1 + Cardinality(north(b + 1))
        /\ bounds[b] \in Int /\ bounds[b + 1] \in Int
    BY <1>10, <2>1
  <2>3. bounds[b] <= bounds[b + 1]
    BY <1>9, <2>1, <2>2
  <2>4. ASSUME NEW p \in 1 .. Cardinality(O)
        PROVE  BandOf(s[p]) = b <=> bounds[b] <= p /\ p < bounds[b + 1]
    <3> DEFINE c == BandOf(s[p])
    <3>1. /\ Cardinality(north(c)) <= p - 1 /\ p - 1 < Cardinality(north(c + 1)) /\ c \in Int
      BY <1>5, <1>7, <1>12
    <3>2. /\ Cardinality(north(c)) \in Int /\ Cardinality(north(c + 1)) \in Int
          /\ Cardinality(north(b)) \in Int /\ Cardinality(north(b + 1)) \in Int
      BY <1>9, <2>1, <3>1
    <3>3. c + 1 <= b => Cardinality(north(c + 1)) <= Cardinality(north(b))
      BY <1>13, <2>1, <3>1
    <3>4. b + 1 <= c => Cardinality(north(b + 1)) <= Cardinality(north(c))
      BY <1>13, <2>1, <3>1
    <3> HIDE DEF c, bounds
    <3>5. c = b => bounds[b] <= p /\ p < bounds[b + 1]
      BY <2>2, <3>1, <3>2
    <3>6. c # b => c + 1 <= b \/ b + 1 <= c
      BY <2>1, <3>1
    <3>7. bounds[b] <= p /\ p < bounds[b + 1] => c = b
      BY <2>2, <3>1, <3>2, <3>3, <3>4, <3>6
    <3> QED
      BY <3>5, <3>7 DEF c
  <2> QED
    BY <2>3, <2>4
<1>15. \A p, q \in 1 .. Cardinality(O) : p < q =>
         /\ BandOf(s[p]) <= BandOf(s[q])
         /\ BandOf(s[p]) = BandOf(s[q]) => LonOf(s[p]) <= LonOf(s[q])
  BY <1>2, <1>7, <1>8
<1> HIDE DEF bounds
<1>16. Sorted(s, bounds)
  BY <1>6, <1>10, <1>11, <1>14, <1>15 DEF Sorted, O, n, NumObs, Bands
<1> QED
  BY <1>16 DEF s, bounds, at, rank, O, n, north

-----------------------------------------------------------------------------
(* Which observations are examined.                                        *)

Id(p)     == validObsIdsInSortOrder[p]
BandAt(p) == BandOf(Id(p))
Half(p)   == PairOpt.halfWidth[BandAt(p)]
Positions == 1 .. NumObs

(* The observation at position p examines the one at position q, if it has  *)
(* not found enough before.                                                *)
Sees(p, q) ==
  /\ BandAt(p) <= BandAt(q)
  /\ \/ /\ BandAt(p) = BandAt(q) => p < q
        /\ Lon(p) - Half(p) <= Lon(q) /\ Lon(q) <= Lon(p) + Half(p)
     \/ /\ Lon(p) + Half(p) > Meridian
        /\ BandAt(p) # BandAt(q) \/ Half(p) < Meridian
        /\ Lon(q) <= Lon(p) + Half(p) - 2 * Meridian
        /\ Lon(q) < Lon(p) - Half(p)
     \/ /\ Lon(p) - Half(p) < -Meridian
        /\ BandAt(p) # BandAt(q)
        /\ Lon(q) >= Lon(p) - Half(p) + 2 * Meridian
        /\ Lon(q) > Lon(p) + Half(p)

Prepared == input \in PairInputs /\ Sorted(validObsIdsInSortOrder, bandLbounds)

LEMMA PositionOK ==
  ASSUME Prepared
  PROVE  /\ NumObs \in Nat /\ Meridian \in Nat \ {0}
         /\ \A p \in Positions :
              /\ Id(p) \in DOMAIN PairObs
              /\ BandAt(p) \in Nat /\ BandAt(p) \in Bands(PairOpt)
              /\ Half(p) \in Nat
              /\ Lon(p) = LonOf(Id(p)) /\ Lon(p) \in Int /\ -Meridian <= Lon(p) /\ Lon(p) <= Meridian
         /\ \A p, q \in Positions : Id(p) = Id(q) => p = q
         /\ \A i \in DOMAIN PairObs : \E p \in Positions : Id(p) = i
         /\ \A p, q \in Positions : p < q =>
              /\ BandAt(p) <= BandAt(q)
              /\ BandAt(p) = BandAt(q) => Lon(p) <= Lon(q)
<1>1. Lists(validObsIdsInSortOrder, DOMAIN PairObs) /\ input \in PairInputs
  BY DEF Prepared, Sorted
<1>2. /\ \A p \in Positions : Id(p) \in DOMAIN PairObs
      /\ \A p, q \in Positions : Id(p) = Id(q) => p = q
      /\ \A i \in DOMAIN PairObs : \E p \in Positions : Id(p) = i
  BY <1>1 DEF Lists, Positions, NumObs, Id
<1>3. /\ NumObs \in Nat /\ Meridian \in Nat \ {0}
      /\ \A i \in DOMAIN PairObs : PairObs[i].lon \in Int /\ PairObs[i].lon \in -Meridian .. Meridian
      /\ \A b \in Bands(PairOpt) : PairOpt.halfWidth[b] \in Nat
  BY <1>1, InputOK
<1>4. ASSUME NEW p \in Positions
      PROVE  /\ BandAt(p) \in Nat /\ BandAt(p) \in Bands(PairOpt)
             /\ Half(p) \in Nat
             /\ Lon(p) = LonOf(Id(p)) /\ Lon(p) \in Int /\ -Meridian <= Lon(p) /\ Lon(p) <= Meridian
  <2>1. BandAt(p) \in Nat /\ BandAt(p) \in Bands(PairOpt)
    BY <1>1, <1>2, BandBounds DEF BandAt
  <2> QED
    BY <1>2, <1>3, <2>1 DEF Half, Lon, LonOf, Id
<1>5. \A p, q \in Positions : p < q =>
        /\ BandOf(Id(p)) <= BandOf(Id(q))
        /\ BandOf(Id(p)) = BandOf(Id(q)) => LonOf(Id(p)) <= LonOf(Id(q))
  BY DEF Prepared, Sorted, Positions, Id
<1>6. \A p, q \in Positions : p < q =>
              /\ BandAt(p) <= BandAt(q)
              /\ BandAt(p) = BandAt(q) => Lon(p) <= Lon(q)
  BY <1>4, <1>5 DEF BandAt
<1> QED
  BY <1>2, <1>3, <1>4, <1>6

(* No two observations see each other, and none sees itself.                *)
LEMMA SeesOneWay ==
  ASSUME Prepared, NEW p \in Positions, NEW q \in Positions, Sees(p, q)
  PROVE  p # q /\ ~Sees(q, p) /\ Id(p) # Id(q)
<1>1. /\ Meridian \in Int /\ Meridian > 0 /\ p \in Int /\ q \in Int
      /\ BandAt(p) \in Int /\ Half(p) \in Int /\ Half(p) >= 0 /\ Lon(p) \in Int
      /\ BandAt(q) \in Int /\ Half(q) \in Int /\ Half(q) >= 0 /\ Lon(q) \in Int
      /\ -Meridian <= Lon(p) /\ Lon(p) <= Meridian
      /\ -Meridian <= Lon(q) /\ Lon(q) <= Meridian
      /\ Id(p) = Id(q) => p = q
      /\ p < q /\ BandAt(p) = BandAt(q) => Lon(p) <= Lon(q)
      /\ q < p /\ BandAt(p) = BandAt(q) => Lon(q) <= Lon(p)
  BY PositionOK DEF Positions
<1>2. BandAt(p) = BandAt(q) => Half(p) = Half(q)
  BY DEF Half
<1>3. p # q
  BY <1>1 DEF Sees
<1>4. CASE BandAt(p) # BandAt(q)
  BY <1>1, <1>3, <1>4 DEF Sees
<1>5. CASE BandAt(p) = BandAt(q)
  BY <1>1, <1>2, <1>3, <1>5 DEF Sees
<1> QED
  BY <1>1, <1>3, <1>4, <1>5

(* obsA is the position of an observation of the current band.             *)
Searching ==
  /\ Prepared
  /\ jBandA \in Bands(PairOpt)
  /\ obsA \in Positions /\ BandAt(obsA) = jBandA

(* The search in band b leaves out nothing in the range of longitudes.      *)
NothingSkipped(b) ==
  b # jBandA =>
    /\ firstObsToCheckInBands[b] \in Int
    /\ \A q \in Positions : BandAt(q) = b /\ q < firstObsToCheckInBands[b] => Lon(q) < Lon(obsA) - Half(obsA)

SeenIn(b) == {q \in Positions : BandAt(q) = b /\ Sees(obsA, q)}

LEMMA FilledIs ==
  ASSUME Prepared, NEW b \in Bands(PairOpt)
  PROVE  /\ Filled(b) = {q \in Positions : BandAt(q) = b}
         /\ Filled(b) \subseteq Int /\ IsFiniteSet(Filled(b))
         /\ BandBegin(b) \in 1 .. NumObs + 1 /\ BandEnd(b) \in 1 .. NumObs + 1
         /\ BandBegin(b) <= BandEnd(b)
<1>1. PairOpt.numZonalBands \in Nat /\ NumObs \in Nat
  BY InputOK DEF Prepared
<1>2. b \in 0 .. PairOpt.numZonalBands /\ b + 1 \in 0 .. PairOpt.numZonalBands
  BY <1>1 DEF Bands
<1>3. /\ bandLbounds[b] \in 1 .. NumObs + 1 /\ bandLbounds[b + 1] \in 1 .. NumObs + 1
      /\ bandLbounds[b] <= bandLbounds[b + 1]
      /\ \A p \in Positions : BandAt(p) = b <=> bandLbounds[b] <= p /\ p < bandLbounds[b + 1]
  BY <1>2 DEF Prepared, Sorted, Positions, BandAt, Id
<1>4. Filled(b) = bandLbounds[b] .. bandLbounds[b + 1] - 1
  BY DEF Filled, BandBegin, BandEnd
<1>5. Filled(b) = {q \in Positions : BandAt(q) = b}
  BY <1>1, <1>3, <1>4 DEF Positions
<1>6. bandLbounds[b] \in Int /\ bandLbounds[b + 1] - 1 \in Int
  BY <1>1, <1>3
<1>7. IsFiniteSet(Filled(b)) /\ Filled(b) \subseteq Int
  BY <1>4, <1>6, FS_Interval
<1> QED
  BY <1>3, <1>5, <1>7 DEF BandBegin, BandEnd

LEMMA LoopsAre ==
  ASSUME Searching, NEW b \in Bands(PairOpt), jBandA <= b, NothingSkipped(b)
  PROVE  /\ FirstLoop(b) \cup SecondLoop(b) \cup ThirdLoop(b) = SeenIn(b)
         /\ FirstLoop(b) \cap SecondLoop(b) = {}
         /\ (FirstLoop(b) \cup SecondLoop(b)) \cap ThirdLoop(b) = {}
<1> DEFINE lo == Lon(obsA) - Half(obsA)
           hi == Lon(obsA) + Half(obsA)
<1>1. /\ NumObs \in Nat /\ Meridian \in Nat /\ obsA \in Positions
      /\ \A p \in Positions : Lon(p) \in Int /\ p \in Int
      /\ Half(obsA) \in Nat /\ Lon(obsA) \in Int
  <2>1. obsA \in Positions /\ Prepared
    BY DEF Searching
  <2> QED
    BY <2>1, PositionOK DEF Positions
<1>2. MinLonToCheck = lo /\ MaxLonToCheck = hi /\ HalfWidth = Half(obsA)
  BY DEF MinLonToCheck, MaxLonToCheck, HalfWidth, obsIdA, Half, Searching, BandAt, Id, Lon
<1>3. lo \in Int /\ hi \in Int /\ lo <= hi
  BY <1>1
<1>4. Filled(b) = {q \in Positions : BandAt(q) = b}
  BY FilledIs DEF Searching
<1>5. BandAt(obsA) = jBandA
  BY DEF Searching
<1>6. ASSUME NEW q \in Positions, BandAt(q) = b
      PROVE  /\ q \in FirstLoop(b) <=> /\ b = jBandA => obsA < q
                                       /\ lo <= Lon(q) /\ Lon(q) <= hi
             /\ q \in SecondLoop(b) <=> /\ hi > Meridian
                                        /\ b # jBandA \/ Half(obsA) < Meridian
                                        /\ Lon(q) <= hi - 2 * Meridian
                                        /\ Lon(q) < lo
             /\ q \in ThirdLoop(b) <=> /\ lo < -Meridian /\ b # jBandA
                                       /\ Lon(q) >= lo + 2 * Meridian
                                       /\ Lon(q) > hi
  <2>1. q \in Filled(b) /\ q \in Int /\ Lon(q) \in Int /\ obsA \in Int
    BY <1>1, <1>4, <1>6
  <2>2. q \in FirstLoop(b) <=> /\ q >= (IF b = jBandA THEN obsA + 1 ELSE firstObsToCheckInBands[b])
                               /\ lo <= Lon(q) /\ Lon(q) <= hi
    BY <1>2, <2>1 DEF FirstLoop
  <2>3. q \in FirstLoop(b) <=> /\ b = jBandA => obsA < q
                               /\ lo <= Lon(q) /\ Lon(q) <= hi
    <3>1. CASE b = jBandA
      BY <2>1, <2>2, <3>1
    <3>2. CASE b # jBandA
      <4>1. /\ firstObsToCheckInBands[b] \in Int
            /\ q < firstObsToCheckInBands[b] => Lon(q) < lo
        BY <1>6, <3>2 DEF NothingSkipped
      <4> HIDE DEF lo, hi
      <4> QED
        BY <1>3, <2>1, <2>2, <3>2, <4>1
    <3> QED
      BY <3>1, <3>2
  <2>4. q \in SecondLoop(b) <=> /\ hi > Meridian
                                /\ b # jBandA \/ Half(obsA) < Meridian
                                /\ Lon(q) <= hi - 2 * Meridian
                                /\ Lon(q) < lo
    BY <1>2, <2>1 DEF SecondLoop
  <2>5. q \in ThirdLoop(b) <=> /\ lo < -Meridian /\ b # jBandA
                               /\ Lon(q) >= lo + 2 * Meridian
                               /\ Lon(q) > hi
    BY <1>2, <2>1 DEF ThirdLoop
  <2> QED
    BY <2>3, <2>4, <2>5
<1>7. \A q : q \in FirstLoop(b) \/ q \in SecondLoop(b) \/ q \in ThirdLoop(b) => q \in Positions /\ BandAt(q) = b
  BY <1>4 DEF FirstLoop, SecondLoop, ThirdLoop
<1>8. ASSUME NEW q \in Positions, BandAt(q) = b
      PROVE  Sees(obsA, q) <=> q \in FirstLoop(b) \/ q \in SecondLoop(b) \/ q \in ThirdLoop(b)
  <2>1. /\ jBandA <= BandAt(q) /\ BandAt(q) = b
        /\ BandAt(obsA) = BandAt(q) <=> b = jBandA
    BY <1>5, <1>8
  <2>2. Sees(obsA, q) <=>
          \/ /\ b = jBandA => obsA < q
             /\ lo <= Lon(q) /\ Lon(q) <= hi
          \/ /\ hi > Meridian
             /\ b # jBandA \/ Half(obsA) < Meridian
             /\ Lon(q) <= hi - 2 * Meridian
             /\ Lon(q) < lo
          \/ /\ lo < -Meridian /\ b # jBandA
             /\ Lon(q) >= lo + 2 * Meridian
             /\ Lon(q) > hi
    BY <1>1, <1>5, <2>1 DEF Sees
  <2> HIDE DEF lo, hi
  <2> QED
    BY <1>6, <1>8, <2>2
<1>9. \A q \in Positions : BandAt(q) = b =>
        /\ ~(q \in FirstLoop(b) /\ q \in SecondLoop(b))
        /\ ~(q \in FirstLoop(b) /\ q \in ThirdLoop(b))
        /\ ~(q \in SecondLoop(b) /\ q \in ThirdLoop(b))
  <2> HIDE DEF lo, hi
  <2> QED
    BY <1>1, <1>3, <1>6
<1> QED
  BY <1>7, <1>8, <1>9 DEF SeenIn

LEMMA PotentialBuddiesAre ==
  ASSUME Searching, NEW b \in Bands(PairOpt), jBandA <= b, NothingSkipped(b)
  PROVE  /\ PotentialBuddies(b) \in Seq(SeenIn(b)) /\ Lists(PotentialBuddies(b), SeenIn(b))
         /\ IsFiniteSet(SeenIn(b)) /\ Len(PotentialBuddies(b)) = Cardinality(SeenIn(b))
<1> DEFINE F == FirstLoop(b)
           S == SecondLoop(b)
           T == ThirdLoop(b)
<1>1. /\ F \cup S \cup T = SeenIn(b) /\ F \cap S = {} /\ (F \cup S) \cap T = {}
  BY LoopsAre
<1>2. /\ IsFiniteSet(F) /\ IsFiniteSet(S) /\ IsFiniteSet(T)
      /\ F \subseteq Int /\ S \subseteq Int /\ T \subseteq Int
  <2>1. IsFiniteSet(Filled(b)) /\ Filled(b) \subseteq Int
    BY FilledIs DEF Searching
  <2>2. F \subseteq Filled(b) /\ S \subseteq Filled(b) /\ T \subseteq Filled(b)
    BY DEF FirstLoop, SecondLoop, ThirdLoop
  <2> QED
    BY <2>1, <2>2, FS_Subset
<1> HIDE DEF F, S, T
<1>3. ASSUME NEW Q, IsFiniteSet(Q), Q \subseteq Int
      PROVE  /\ Ascending(Q) \in Seq(Q) /\ Lists(Ascending(Q), Q)
             /\ Descending(Q) \in Seq(Q) /\ Lists(Descending(Q), Q)
  <2> DEFINE n == Cardinality(Q)
             up(k) == CHOOSE p \in Q : Cardinality({q \in Q : q < p}) = k - 1
             down(k) == CHOOSE p \in Q : Cardinality({q \in Q : q > p}) = k - 1
  <2>1. n \in Nat
    BY <1>3, FS_CardinalityType
  <2>2. Ascending(Q) = [k \in 1 .. n |-> up(k)] /\ Descending(Q) = [k \in 1 .. n |-> down(k)]
    BY DEF Ascending, Descending
  <2>3. Lists([k \in 1 .. n |-> up(k)], Q) /\ Lists([k \in 1 .. n |-> down(k)], Q)
    BY <1>3, AscendingLists, DescendingLists
  <2> HIDE DEF n, up, down
  <2>4. (\A k \in 1 .. n : up(k) \in Q) /\ (\A k \in 1 .. n : down(k) \in Q)
    <3>1. \A k \in 1 .. n : [l \in 1 .. n |-> up(l)][k] = up(k) /\ [l \in 1 .. n |-> down(l)][k] = down(k)
      OBVIOUS
    <3> QED
      BY <2>3, <3>1 DEF Lists
  <2> QED
    BY <2>1, <2>2, <2>3, <2>4
<1>4. PotentialBuddies(b) = Ascending(F) \o Ascending(S) \o Descending(T)
  BY DEF PotentialBuddies, F, S, T
<1>5. /\ Ascending(F) \o Ascending(S) \in Seq(F \cup S) /\ Lists(Ascending(F) \o Ascending(S), F \cup S)
      /\ IsFiniteSet(F \cup S)
  BY <1>1, <1>2, <1>3, ListsConcat
<1> DEFINE both == Ascending(F) \o Ascending(S)
           D == Descending(T)
<1>6. D \in Seq(T) /\ Lists(D, T)
  BY <1>2, <1>3
<1> HIDE DEF both, D
<1>7. /\ both \o D \in Seq((F \cup S) \cup T) /\ Lists(both \o D, (F \cup S) \cup T)
      /\ Len(both \o D) = Cardinality((F \cup S) \cup T) /\ IsFiniteSet((F \cup S) \cup T)
  <2>1. both \in Seq(F \cup S) /\ Lists(both, F \cup S)
    BY <1>5 DEF both
  <2> QED
    BY <1>1, <1>2, <1>5, <1>6, <2>1, ListsConcat
<1> QED
  BY <1>1, <1>4, <1>7 DEF both, D

-----------------------------------------------------------------------------
(* The collector of the buddies of one observation.                        *)

Chosen(c)    == ToSet(c.buddies)
InBand(c, b) == {i \in Chosen(c) : BandOf(i) = b}
OfStation(c) == {i \in Chosen(c) : SameStation(obsIdA, i)}

Acceptable(i) == IF PairOpt.useLegacyBuddyCollector THEN LatWithin(obsIdA, i) ELSE WithinRadius(obsIdA, i)

NoRoom(c, i) ==
  \/ Len(c.buddies) = PairOpt.maxTotalNumBuddies
  \/ Cardinality(InBand(c, BandOf(i))) = PairOpt.maxNumBuddiesFromSingleBand
  \/ SameStation(obsIdA, i) /\ c.sameStation = PairOpt.maxNumBuddiesWithSameStationId

(* The observations at positions Q have been examined.                     *)
CollectorOK(c, Q) ==
  /\ c.buddies \in Seq(DOMAIN PairObs)
  /\ \A k, m \in DOMAIN c.buddies : c.buddies[k] = c.buddies[m] => k = m
  /\ IsFiniteSet(Chosen(c)) /\ Cardinality(Chosen(c)) = Len(c.buddies)
  /\ \A i \in Chosen(c) : Acceptable(i) /\ \E q \in Q : Id(q) = i
  /\ Len(c.buddies) <= PairOpt.maxTotalNumBuddies
  /\ \A b \in Bands(PairOpt) : Cardinality(InBand(c, b)) <= PairOpt.maxNumBuddiesFromSingleBand
  /\ c.sameStation \in Nat /\ c.sameStation <= PairOpt.maxNumBuddiesWithSameStationId
  /\ Cardinality(OfStation(c)) <= c.sameStation
  /\ ~PairOpt.useLegacyBuddyCollector =>
       /\ Cardinality(OfStation(c)) = c.sameStation
       /\ \A q \in Q : WithinRadius(obsIdA, Id(q)) => Id(q) \in Chosen(c) \/ NoRoom(c, Id(q))

LEMMA ChosenSubsets ==
  ASSUME NEW c, IsFiniteSet(Chosen(c))
  PROVE  /\ \A b : IsFiniteSet(InBand(c, b)) /\ Cardinality(InBand(c, b)) \in Nat
         /\ IsFiniteSet(OfStation(c)) /\ Cardinality(OfStation(c)) \in Nat
         /\ Cardinality(Chosen(c)) \in Nat
<1>1. \A b : InBand(c, b) \subseteq Chosen(c)
  BY DEF InBand
<1>2. OfStation(c) \subseteq Chosen(c)
  BY DEF OfStation
<1> QED
  BY <1>1, <1>2, FS_Subset, FS_CardinalityType

(* One more buddy.                                                         *)
LEMMA OneMore ==
  ASSUME NEW c, NEW d, NEW i \in DOMAIN PairObs, c.buddies \in Seq(DOMAIN PairObs),
         \A k, m \in DOMAIN c.buddies : c.buddies[k] = c.buddies[m] => k = m,
         IsFiniteSet(Chosen(c)), i \notin Chosen(c),
         d.buddies = Append(c.buddies, i)
  PROVE  /\ d.buddies \in Seq(DOMAIN PairObs) /\ Len(d.buddies) = Len(c.buddies) + 1
         /\ \A k, m \in DOMAIN d.buddies : d.buddies[k] = d.buddies[m] => k = m
         /\ Chosen(d) = Chosen(c) \cup {i} /\ IsFiniteSet(Chosen(d))
         /\ Cardinality(Chosen(d)) = Cardinality(Chosen(c)) + 1
         /\ \A b : Cardinality(InBand(d, b)) = Cardinality(InBand(c, b)) + (IF BandOf(i) = b THEN 1 ELSE 0)
         /\ Cardinality(OfStation(d)) = Cardinality(OfStation(c)) + (IF SameStation(obsIdA, i) THEN 1 ELSE 0)
<1> DEFINE s == c.buddies
           t == d.buddies
           n == Len(s)
<1>1. /\ t \in Seq(DOMAIN PairObs) /\ Len(t) = n + 1 /\ n \in Nat
      /\ DOMAIN s = 1 .. n /\ DOMAIN t = 1 .. n + 1
      /\ \A k \in 1 .. n : t[k] = s[k]
      /\ t[n + 1] = i
  OBVIOUS
<1>2. \A k \in 1 .. n : s[k] \in Chosen(c)
  BY <1>1 DEF Chosen, ToSet
<1> HIDE DEF s, t, n
<1>3. \A k \in 1 .. n + 1 : k \in 1 .. n \/ k = n + 1
  BY <1>1
<1>4. \A k \in 1 .. n : k \in 1 .. n + 1
  BY <1>1
<1>5. \A k, m \in 1 .. n + 1 : t[k] = t[m] => k = m
  <2> SUFFICES ASSUME NEW k \in 1 .. n + 1, NEW m \in 1 .. n + 1, t[k] = t[m] PROVE k = m
    OBVIOUS
  <2>1. CASE k \in 1 .. n /\ m \in 1 .. n
    <3>1. s[k] = s[m]
      BY <1>1, <2>1
    <3> QED
      BY <1>1, <2>1, <3>1 DEF s
  <2>2. CASE k = n + 1 /\ m \in 1 .. n
    BY <1>1, <1>2, <2>2
  <2>3. CASE m = n + 1 /\ k \in 1 .. n
    BY <1>1, <1>2, <2>3
  <2> QED
    BY <1>3, <2>1, <2>2, <2>3
<1>6. Chosen(d) = Chosen(c) \cup {i}
  <2>1. Chosen(d) = {t[k] : k \in 1 .. n + 1} /\ Chosen(c) = {s[k] : k \in 1 .. n}
    BY <1>1 DEF Chosen, ToSet, s, t
  <2>2. n + 1 \in 1 .. n + 1
    BY <1>1
  <2>3. \A x \in Chosen(d) : x \in Chosen(c) \/ x = i
    BY <1>1, <1>3, <2>1
  <2>4. \A x \in Chosen(c) : x \in Chosen(d)
    BY <1>1, <1>4, <2>1
  <2>5. i \in Chosen(d)
    BY <1>1, <2>1, <2>2
  <2> QED
    BY <2>3, <2>4, <2>5
<1>7. IsFiniteSet(Chosen(d)) /\ Cardinality(Chosen(d)) = Cardinality(Chosen(c)) + 1
  BY <1>6, FS_AddElement
<1>8. ASSUME NEW b
      PROVE  Cardinality(InBand(d, b)) = Cardinality(InBand(c, b)) + (IF BandOf(i) = b THEN 1 ELSE 0)
  <2>1. IsFiniteSet(InBand(c, b)) /\ i \notin InBand(c, b) /\ Cardinality(InBand(c, b)) \in Nat
    BY ChosenSubsets DEF InBand
  <2>2. CASE BandOf(i) = b
    <3>1. InBand(d, b) = InBand(c, b) \cup {i}
      BY <1>6, <2>2 DEF InBand
    <3>2. Cardinality(InBand(c, b) \cup {i}) = Cardinality(InBand(c, b)) + 1
      BY <2>1, FS_AddElement
    <3> QED
      BY <2>2, <3>1, <3>2
  <2>3. CASE BandOf(i) # b
    <3>1. InBand(d, b) = InBand(c, b)
      BY <1>6, <2>3 DEF InBand
    <3> QED
      BY <2>1, <2>3, <3>1
  <2> QED
    BY <2>2, <2>3
<1>9. Cardinality(OfStation(d)) = Cardinality(OfStation(c)) + (IF SameStation(obsIdA, i) THEN 1 ELSE 0)
  <2>1. IsFiniteSet(OfStation(c)) /\ i \notin OfStation(c) /\ Cardinality(OfStation(c)) \in Nat
    BY ChosenSubsets DEF OfStation
  <2>2. CASE SameStation(obsIdA, i)
    <3>1. OfStation(d) = OfStation(c) \cup {i}
      BY <1>6, <2>2 DEF OfStation
    <3>2. Cardinality(OfStation(c) \cup {i}) = Cardinality(OfStation(c)) + 1
      BY <2>1, FS_AddElement
    <3> QED
      BY <2>2, <3>1, <3>2
  <2>3. CASE ~SameStation(obsIdA, i)
    <3>1. OfStation(d) = OfStation(c)
      BY <1>6, <2>3 DEF OfStation
    <3> QED
      BY <2>1, <2>3, <3>1
  <2> QED
    BY <2>2, <2>3
<1> QED
  BY <1>1, <1>5, <1>6, <1>7, <1>8, <1>9 DEF s, t, n

LEMMA ExamineOK ==
  ASSUME Searching, NEW c, NEW Q \in SUBSET Positions, CollectorOK(c, Q),
         NEW x \in Positions, x \notin Q, c.inBand = Cardinality(InBand(c, BandAt(x))), ~FoundEnough(c)
  PROVE  LET d == ExaminePotentialBuddy(c, Id(x)) IN
         CollectorOK(d, Q \cup {x}) /\ d.inBand = Cardinality(InBand(d, BandAt(x)))
<1> DEFINE i == Id(x)
           d == ExaminePotentialBuddy(c, i)
           b == BandAt(x)
           legacy == PairOpt.useLegacyBuddyCollector
           same == SameStation(obsIdA, i)
           maxStation == PairOpt.maxNumBuddiesWithSameStationId
           maxBand == PairOpt.maxNumBuddiesFromSingleBand
           maxAll == PairOpt.maxTotalNumBuddies
           accepted == Acceptable(i)
           counted == same /\ (legacy \/ accepted)
<1>1. Prepared
  BY DEF Searching
<1>2. i \in DOMAIN PairObs /\ b = BandOf(i) /\ b \in Bands(PairOpt)
  BY <1>1, PositionOK DEF BandAt
<1>3. i \notin Chosen(c)
  <2>1. ASSUME i \in Chosen(c) PROVE FALSE
    <3>1. PICK q \in Q : Id(q) = i
      BY <2>1 DEF CollectorOK
    <3>2. q = x
      BY <1>1, <3>1, PositionOK
    <3> QED
      BY <3>2
  <2> QED
    BY <2>1
<1>4. /\ maxStation \in Nat /\ maxBand \in Nat /\ maxAll \in Nat /\ legacy \in BOOLEAN
  BY <1>1, InputOK DEF Prepared
<1>5. /\ c.buddies \in Seq(DOMAIN PairObs) /\ Len(c.buddies) \in Nat
      /\ \A k, m \in DOMAIN c.buddies : c.buddies[k] = c.buddies[m] => k = m
      /\ IsFiniteSet(Chosen(c)) /\ Cardinality(Chosen(c)) = Len(c.buddies)
      /\ \A j \in Chosen(c) : Acceptable(j) /\ \E q \in Q : Id(q) = j
      /\ Len(c.buddies) <= maxAll
      /\ \A e \in Bands(PairOpt) : Cardinality(InBand(c, e)) <= maxBand
      /\ c.sameStation \in Nat /\ c.sameStation <= maxStation
      /\ Cardinality(OfStation(c)) <= c.sameStation
      /\ ~legacy =>
           /\ Cardinality(OfStation(c)) = c.sameStation
           /\ \A q \in Q : WithinRadius(obsIdA, Id(q)) => Id(q) \in Chosen(c) \/ NoRoom(c, Id(q))
  BY DEF CollectorOK
<1>6. /\ \A e : Cardinality(InBand(c, e)) \in Nat
      /\ Cardinality(OfStation(c)) \in Nat
  BY <1>5, ChosenSubsets
<1>7. Len(c.buddies) < maxAll /\ Cardinality(InBand(c, b)) < maxBand
  <2>1. Len(c.buddies) # maxAll /\ Cardinality(InBand(c, b)) # maxBand
    BY DEF FoundEnough
  <2> QED
    BY <1>2, <1>4, <1>5, <1>6, <2>1
<1>8. CASE same /\ c.sameStation >= maxStation
  <2>1. d = c
    BY <1>8 DEF ExaminePotentialBuddy
  <2>2. c.sameStation = maxStation
    BY <1>4, <1>5, <1>8
  <2>3. NoRoom(c, i)
    BY <1>8, <2>2 DEF NoRoom
  <2>4. CollectorOK(c, Q \cup {x})
    BY <1>5, <2>3 DEF CollectorOK
  <2> QED
    BY <2>1, <2>4
<1>9. CASE ~(same /\ c.sameStation >= maxStation)
  <2>1. d = [buddies |-> IF accepted THEN Append(c.buddies, i) ELSE c.buddies,
             inBand |-> c.inBand + (IF accepted THEN 1 ELSE 0),
             sameStation |-> c.sameStation + (IF counted THEN 1 ELSE 0)]
    BY <1>9 DEF ExaminePotentialBuddy, Acceptable
  <2>2. /\ d.buddies = IF accepted THEN Append(c.buddies, i) ELSE c.buddies
        /\ d.inBand = c.inBand + (IF accepted THEN 1 ELSE 0)
        /\ d.sameStation = c.sameStation + (IF counted THEN 1 ELSE 0)
    BY <2>1
  <2>3. same => c.sameStation < maxStation
    BY <1>4, <1>5, <1>9
  <2>4. d.sameStation \in Nat /\ d.sameStation <= maxStation
    BY <1>4, <1>5, <2>2, <2>3
  <2> HIDE DEF d
  <2>5. CASE accepted
    <3>1. d.buddies = Append(c.buddies, i)
      BY <2>2, <2>5
    <3>2. /\ d.buddies \in Seq(DOMAIN PairObs) /\ Len(d.buddies) = Len(c.buddies) + 1
          /\ \A k, m \in DOMAIN d.buddies : d.buddies[k] = d.buddies[m] => k = m
          /\ Chosen(d) = Chosen(c) \cup {i} /\ IsFiniteSet(Chosen(d))
          /\ Cardinality(Chosen(d)) = Cardinality(Chosen(c)) + 1
          /\ \A e : Cardinality(InBand(d, e)) = Cardinality(InBand(c, e)) + (IF BandOf(i) = e THEN 1 ELSE 0)
          /\ Cardinality(OfStation(d)) = Cardinality(OfStation(c)) + (IF same THEN 1 ELSE 0)
      BY <1>2, <1>3, <1>5, <3>1, OneMore
    <3>3. d.sameStation = c.sameStation + (IF same THEN 1 ELSE 0)
      BY <2>2, <2>5
    <3>4. d.inBand = Cardinality(InBand(d, b))
      BY <1>2, <1>6, <2>2, <2>5, <3>2
    <3>5. Len(d.buddies) <= maxAll
      BY <1>4, <1>5, <1>7, <3>2
    <3>6. \A e \in Bands(PairOpt) : Cardinality(InBand(d, e)) <= maxBand
      <4> SUFFICES ASSUME NEW e \in Bands(PairOpt) PROVE Cardinality(InBand(d, e)) <= maxBand
        OBVIOUS
      <4>1. Cardinality(InBand(d, e)) = Cardinality(InBand(c, e)) + (IF b = e THEN 1 ELSE 0)
        BY <1>2, <3>2
      <4>2. Cardinality(InBand(c, e)) <= maxBand /\ Cardinality(InBand(c, e)) \in Nat
        BY <1>5, <1>6
      <4>3. CASE b = e
        BY <1>4, <1>7, <4>1, <4>2, <4>3
      <4>4. CASE b # e
        BY <1>4, <4>1, <4>2, <4>4
      <4> QED
        BY <4>3, <4>4
    <3>7. /\ Cardinality(OfStation(d)) <= d.sameStation
          /\ ~legacy => Cardinality(OfStation(d)) = d.sameStation
      BY <1>5, <1>6, <3>2, <3>3
    <3>8. \A j \in Chosen(d) : Acceptable(j) /\ \E q \in Q \cup {x} : Id(q) = j
      BY <1>5, <2>5, <3>2
    <3>9. ASSUME ~legacy, NEW q \in Q \cup {x}, WithinRadius(obsIdA, Id(q))
          PROVE  Id(q) \in Chosen(d) \/ NoRoom(d, Id(q))
      <4>1. CASE q = x
        BY <3>2, <4>1
      <4>2. CASE q # x
        <5>1. Id(q) \in Chosen(c) \/ NoRoom(c, Id(q))
          BY <1>5, <3>9, <4>2
        <5>2. CASE Id(q) \in Chosen(c)
          BY <3>2, <5>2
        <5>3. CASE NoRoom(c, Id(q))
          <6>1. Len(c.buddies) # maxAll
            BY <1>4, <1>5, <1>7
          <6>2. ASSUME Cardinality(InBand(c, BandOf(Id(q)))) = maxBand
                PROVE  Cardinality(InBand(d, BandOf(Id(q)))) = maxBand
            <7>1. b # BandOf(Id(q))
              BY <1>4, <1>6, <1>7, <6>2
            <7>2. Cardinality(InBand(d, BandOf(Id(q)))) = Cardinality(InBand(c, BandOf(Id(q)))) + 0
              BY <1>2, <3>2, <7>1
            <7> QED
              BY <1>6, <6>2, <7>2
          <6>3. ASSUME SameStation(obsIdA, Id(q)), c.sameStation = maxStation
                PROVE  d.sameStation = maxStation
            <7>1. ~same
              BY <1>4, <2>3, <6>3
            <7> QED
              BY <1>4, <3>3, <6>3, <7>1
          <6> QED
            BY <5>3, <6>1, <6>2, <6>3 DEF NoRoom
        <5> QED
          BY <5>1, <5>2, <5>3
      <4> QED
        BY <4>1, <4>2
    <3>10. Cardinality(Chosen(d)) = Len(d.buddies)
      BY <1>5, <3>2
    <3>11. CollectorOK(d, Q \cup {x})
      BY <2>4, <3>2, <3>5, <3>6, <3>7, <3>8, <3>9, <3>10 DEF CollectorOK
    <3> QED
      BY <3>4, <3>11 DEF d
  <2>6. CASE ~accepted
    <3>1. /\ d.buddies = c.buddies /\ Chosen(d) = Chosen(c) /\ OfStation(d) = OfStation(c)
          /\ \A e : InBand(d, e) = InBand(c, e)
      BY <2>2, <2>6 DEF Chosen, OfStation, InBand
    <3>2. d.inBand = Cardinality(InBand(d, b))
      BY <1>6, <2>2, <2>6, <3>1
    <3>3. /\ c.sameStation <= d.sameStation
          /\ ~legacy => d.sameStation = c.sameStation
      BY <1>5, <2>2, <2>6
    <3>4. ASSUME ~legacy, NEW q \in Q \cup {x}, WithinRadius(obsIdA, Id(q))
          PROVE  Id(q) \in Chosen(d) \/ NoRoom(d, Id(q))
      <4>1. q # x
        BY <2>6, <3>4 DEF Acceptable
      <4>2. Id(q) \in Chosen(c) \/ NoRoom(c, Id(q))
        BY <1>5, <3>4, <4>1
      <4> QED
        BY <3>1, <3>3, <3>4, <4>2 DEF NoRoom
    <3>5. Cardinality(OfStation(d)) <= d.sameStation
      BY <1>5, <1>6, <2>4, <3>1, <3>3
    <3>6. CollectorOK(d, Q \cup {x})
      BY <1>5, <2>4, <3>1, <3>3, <3>4, <3>5 DEF CollectorOK
    <3> QED
      BY <3>2, <3>6 DEF d
  <2> QED
    BY <2>5, <2>6
<1> QED
  BY <1>8, <1>9

-----------------------------------------------------------------------------
(* The loop over the observations of a band.                               *)

Collector0 == [buddies |-> buddies, inBand |-> 0, sameStation |-> numBuddiesWithSameStationId]

Examined(c, p) == IF FoundEnough(c) THEN c ELSE ExaminePotentialBuddy(c, Id(p))

Collecting(f, b, n) ==
  f = [k \in 0 .. n |-> IF k = 0 THEN Collector0 ELSE Examined(f[k - 1], PotentialBuddies(b)[k])]

LEMMA CollectingUnfolds ==
  ASSUME NEW b, NEW n, NEW f, Collecting(f, b, n)
  PROVE  \A k \in 0 .. n :
           f[k] = IF k = 0 THEN Collector0 ELSE Examined(f[k - 1], PotentialBuddies(b)[k])
<1> DEFINE e(k) == IF k = 0 THEN Collector0 ELSE Examined(f[k - 1], PotentialBuddies(b)[k])
           h == [k \in 0 .. n |-> e(k)]
<1>1. f = h
  BY DEF Collecting
<1>2. \A k \in 0 .. n : h[k] = e(k)
  <2> HIDE DEF e
  <2> QED
    OBVIOUS
<1> HIDE DEF h
<1> QED
  BY <1>1, <1>2

LEMMA CollectingExists ==
  ASSUME NEW b, NEW n \in Nat
  PROVE  \E f : Collecting(f, b, n)
<1> DEFINE Bad == {k \in Nat : ~\E f : Collecting(f, b, k)}
           next(c, k) == Examined(c, PotentialBuddies(b)[k])
<1>1. SUFFICES ASSUME Bad # {} PROVE FALSE
  OBVIOUS
<1>2. PICK k \in Bad : \A y \in Bad : k <= y
  <2>1. Bad \in SUBSET Nat
    OBVIOUS
  <2> HIDE DEF Bad
  <2> QED
    BY <1>1, <2>1, LeastMember
<1>3. k \in Nat /\ ~\E f : Collecting(f, b, k)
  OBVIOUS
<1>4. k # 0
  <2>1. ASSUME k = 0 PROVE FALSE
    <3> DEFINE f == [i \in 0 .. 0 |-> Collector0]
    <3>1. \A i \in 0 .. 0 : i = 0
      OBVIOUS
    <3>2. [i \in 0 .. 0 |-> Collector0] = [i \in 0 .. 0 |-> IF i = 0 THEN Collector0 ELSE next(f[i - 1], i)]
      <4> HIDE DEF f, next
      <4> QED
        BY <3>1
    <3>3. Collecting(f, b, 0)
      BY <3>2 DEF Collecting
    <3> QED
      BY <1>3, <2>1, <3>3
  <2> QED
    BY <2>1
<1>5. k - 1 \in Nat /\ k - 1 \notin Bad
  BY <1>2, <1>3, <1>4
<1>6. PICK f : Collecting(f, b, k - 1)
  BY <1>5
<1> HIDE DEF Bad
<1>7. \A i \in 0 .. k - 1 : f[i] = IF i = 0 THEN Collector0 ELSE next(f[i - 1], i)
  BY <1>6, CollectingUnfolds
<1>8. \A g : Collecting(g, b, k) <=> g = [i \in 0 .. k |-> IF i = 0 THEN Collector0 ELSE next(g[i - 1], i)]
  BY DEF Collecting
<1> HIDE DEF next
<1> DEFINE e(i) == IF i = 0 THEN Collector0 ELSE next(f[i - 1], i)
           g    == [i \in 0 .. k |-> e(i)]
           r(i) == IF i = 0 THEN Collector0 ELSE next(g[i - 1], i)
<1>9. \A i \in 0 .. k : i # 0 => i - 1 \in 0 .. k - 1 /\ i - 1 \in 0 .. k
  BY <1>3
<1>10. \A i \in 0 .. k : g[i] = e(i)
  <2> HIDE DEF e
  <2> QED
    OBVIOUS
<1>11. \A i \in 0 .. k : e(i) = r(i)
  <2>1. \A i \in 0 .. k : i # 0 => g[i - 1] = f[i - 1]
    <3>1. \A i \in 0 .. k - 1 : f[i] = e(i)
      BY <1>7
    <3> HIDE DEF e, g
    <3> QED
      BY <1>9, <1>10, <3>1
  <2> HIDE DEF g
  <2> QED
    BY <2>1
<1>12. [i \in 0 .. k |-> e(i)] = [i \in 0 .. k |-> r(i)]
  <2> HIDE DEF e, r
  <2> QED
    BY <1>11
<1>13. g = [i \in 0 .. k |-> r(i)]
  BY <1>12
<1> HIDE DEF g, e
<1>14. Collecting(g, b, k)
  BY <1>8, <1>13
<1> QED
  BY <1>3, <1>14

LEMMA CollectedOK ==
  ASSUME Searching, NEW b \in Bands(PairOpt), jBandA <= b, NothingSkipped(b),
         NEW Q \in SUBSET Positions, \A q \in Q : BandAt(q) # b, CollectorOK(Collector0, Q)
  PROVE  CollectorOK(Collected(b), Q \cup SeenIn(b))
<1> DEFINE made == PotentialBuddies(b)
           n == Len(made)
           f == CHOOSE g : Collecting(g, b, n)
           Before(k) == Q \cup {made[m] : m \in 1 .. k}
           Good(k) == CollectorOK(f[k], Before(k)) /\ f[k].inBand = Cardinality(InBand(f[k], b))
           Bad == {k \in 0 .. n : ~Good(k)}
<1>1. /\ made \in Seq(SeenIn(b)) /\ Lists(made, SeenIn(b))
  BY PotentialBuddiesAre
<1>2. n \in Nat /\ DOMAIN made = 1 .. n
  BY <1>1
<1>3. /\ \A k \in 1 .. n : made[k] \in SeenIn(b)
      /\ \A k, m \in 1 .. n : made[k] = made[m] => k = m
      /\ \A q \in SeenIn(b) : \E k \in 1 .. n : made[k] = q
  BY <1>1, <1>2 DEF Lists
<1>4. \A q \in SeenIn(b) : q \in Positions /\ BandAt(q) = b
  BY DEF SeenIn
<1>5. Collecting(f, b, n)
  BY <1>2, CollectingExists
<1>6. Collected(b) = f[n]
  BY DEF Collected, Collecting, Collector0, Examined, Id
<1> HIDE DEF f, n
<1>7. \A k \in 0 .. n : f[k] = IF k = 0 THEN Collector0 ELSE Examined(f[k - 1], made[k])
  BY <1>5, CollectingUnfolds
<1> HIDE DEF made
<1>8. Good(0)
  <2>1. f[0] = Collector0
    BY <1>2, <1>7
  <2>2. Before(0) = Q
    <3>1. 1 .. 0 = {}
      OBVIOUS
    <3> QED
      BY <3>1
  <2>3. InBand(Collector0, b) = {}
    <3>1. \A i \in Chosen(Collector0) : \E q \in Q : Id(q) = i
      BY DEF CollectorOK
    <3> QED
      BY <3>1 DEF InBand, BandAt
  <2>4. Collector0.inBand = 0
    BY DEF Collector0
  <2> QED
    BY <2>1, <2>2, <2>3, <2>4, FS_EmptySet
<1>9. ASSUME NEW k \in 1 .. n, Good(k - 1) PROVE Good(k)
  <2> DEFINE c == f[k - 1]
             x == made[k]
  <2>1. f[k] = Examined(c, x)
    BY <1>2, <1>7
  <2>2. x \in Positions /\ BandAt(x) = b
    BY <1>3, <1>4
  <2>3. x \notin Before(k - 1)
    <3>1. x \notin Q
      BY <2>2
    <3>2. \A m \in 1 .. k - 1 : m \in 1 .. n /\ m # k
      BY <1>2
    <3> QED
      BY <1>3, <3>1, <3>2
  <2>4. Before(k) = Before(k - 1) \cup {x}
    <3>1. \A m \in 1 .. k : m \in 1 .. k - 1 \/ m = k
      BY <1>2
    <3>2. \A m \in 1 .. k - 1 : m \in 1 .. k
      BY <1>2
    <3>3. k \in 1 .. k
      BY <1>2
    <3> QED
      BY <3>1, <3>2, <3>3
  <2>5. Before(k - 1) \in SUBSET Positions
    <3>1. \A m \in 1 .. k - 1 : m \in 1 .. n
      BY <1>2
    <3> QED
      BY <1>3, <1>4, <3>1
  <2>6. CollectorOK(c, Before(k - 1)) /\ c.inBand = Cardinality(InBand(c, BandAt(x)))
    BY <1>9, <2>2
  <2> HIDE DEF c, x, Before
  <2>7. CASE FoundEnough(c)
    <3>1. f[k] = c
      BY <2>1, <2>7 DEF Examined
    <3>2. CollectorOK(c, Before(k - 1) \cup {x})
      <4>1. x \in Positions => Id(x) \in DOMAIN PairObs
        BY PositionOK DEF Searching
      <4>2. NoRoom(c, Id(x))
        BY <2>6, <2>7 DEF FoundEnough, NoRoom, BandAt
      <4> QED
        BY <2>6, <4>2 DEF CollectorOK
    <3> QED
      BY <2>2, <2>4, <2>6, <3>1, <3>2
  <2>8. CASE ~FoundEnough(c)
    <3>1. f[k] = ExaminePotentialBuddy(c, Id(x))
      BY <2>1, <2>8 DEF Examined
    <3>2. /\ CollectorOK(f[k], Before(k - 1) \cup {x})
          /\ f[k].inBand = Cardinality(InBand(f[k], BandAt(x)))
      BY <2>2, <2>3, <2>5, <2>6, <2>8, <3>1, ExamineOK
    <3> QED
      BY <2>2, <2>4, <3>2
  <2> QED
    BY <2>7, <2>8
<1>10. Good(n)
  <2> HIDE DEF Good
  <2>1. ASSUME Bad # {} PROVE FALSE
    <3>1. PICK k \in Bad : \A y \in Bad : k <= y
      <4>1. Bad \in SUBSET Nat
        OBVIOUS
      <4> HIDE DEF Bad
      <4> QED
        BY <2>1, <4>1, LeastMember
    <3>2. k \in 0 .. n /\ ~Good(k)
      OBVIOUS
    <3>3. k \in 1 .. n
      BY <1>2, <1>8, <3>2
    <3>4. k - 1 \in 0 .. n /\ k - 1 \notin Bad
      <4>1. k - 1 \in 0 .. n /\ ~(k <= k - 1)
        BY <1>2, <3>3
      <4> HIDE DEF Bad
      <4> QED
        BY <3>1, <4>1
    <3>5. Good(k - 1)
      BY <3>4
    <3> QED
      BY <1>9, <3>2, <3>3, <3>5
  <2>2. n \in 0 .. n
    BY <1>2
  <2> QED
    BY <2>1, <2>2
<1>11. Before(n) = Q \cup SeenIn(b)
  BY <1>3
<1> HIDE DEF Before
<1> QED
  BY <1>6, <1>10, <1>11

-----------------------------------------------------------------------------
(* The invariant.                                                          *)

SeenBefore == {q \in Positions : Sees(obsA, q) /\ BandAt(q) < jBandB}

CollectorInv ==
  \E c, Q : /\ c.buddies = buddies /\ c.sameStation = numBuddiesWithSameStationId
            /\ Q = SeenBefore
            /\ CollectorOK(c, Q)

SearchInv ==
  /\ \A b \in Bands(PairOpt) : jBandA <= b => NothingSkipped(b)
  /\ CollectorInv

LimitsOf(i) ==
  /\ Cardinality(BuddiesOf(i)) <= PairOpt.maxTotalNumBuddies
  /\ \A b \in Bands(PairOpt) :
       Cardinality(BuddiesInBand(i, b)) <= PairOpt.maxNumBuddiesFromSingleBand
  /\ Cardinality(BuddiesOfStation(i)) <= PairOpt.maxNumBuddiesWithSameStationId

(* The buddies of the observations at positions before obsA.               *)
FoundInv ==
  /\ pairs \in Seq((DOMAIN PairObs) \X (DOMAIN PairObs))
  /\ \A k \in DOMAIN pairs : \E p, q \in Positions :
       /\ p < obsA /\ pairs[k] = <<Id(p), Id(q)>>
       /\ Sees(p, q) /\ WithinRadius(Id(p), Id(q))
  /\ \A k, m \in DOMAIN pairs : pairs[k] = pairs[m] => k = m
  /\ \A p \in Positions : p < obsA => LimitsOf(Id(p))
  /\ ~PairOpt.useLegacyBuddyCollector =>
       \A p, q \in Positions : p < obsA /\ Sees(p, q) /\ WithinRadius(Id(p), Id(q)) =>
         Id(q) \in BuddiesOf(Id(p)) \/ Full(Id(p), Id(q))

PlaceInv ==
  /\ jBandA \in Bands(PairOpt)
  /\ obsA \in Int /\ BandBegin(jBandA) <= obsA /\ obsA <= BandEnd(jBandA)
  /\ jBandB \in Int /\ jBandA <= jBandB
  /\ DOMAIN firstObsToCheckInBands = Bands(PairOpt)

PairInv ==
  /\ input \in PairInputs
  /\ pairsPc \in {"sort", "pair", "done"}
  /\ pairsPc = "sort" => /\ pairs = << >> /\ buddies = << >> /\ numBuddiesWithSameStationId = 0
                         /\ jBandA = 0 /\ jBandB = 0 /\ obsA = 1
  /\ pairsPc # "sort" => Prepared /\ PlaceInv /\ FoundInv
  /\ pairsPc = "pair" =>
       /\ obsA < BandEnd(jBandA) => SearchInv
       /\ obsA = BandEnd(jBandA) => /\ buddies = << >> /\ numBuddiesWithSameStationId = 0
                                    /\ jBandB = jBandA
  /\ pairsPc = "done" => obsA = NumObs + 1

LEMMA InitPairInv == PairInit => PairInv
  BY DEF PairInit, PairInv

(* Where the observations are does not change once they are sorted.        *)
OrderKept ==
  /\ PairObs' = PairObs /\ PairOpt' = PairOpt /\ NumObs' = NumObs /\ Positions' = Positions
  /\ \A p : /\ Id(p)' = Id(p) /\ BandAt(p)' = BandAt(p) /\ Half(p)' = Half(p) /\ Lon(p)' = Lon(p)
  /\ \A p, q : Sees(p, q)' <=> Sees(p, q)
  /\ \A i, j : /\ WithinRadius(i, j)' <=> WithinRadius(i, j)
               /\ LatWithin(i, j)' <=> LatWithin(i, j)
               /\ SameStation(i, j)' <=> SameStation(i, j)
  /\ \A i : BandOf(i)' = BandOf(i)
  /\ \A b : BandBegin(b)' = BandBegin(b) /\ BandEnd(b)' = BandEnd(b)
  /\ Prepared' <=> Prepared

LEMMA InputKept ==
  ASSUME UNCHANGED input
  PROVE  /\ PairObs' = PairObs /\ PairOpt' = PairOpt /\ NumObs' = NumObs /\ Positions' = Positions
         /\ \A i : BandOf(i)' = BandOf(i) /\ LonOf(i)' = LonOf(i)
         /\ \A i, j : /\ WithinRadius(i, j)' <=> WithinRadius(i, j)
                      /\ LatWithin(i, j)' <=> LatWithin(i, j)
                      /\ SameStation(i, j)' <=> SameStation(i, j)
         /\ \A s, b : Sorted(s, b)' <=> Sorted(s, b)
<1>1. PairObs' = PairObs /\ PairOpt' = PairOpt
  BY DEF PairObs, PairOpt
<1>2. NumObs' = NumObs /\ Positions' = Positions
  BY <1>1 DEF NumObs, Positions
<1>3. \A i : BandOf(i)' = BandOf(i) /\ LonOf(i)' = LonOf(i)
  BY <1>1 DEF BandOf, LonOf
<1>4. \A i, j : /\ LatWithin(i, j)' <=> LatWithin(i, j)
                /\ SameStation(i, j)' <=> SameStation(i, j)
                /\ LonGap(i, j)' = LonGap(i, j)
  BY <1>1 DEF LatWithin, SameStation, LonGap
<1>5. \A i, j : WithinRadius(i, j)' <=> WithinRadius(i, j)
  BY <1>1, <1>3, <1>4 DEF WithinRadius
<1>6. \A s, b : Sorted(s, b)' <=> Sorted(s, b)
  BY <1>1, <1>2, <1>3 DEF Sorted
<1> QED
  BY <1>1, <1>2, <1>3, <1>4, <1>5, <1>6

LEMMA OrderIsKept ==
  ASSUME UNCHANGED <<input, validObsIdsInSortOrder, bandLbounds>>
  PROVE  OrderKept
<1>1. /\ PairObs' = PairObs /\ PairOpt' = PairOpt /\ NumObs' = NumObs /\ Positions' = Positions
      /\ \A i : BandOf(i)' = BandOf(i) /\ LonOf(i)' = LonOf(i)
      /\ \A i, j : /\ WithinRadius(i, j)' <=> WithinRadius(i, j)
                   /\ LatWithin(i, j)' <=> LatWithin(i, j)
                   /\ SameStation(i, j)' <=> SameStation(i, j)
      /\ \A s, b : Sorted(s, b)' <=> Sorted(s, b)
  BY InputKept
<1>2. \A p : Id(p)' = Id(p)
  BY DEF Id
<1>3. \A p : BandAt(p)' = BandAt(p)
  BY <1>1, <1>2 DEF BandAt
<1>4. \A p : Half(p)' = Half(p) /\ Lon(p)' = Lon(p)
  BY <1>1, <1>3 DEF Half, Lon
<1>5. \A p, q : Sees(p, q)' <=> Sees(p, q)
  BY <1>3, <1>4 DEF Sees
<1>6. \A b : BandBegin(b)' = BandBegin(b) /\ BandEnd(b)' = BandEnd(b)
  BY DEF BandBegin, BandEnd
<1>7. Prepared' <=> Prepared
  BY <1>1 DEF Prepared
<1> QED
  BY <1>1, <1>2, <1>3, <1>4, <1>5, <1>6, <1>7 DEF OrderKept

LEMMA FoundIsKept ==
  ASSUME OrderKept, pairs' = pairs, obsA' = obsA, FoundInv
  PROVE  FoundInv'
<1>1. \A i : BuddiesOf(i)' = BuddiesOf(i)
  BY DEF BuddiesOf, OrderKept
<1>2. \A i : BuddiesOfStation(i)' = BuddiesOfStation(i)
  BY <1>1 DEF BuddiesOfStation, OrderKept
<1>3. \A i, b : BuddiesInBand(i, b)' = BuddiesInBand(i, b)
  BY <1>1 DEF BuddiesInBand, OrderKept
<1>4. \A i : LimitsOf(i)' <=> LimitsOf(i)
  BY <1>1, <1>2, <1>3 DEF LimitsOf, OrderKept
<1>5. \A i, j : Full(i, j)' <=> Full(i, j)
  BY <1>1, <1>2, <1>3 DEF Full, OrderKept
<1> QED
  BY <1>1, <1>4, <1>5 DEF FoundInv, OrderKept

(* The collector of another observation depends on which one it is.        *)
LEMMA CollectorKept ==
  ASSUME OrderKept, obsA' = obsA
  PROVE  \A c, Q : CollectorOK(c, Q)' <=> CollectorOK(c, Q)
<1>1. obsIdA' = obsIdA
  BY DEF obsIdA, Id, OrderKept
<1>2. \A c : Chosen(c)' = Chosen(c)
  BY DEF Chosen
<1>3. /\ \A c, b : InBand(c, b)' = InBand(c, b)
      /\ \A c : OfStation(c)' = OfStation(c)
  BY <1>1, <1>2 DEF InBand, OfStation, OrderKept
<1>4. \A i : Acceptable(i)' <=> Acceptable(i)
  BY <1>1 DEF Acceptable, OrderKept
<1>5. \A c, i : NoRoom(c, i)' <=> NoRoom(c, i)
  BY <1>1, <1>3 DEF NoRoom, OrderKept
<1> QED
  BY <1>1, <1>2, <1>3, <1>4, <1>5 DEF CollectorOK, OrderKept

LEMMA CollectorFields ==
  ASSUME NEW c, NEW d, NEW Q, CollectorOK(c, Q), d.buddies = c.buddies, d.sameStation = c.sameStation
  PROVE  CollectorOK(d, Q)
<1>1. Chosen(d) = Chosen(c) /\ OfStation(d) = OfStation(c) /\ \A b : InBand(d, b) = InBand(c, b)
  BY DEF Chosen, OfStation, InBand
<1>2. \A i : NoRoom(d, i) <=> NoRoom(c, i)
  BY <1>1 DEF NoRoom
<1> QED
  BY <1>1, <1>2 DEF CollectorOK

(* The search of the first band finds an empty collector.                  *)
LEMMA EmptyCollector ==
  ASSUME input \in PairInputs, UNCHANGED input, buddies' = << >>, numBuddiesWithSameStationId' = 0,
         SeenBefore' = {}
  PROVE  CollectorInv'
<1>1. PICK c : c.buddies = << >> /\ c.sameStation = 0
  <2>1. [buddies |-> << >>, sameStation |-> 0].buddies = << >> /\ [buddies |-> << >>, sameStation |-> 0].sameStation = 0
    OBVIOUS
  <2> QED
    BY <2>1
<1>2. PairObs' = PairObs /\ PairOpt' = PairOpt
  BY InputKept
<1>3. /\ PairOpt.maxTotalNumBuddies \in Nat /\ PairOpt.maxNumBuddiesFromSingleBand \in Nat
      /\ PairOpt.maxNumBuddiesWithSameStationId \in Nat
  BY InputOK
<1>4. Chosen(c)' = {} /\ OfStation(c)' = {} /\ \A b : InBand(c, b)' = {}
  BY <1>1 DEF Chosen, OfStation, InBand, ToSet
<1>5. IsFiniteSet({}) /\ Cardinality({}) = 0 /\ Len(<< >>) = 0 /\ << >> \in Seq(DOMAIN PairObs)
  BY FS_EmptySet
<1>6. CollectorOK(c, {})'
  <2>1. /\ c.buddies \in Seq(DOMAIN PairObs') /\ Len(c.buddies) = 0 /\ c.sameStation = 0
        /\ \A k \in DOMAIN c.buddies : FALSE
    BY <1>1, <1>2, <1>5
  <2>2. /\ IsFiniteSet(Chosen(c)') /\ Cardinality(Chosen(c)') = 0 /\ Cardinality(OfStation(c)') = 0
        /\ \A b : Cardinality(InBand(c, b)') = 0
        /\ \A i \in Chosen(c)' : FALSE
    BY <1>4, <1>5
  <2>3. /\ PairOpt'.maxTotalNumBuddies \in Nat /\ PairOpt'.maxNumBuddiesFromSingleBand \in Nat
        /\ PairOpt'.maxNumBuddiesWithSameStationId \in Nat
    BY <1>2, <1>3
  <2>4. /\ \A i \in Chosen(c)' : Acceptable(i)' /\ \E q \in {} : Id(q)' = i
        /\ \A b \in Bands(PairOpt)' : Cardinality(InBand(c, b))' <= PairOpt'.maxNumBuddiesFromSingleBand
        /\ \A q \in {} : WithinRadius(obsIdA, Id(q))' => Id(q)' \in Chosen(c)' \/ NoRoom(c, Id(q))'
    BY <2>2, <2>3
  <2> QED
    BY <2>1, <2>2, <2>3, <2>4 DEF CollectorOK
<1> QED
  BY <1>1, <1>6 DEF CollectorInv

LEMMA SortPairInv ==
  ASSUME PairInv, SortObservations
  PROVE  PairInv'
<1>1. /\ input \in PairInputs /\ input' = input /\ pairsPc' = "pair" /\ pairs' = << >>
      /\ buddies' = << >> /\ numBuddiesWithSameStationId' = 0
      /\ jBandA' = 0 /\ jBandB' = 0 /\ obsA' = 1
      /\ firstObsToCheckInBands' = [b \in Bands(PairOpt) |-> bandLbounds'[b]]
  BY DEF PairInv, SortObservations
<1>2. Sorted(validObsIdsInSortOrder', bandLbounds')
  BY <1>1, SortSorts DEF SortObservations
<1>3. /\ PairObs' = PairObs /\ PairOpt' = PairOpt /\ NumObs' = NumObs /\ Positions' = Positions
      /\ \A i : BandOf(i)' = BandOf(i) /\ LonOf(i)' = LonOf(i)
      /\ \A s, b : Sorted(s, b)' <=> Sorted(s, b)
  BY <1>1, InputKept
<1>4. Sorted(validObsIdsInSortOrder, bandLbounds)'
  BY <1>2, <1>3 DEF Sorted
<1>5. Prepared'
  BY <1>1, <1>4 DEF Prepared
<1>6. /\ PairOpt.numZonalBands \in Nat \ {0} /\ NumObs \in Nat
  BY <1>1, InputOK
<1>7. 0 \in Bands(PairOpt)
  BY <1>6 DEF Bands
<1>8. /\ bandLbounds'[0] = 1 /\ bandLbounds'[0] <= bandLbounds'[0 + 1]
      /\ \A b \in Bands(PairOpt) : \A p \in 1 .. NumObs :
           BandOf(validObsIdsInSortOrder'[p]) = b <=> bandLbounds'[b] <= p /\ p < bandLbounds'[b + 1]
      /\ \A b \in Bands(PairOpt) : bandLbounds'[b] \in 1 .. NumObs + 1
  <2>1. \A b \in Bands(PairOpt) : b \in 0 .. PairOpt.numZonalBands
    BY <1>6 DEF Bands
  <2> QED
    BY <1>2, <1>7, <2>1 DEF Sorted
<1>9. PlaceInv'
  BY <1>1, <1>3, <1>7, <1>8 DEF PlaceInv, BandBegin, BandEnd
<1>10. FoundInv'
  <2>1. \A p \in Positions : ~(p < 1)
    BY DEF Positions
  <2>2. \A k : k \notin DOMAIN << >>
    OBVIOUS
  <2> QED
    BY <1>1, <1>3, <2>1, <2>2 DEF FoundInv
<1>11. SearchInv'
  <2>1. SeenBefore' = {}
    <3>1. \A q \in Positions : BandAt(q)' \in Nat
      BY <1>2, <1>3, <1>1, BandBounds DEF BandAt, Id, Sorted, Lists, Positions, NumObs
    <3>2. \A q \in Positions : ~(BandAt(q)' < 0)
      BY <3>1
    <3> QED
      BY <1>1, <1>3, <3>2 DEF SeenBefore
  <2>2. CollectorInv'
    BY <1>1, <2>1, EmptyCollector
  <2>3. ASSUME NEW b \in Bands(PairOpt) PROVE NothingSkipped(b)'
    <3>1. firstObsToCheckInBands'[b] = bandLbounds'[b] /\ bandLbounds'[b] \in Int
      BY <1>1, <1>6, <1>8
    <3>2. \A q \in Positions : BandAt(q)' = b => bandLbounds'[b] <= q
      BY <1>3, <1>8 DEF BandAt, Id, Positions
    <3>3. \A q \in Positions : ~(BandAt(q)' = b /\ q < bandLbounds'[b])
      BY <3>1, <3>2 DEF Positions
    <3> QED
      BY <1>3, <3>1, <3>3 DEF NothingSkipped
  <2> QED
    BY <1>3, <2>2, <2>3 DEF SearchInv
<1>12. obsA' # BandEnd(jBandA)' \/ jBandB' = jBandA'
  BY <1>1
<1> QED
  BY <1>1, <1>3, <1>5, <1>9, <1>10, <1>11, <1>12 DEF PairInv


LEMMA SearchingNow ==
  ASSUME PairInv, pairsPc = "pair", obsA < BandEnd(jBandA)
  PROVE  /\ Searching /\ SearchInv /\ PlaceInv /\ FoundInv /\ Prepared
         /\ obsIdA = Id(obsA) /\ obsIdA \in DOMAIN PairObs
<1>1. Prepared /\ PlaceInv /\ FoundInv /\ SearchInv
  BY DEF PairInv
<1>2. jBandA \in Bands(PairOpt)
  BY <1>1 DEF PlaceInv
<1>3. BandBegin(jBandA) \in Int /\ BandEnd(jBandA) \in Int
  BY <1>1, <1>2, FilledIs, PositionOK
<1>4. obsA \in Filled(jBandA)
  BY <1>1, <1>3 DEF PlaceInv, Filled
<1>5. obsA \in Positions /\ BandAt(obsA) = jBandA
  BY <1>1, <1>2, <1>4, FilledIs
<1>6. obsIdA = Id(obsA) /\ obsIdA \in DOMAIN PairObs
  BY <1>1, <1>5, PositionOK DEF obsIdA, Id
<1> QED
  BY <1>1, <1>2, <1>5, <1>6 DEF Searching

(* The next search in a band begins at the first observation in the range.  *)
LEMMA NothingIsSkipped ==
  ASSUME Searching, NEW b \in Bands(PairOpt), jBandA <= b, b # jBandA, NothingSkipped(b), FirstLoop(b) # {}
  PROVE  LET x == Ascending(FirstLoop(b))[1] IN
         /\ x \in Int
         /\ \A q \in Positions : BandAt(q) = b /\ q < x => Lon(q) < Lon(obsA) - Half(obsA)
<1> DEFINE F == FirstLoop(b)
           x == CHOOSE p \in F : Cardinality({q \in F : q < p}) = 1 - 1
           lo == Lon(obsA) - Half(obsA)
           hi == Lon(obsA) + Half(obsA)
<1>1. Prepared /\ obsA \in Positions
  BY DEF Searching
<1>2. Filled(b) = {q \in Positions : BandAt(q) = b} /\ IsFiniteSet(Filled(b)) /\ Filled(b) \subseteq Int
  BY <1>1, FilledIs
<1>3. F \subseteq Filled(b) /\ IsFiniteSet(F) /\ F \subseteq Int
  BY <1>2, FS_Subset DEF FirstLoop
<1>4. Cardinality(F) \in Nat \ {0} /\ x \in F /\ \A y \in F : x <= y
  <2> HIDE DEF F
  <2> QED
    BY <1>3, FirstAscending DEF F
<1>5. Ascending(F)[1] = x
  <2> DEFINE at(k) == CHOOSE p \in F : Cardinality({q \in F : q < p}) = k - 1
  <2>1. Ascending(F) = [k \in 1 .. Cardinality(F) |-> at(k)] /\ x = at(1)
    BY DEF Ascending
  <2>2. 1 \in 1 .. Cardinality(F)
    BY <1>4
  <2> HIDE DEF at
  <2> QED
    BY <2>1, <2>2
<1>6. MinLonToCheck = lo /\ MaxLonToCheck = hi
  BY DEF MinLonToCheck, MaxLonToCheck, HalfWidth, obsIdA, Half, Searching, BandAt, Id, Lon
<1>7. /\ lo \in Int /\ hi \in Int /\ \A q \in Positions : Lon(q) \in Int /\ q \in Int
      /\ \A p, q \in Positions : p < q /\ BandAt(p) = BandAt(q) => Lon(p) <= Lon(q)
  BY <1>1, PositionOK DEF Positions
<1>8. \A q \in Filled(b) : q \in F <=> q >= firstObsToCheckInBands[b] /\ lo <= Lon(q) /\ Lon(q) <= hi
  BY <1>6 DEF FirstLoop
<1>9. /\ firstObsToCheckInBands[b] \in Int
      /\ \A q \in Positions : BandAt(q) = b /\ q < firstObsToCheckInBands[b] => Lon(q) < lo
  BY DEF NothingSkipped
<1>10. x \in Positions /\ BandAt(x) = b /\ x \in Filled(b) /\ x \in Int
  BY <1>2, <1>3, <1>4
<1> HIDE DEF x, F, lo, hi
<1>11. ASSUME NEW q \in Positions, BandAt(q) = b, q < x PROVE Lon(q) < lo
  <2>1. q \in Filled(b) /\ q \in Int /\ Lon(q) \in Int /\ Lon(x) \in Int
    BY <1>2, <1>7, <1>10, <1>11
  <2>2. q \notin F
    BY <1>4, <1>10, <1>11, <2>1
  <2>3. Lon(q) <= Lon(x) /\ Lon(x) <= hi
    BY <1>4, <1>7, <1>8, <1>10, <1>11
  <2> QED
    BY <1>7, <1>8, <1>9, <1>11, <2>1, <2>2, <2>3
<1> QED
  BY <1>5, <1>10, <1>11 DEF F, lo

LEMMA CollectorWidened ==
  ASSUME NEW c, NEW Q, NEW R, CollectorOK(c, Q), Q \subseteq R,
         \A q \in R \ Q : WithinRadius(obsIdA, Id(q)) => NoRoom(c, Id(q))
  PROVE  CollectorOK(c, R)
  BY DEF CollectorOK


LEMMA SearchPairInv ==
  ASSUME PairInv, SearchBand
  PROVE  PairInv'
<1> DEFINE b == jBandB
           last == LastBandToSearch
           c == Collected(b)
           x == Ascending(FirstLoop(b))[1]
           full == Len(c.buddies) = PairOpt.maxTotalNumBuddies
<1>1. /\ pairsPc = "pair" /\ obsA < BandEnd(jBandA) /\ b <= last
      /\ UNCHANGED <<input, pairsPc, validObsIdsInSortOrder, bandLbounds, jBandA, obsA, pairs>>
  BY DEF SearchBand
<1>2. /\ OutOfReach(b) => /\ jBandB' = b + 1
                          /\ UNCHANGED <<buddies, numBuddiesWithSameStationId, firstObsToCheckInBands>>
      /\ ~OutOfReach(b) =>
           /\ buddies' = c.buddies /\ numBuddiesWithSameStationId' = c.sameStation
           /\ firstObsToCheckInBands' = IF FirstLoop(b) = {} THEN firstObsToCheckInBands
                                        ELSE [firstObsToCheckInBands EXCEPT ![b] = x]
           /\ jBandB' = IF full THEN last + 1 ELSE b + 1
  BY DEF SearchBand
<1> HIDE DEF c, x
<1>3. /\ Searching /\ SearchInv /\ PlaceInv /\ FoundInv /\ Prepared
      /\ obsIdA = Id(obsA) /\ obsIdA \in DOMAIN PairObs
  BY <1>1, SearchingNow
<1>4. OrderKept
  BY <1>1, OrderIsKept
<1>5. Prepared' /\ FoundInv'
  BY <1>1, <1>3, <1>4, FoundIsKept DEF OrderKept
<1>6. /\ b \in Int /\ jBandA \in Int /\ jBandA <= b /\ last \in Int /\ b \in Bands(PairOpt)
      /\ jBandA \in Bands(PairOpt)
  <2>1. /\ PairOpt.numZonalBands \in Nat \ {0} /\ PairOpt.bandWidth \in Nat \ {0} /\ PairOpt.searchDLat \in Nat
    BY <1>3, InputOK DEF Prepared
  <2>2. PairOpt.searchDLat \div PairOpt.bandWidth \in Int
    BY <2>1, DivBounds
  <2>3. b \in Int /\ jBandA <= b /\ jBandA \in Bands(PairOpt)
    BY <1>3 DEF PlaceInv
  <2>4. jBandA \in Int /\ jBandA >= 0
    BY <2>1, <2>3 DEF Bands
  <2>5. last \in Int /\ last <= PairOpt.numZonalBands - 1
    BY <2>1, <2>2, <2>4 DEF LastBandToSearch, Lesser
  <2> HIDE DEF b, last
  <2>6. b \in Bands(PairOpt)
    BY <1>1, <2>1, <2>3, <2>4, <2>5 DEF Bands
  <2> QED
    BY <2>3, <2>4, <2>5, <2>6
<1>7. \A k \in Bands(PairOpt) : jBandA <= k => NothingSkipped(k)
  BY <1>3 DEF SearchInv
<1>8. /\ DOMAIN firstObsToCheckInBands = Bands(PairOpt)
      /\ DOMAIN firstObsToCheckInBands' = Bands(PairOpt)
      /\ \A k \in Bands(PairOpt) : k # b => firstObsToCheckInBands'[k] = firstObsToCheckInBands[k]
      /\ \/ firstObsToCheckInBands'[b] = firstObsToCheckInBands[b]
         \/ FirstLoop(b) # {} /\ firstObsToCheckInBands'[b] = x
  <2> HIDE DEF b
  <2>1. DOMAIN firstObsToCheckInBands = Bands(PairOpt)
    BY <1>3 DEF PlaceInv
  <2>2. \/ firstObsToCheckInBands' = firstObsToCheckInBands
        \/ FirstLoop(b) # {} /\ firstObsToCheckInBands' = [firstObsToCheckInBands EXCEPT ![b] = x]
    BY <1>2
  <2> QED
    BY <1>6, <2>1, <2>2
<1>9. /\ jBandB' \in Int /\ b < jBandB'
      /\ jBandB' = b + 1 \/ (~OutOfReach(b) /\ full /\ jBandB' = last + 1)
  <2> HIDE DEF b, last, full
  <2> QED
    BY <1>1, <1>2, <1>6
<1>10. PlaceInv'
  <2>1. /\ jBandA' \in Bands(PairOpt)' /\ obsA' = obsA /\ jBandA' = jBandA
        /\ BandBegin(jBandA)' = BandBegin(jBandA) /\ BandEnd(jBandA)' = BandEnd(jBandA)
    BY <1>1, <1>4, <1>6 DEF OrderKept, BandBegin, BandEnd
  <2>2. jBandA <= jBandB'
    BY <1>6, <1>9
  <2>3. DOMAIN firstObsToCheckInBands' = Bands(PairOpt')
    BY <1>4, <1>8 DEF OrderKept
  <2> QED
    BY <1>3, <1>9, <2>1, <2>2, <2>3 DEF PlaceInv
<1>11. ASSUME NEW k \in Bands(PairOpt), jBandA <= k PROVE NothingSkipped(k)'
  <2>1. CASE k = jBandA
    BY <1>1, <2>1 DEF NothingSkipped
  <2>2. CASE k # jBandA
    <3> DEFINE y == firstObsToCheckInBands'[k]
    <3>1. y \in Int /\ \A q \in Positions : BandAt(q) = k /\ q < y => Lon(q) < Lon(obsA) - Half(obsA)
      <4>1. CASE k = b /\ FirstLoop(b) # {} /\ y = x
        <5>1. /\ x \in Int
              /\ \A q \in Positions : BandAt(q) = b /\ q < x => Lon(q) < Lon(obsA) - Half(obsA)
          BY <1>3, <1>6, <1>7, <1>11, <2>2, <4>1, NothingIsSkipped DEF x
        <5> QED
          BY <4>1, <5>1
      <4>2. CASE y = firstObsToCheckInBands[k]
        BY <1>7, <1>11, <2>2, <4>2 DEF NothingSkipped
      <4> QED
        BY <1>8, <4>1, <4>2
    <3> HIDE DEF y
    <3>2. /\ Positions' = Positions /\ \A p : /\ BandAt(p)' = BandAt(p) /\ Lon(p)' = Lon(p) /\ Half(p)' = Half(p)
      BY <1>4 DEF OrderKept
    <3>3. (Lon(obsA) - Half(obsA))' = Lon(obsA) - Half(obsA)
      BY <1>1, <1>4, <3>2 DEF Lon, Half, BandAt, Id
    <3> QED
      BY <1>1, <2>2, <3>1, <3>2, <3>3 DEF NothingSkipped, y
  <2> QED
    BY <2>1, <2>2
<1>12. CollectorInv'
  <2> DEFINE Q == SeenBefore
             S == SeenIn(b)
  <2>0. PICK R : R = SeenBefore'
    OBVIOUS
  <2>1. PICK e : /\ e.buddies = buddies /\ e.sameStation = numBuddiesWithSameStationId
                 /\ CollectorOK(e, Q)
    BY <1>3 DEF SearchInv, CollectorInv
  <2>2. R = {q \in Positions : Sees(obsA, q) /\ BandAt(q) < jBandB'}
    BY <1>1, <1>4, <2>0 DEF OrderKept, SeenBefore, Sees, Lon, Half, BandAt, Id
  <2>3. \A q \in Positions : BandAt(q) \in Int
    BY <1>3, PositionOK
  <2>4. /\ Q \in SUBSET Positions /\ S \in SUBSET Positions /\ R \in SUBSET Positions
        /\ Q \cup S \subseteq R /\ \A q \in Q : BandAt(q) # b
        /\ \A q \in S : BandAt(q) = b
        /\ jBandB' = b + 1 => R \ Q \subseteq S
    BY <1>6, <1>9, <2>2, <2>3 DEF SeenBefore, SeenIn
  <2> HIDE DEF Q, S
  <2>5. ASSUME NEW d, CollectorOK(d, R), d.buddies = buddies', d.sameStation = numBuddiesWithSameStationId'
        PROVE  CollectorInv'
    <3>1. CollectorOK(d, R)'
      BY <1>1, <1>4, <2>5, CollectorKept
    <3> QED
      BY <2>0, <2>5, <3>1 DEF CollectorInv
  <2>6. CASE OutOfReach(b)
    <3>1. \A q \in R \ Q : ~WithinRadius(obsIdA, Id(q))
      <4> SUFFICES ASSUME NEW q \in R \ Q PROVE ~LatWithin(obsIdA, Id(q))
        BY DEF WithinRadius
      <4>1. q \in S /\ BandOf(Id(q)) = b /\ q \in Positions
        BY <1>9, <2>4, <2>6 DEF BandAt
      <4>2. Id(q) \in DOMAIN PairObs
        BY <1>3, <4>1, PositionOK
      <4> QED
        BY <1>3, <2>6, <4>1, <4>2, BandIsInReach DEF Prepared
    <3>2. CollectorOK(e, R)
      BY <2>1, <2>4, <3>1, CollectorWidened
    <3> QED
      BY <1>2, <2>1, <2>5, <2>6, <3>2
  <2>7. CASE ~OutOfReach(b)
    <3>1. CollectorOK(Collector0, Q)
      <4>1. Collector0.buddies = buddies /\ Collector0.sameStation = numBuddiesWithSameStationId
        BY DEF Collector0
      <4> QED
        BY <2>1, <4>1, CollectorFields
    <3>2. CollectorOK(c, Q \cup S)
      BY <1>3, <1>6, <1>7, <2>4, <3>1, CollectedOK DEF c, S
    <3>3. CollectorOK(c, R)
      <4>1. CASE jBandB' = b + 1
        <5>1. R = Q \cup S
          BY <2>4, <4>1
        <5> QED
          BY <3>2, <5>1
      <4>2. CASE full
        <5>1. \A i : NoRoom(c, i)
          BY <4>2 DEF NoRoom
        <5> QED
          BY <2>4, <3>2, <5>1, CollectorWidened
      <4> QED
        BY <1>9, <4>1, <4>2
    <3> QED
      BY <1>2, <2>5, <2>7, <3>3
  <2> QED
    BY <2>6, <2>7
<1>13. SearchInv'
  BY <1>1, <1>4, <1>11, <1>12 DEF SearchInv, OrderKept
<1>14. input' \in PairInputs /\ pairsPc' = "pair" /\ obsA' # BandEnd(jBandA)'
  <2>1. BandEnd(jBandA)' = BandEnd(jBandA) /\ obsA # BandEnd(jBandA)
    <3>1. BandEnd(jBandA) \in Int /\ obsA \in Int
      BY <1>3, <1>6, FilledIs, PositionOK DEF PlaceInv
    <3> QED
      BY <1>1, <3>1 DEF BandEnd
  <2> QED
    BY <1>1, <2>1 DEF PairInv
<1> QED
  BY <1>5, <1>10, <1>13, <1>14 DEF PairInv


LEMMA NoneBefore ==
  ASSUME Prepared, NEW p \in Positions
  PROVE  {q \in Positions : Sees(p, q) /\ BandAt(q) < BandAt(p)} = {}
<1>1. \A q \in Positions : BandAt(p) \in Int /\ BandAt(q) \in Int
  BY PositionOK
<1> QED
  BY <1>1 DEF Sees

LEMMA NextBandPairInv ==
  ASSUME PairInv, NextBand
  PROVE  PairInv'
<1>1. /\ pairsPc = "pair" /\ obsA = BandEnd(jBandA)
      /\ UNCHANGED <<input, validObsIdsInSortOrder, bandLbounds, obsA, buddies,
                     numBuddiesWithSameStationId, pairs>>
  BY DEF NextBand
<1>2. /\ Prepared /\ PlaceInv /\ FoundInv /\ input \in PairInputs
      /\ buddies = << >> /\ numBuddiesWithSameStationId = 0 /\ jBandB = jBandA
  BY <1>1 DEF PairInv
<1>3. OrderKept
  BY <1>1, OrderIsKept
<1>4. Prepared' /\ FoundInv' /\ input' \in PairInputs
  BY <1>1, <1>2, <1>3, FoundIsKept DEF OrderKept
<1>5. PairOpt.numZonalBands \in Nat \ {0} /\ NumObs \in Nat
  BY <1>2, InputOK
<1>6. jBandA \in Bands(PairOpt) /\ obsA \in Int
  BY <1>2 DEF PlaceInv
<1>7. /\ \A b \in Bands(PairOpt) : /\ BandBegin(b) \in Int /\ BandEnd(b) \in Int /\ BandBegin(b) <= BandEnd(b)
                                   /\ Filled(b) = {q \in Positions : BandAt(q) = b}
      /\ \A b : BandBegin(b)' = BandBegin(b) /\ BandEnd(b)' = BandEnd(b)
  BY <1>2, <1>3, <1>5, FilledIs DEF OrderKept
<1>8. CASE jBandA = PairOpt.numZonalBands - 1
  <2>1. pairsPc' = "done" /\ UNCHANGED <<jBandA, jBandB, firstObsToCheckInBands>>
    BY <1>8 DEF NextBand
  <2>2. obsA = NumObs + 1
    <3>1. jBandA + 1 = PairOpt.numZonalBands
      BY <1>5, <1>8
    <3> QED
      BY <1>1, <1>2, <3>1 DEF BandEnd, Prepared, Sorted
  <2>3. PlaceInv'
    BY <1>1, <1>2, <1>3, <1>7, <2>1 DEF PlaceInv, OrderKept, BandBegin, BandEnd
  <2> QED
    BY <1>1, <1>3, <1>4, <2>1, <2>2, <2>3 DEF PairInv, OrderKept
<1>9. CASE jBandA # PairOpt.numZonalBands - 1
  <2>1. /\ pairsPc' = "pair" /\ jBandA' = jBandA + 1 /\ jBandB' = jBandA + 1
        /\ firstObsToCheckInBands' = [b \in Bands(PairOpt) |-> BandBegin(b)]
    BY <1>1, <1>9 DEF NextBand
  <2>2. jBandA + 1 \in Bands(PairOpt) /\ jBandA + 1 \in Int
    BY <1>5, <1>6, <1>9 DEF Bands
  <2>3. obsA = BandBegin(jBandA + 1) /\ obsA <= BandEnd(jBandA + 1)
    BY <1>1, <1>7, <2>2 DEF BandBegin, BandEnd
  <2>4. BandBegin(jBandA)' = BandBegin(jBandA + 1) /\ BandEnd(jBandA)' = BandEnd(jBandA + 1)
    BY <1>1, <2>1 DEF BandBegin, BandEnd
  <2>5. PlaceInv'
    BY <1>1, <1>3, <1>6, <2>1, <2>2, <2>3, <2>4 DEF PlaceInv, OrderKept
  <2>6. ASSUME obsA < BandEnd(jBandA + 1) PROVE SearchInv'
    <3>1. obsA \in Positions /\ BandAt(obsA) = jBandA + 1
      <4>1. obsA \in Filled(jBandA + 1)
        BY <1>6, <1>7, <2>2, <2>3, <2>6 DEF Filled
      <4> QED
        BY <1>7, <2>2, <4>1
    <3>2. SeenBefore' = {}
      <4>1. SeenBefore' = {q \in Positions : Sees(obsA, q) /\ BandAt(q) < BandAt(obsA)}
        BY <1>1, <1>3, <2>1, <3>1 DEF OrderKept, SeenBefore, Sees, Lon, Half, BandAt, Id
      <4> QED
        BY <1>2, <3>1, <4>1, NoneBefore
    <3>3. CollectorInv'
      BY <1>1, <1>2, <3>2, EmptyCollector
    <3>4. ASSUME NEW b \in Bands(PairOpt) PROVE NothingSkipped(b)'
      <4>1. firstObsToCheckInBands'[b] = BandBegin(b) /\ BandBegin(b) \in Int
        BY <1>7, <2>1
      <4>2. \A q \in Positions : BandAt(q) = b => BandBegin(b) <= q /\ q \in Int
        BY <1>7 DEF Filled
      <4>3. \A q \in Positions : ~(BandAt(q) = b /\ q < BandBegin(b))
        BY <4>1, <4>2
      <4>4. \A q \in Positions' : ~(BandAt(q)' = b /\ q < firstObsToCheckInBands'[b])
        BY <1>3, <4>1, <4>3 DEF OrderKept
      <4> QED
        BY <4>1, <4>4 DEF NothingSkipped
    <3> QED
      BY <1>3, <3>3, <3>4 DEF SearchInv, OrderKept
  <2> QED
    BY <1>1, <1>2, <1>4, <2>1, <2>4, <2>5, <2>6 DEF PairInv
<1> QED
  BY <1>8, <1>9


(* The pairs of observation A, those that are near enough, are appended.    *)
Near(c) == {i \in Chosen(c) : WithinRadius(obsIdA, i)}

LEMMA PairsAppended ==
  ASSUME PairInv, FinishProcessingObsA, NEW c, NEW Q, c.buddies = buddies, CollectorOK(c, Q),
         obsIdA \in DOMAIN PairObs
  PROVE  \E new : /\ pairs' = pairs \o new
                  /\ new \in Seq((DOMAIN PairObs) \X (DOMAIN PairObs))
                  /\ \A k, m \in DOMAIN new : new[k] = new[m] => k = m
                  /\ ToSet(new) = {<<obsIdA, i>> : i \in Near(c)}
<1> DEFINE A == obsIdA
           B == buddies
           K == {k \in DOMAIN B : WithinRadius(A, B[k])}
           near == Ascending(K)
           n == Cardinality(K)
           new == [k \in 1 .. n |-> <<A, B[near[k]]>>]
<1>1. /\ B \in Seq(DOMAIN PairObs) /\ Chosen(c) = ToSet(B)
      /\ \A k, m \in DOMAIN B : B[k] = B[m] => k = m
  BY DEF CollectorOK, Chosen
<1>2. Len(B) \in Nat /\ DOMAIN B = 1 .. Len(B) /\ \A k \in DOMAIN B : B[k] \in DOMAIN PairObs
  BY <1>1
<1>3. IsFiniteSet(K) /\ K \subseteq Int /\ n \in Nat /\ K \subseteq DOMAIN B
  <2>1. IsFiniteSet(1 .. Len(B))
    BY <1>2, FS_Interval
  <2>2. K \subseteq 1 .. Len(B) /\ K \subseteq DOMAIN B
    BY <1>2
  <2> HIDE DEF K
  <2>3. K \subseteq Int
    BY <1>2, <2>2
  <2> QED
    BY <2>1, <2>2, <2>3, FS_Subset, FS_CardinalityType
<1>4. \A k : k \in K <=> k \in DOMAIN B /\ WithinRadius(A, B[k])
  OBVIOUS
<1>5. near = [k \in 1 .. n |-> CHOOSE p \in K : Cardinality({q \in K : q < p}) = k - 1] /\ Lists(near, K)
  <2> HIDE DEF K
  <2> QED
    BY <1>3, AscendingLists DEF Ascending
<1>6. DOMAIN near = 1 .. n
  <2> DEFINE at(k) == CHOOSE p \in K : Cardinality({q \in K : q < p}) = k - 1
  <2>1. near = [k \in 1 .. n |-> at(k)]
    BY <1>5
  <2> HIDE DEF at, n
  <2> QED
    BY <2>1
<1>7. pairs' = pairs \o new
  <2>1. pairs' = pairs \o [k \in DOMAIN near |-> <<A, B[near[k]]>>]
    BY DEF FinishProcessingObsA
  <2> QED
    BY <1>6, <2>1
<1> HIDE DEF near, K
<1>8. /\ \A k \in 1 .. n : near[k] \in K
      /\ \A k, m \in 1 .. n : near[k] = near[m] => k = m
      /\ \A x \in K : \E k \in 1 .. n : near[k] = x
  BY <1>5 DEF Lists
<1>9. /\ new \in Seq((DOMAIN PairObs) \X (DOMAIN PairObs)) /\ DOMAIN new = 1 .. n
      /\ \A k \in 1 .. n : new[k] = <<A, B[near[k]]>>
  <2> DEFINE pair(k) == <<A, B[near[k]]>>
             T == (DOMAIN PairObs) \X (DOMAIN PairObs)
  <2>1. \A k \in 1 .. n : pair(k) \in T
    BY <1>2, <1>3, <1>8
  <2>2. new = [k \in 1 .. n |-> pair(k)]
    OBVIOUS
  <2> HIDE DEF pair, T, new, n
  <2>3. new \in [1 .. n -> T] /\ \A k \in 1 .. n : new[k] = pair(k)
    BY <2>1, <2>2
  <2>4. new \in Seq(T) /\ DOMAIN new = 1 .. n
    BY <1>3, <2>3
  <2> QED
    BY <2>3, <2>4 DEF pair, T
<1> HIDE DEF new, n
<1>10. \A k, m \in DOMAIN new : new[k] = new[m] => k = m
  <2> SUFFICES ASSUME NEW k \in 1 .. n, NEW m \in 1 .. n, new[k] = new[m] PROVE k = m
    BY <1>9
  <2>1. B[near[k]] = B[near[m]]
    BY <1>9
  <2>2. near[k] = near[m]
    BY <1>1, <1>3, <1>8, <2>1
  <2> QED
    BY <1>8, <2>2
<1>11. ToSet(new) = {<<A, i>> : i \in Near(c)}
  <2>1. ToSet(new) = {new[k] : k \in 1 .. n} /\ Near(c) = {i \in ToSet(B) : WithinRadius(A, i)}
        /\ ToSet(B) = {B[k] : k \in DOMAIN B}
    BY <1>1, <1>9 DEF ToSet, Near
  <2>2. ASSUME NEW k \in 1 .. n PROVE \E i \in Near(c) : new[k] = <<A, i>>
    <3>1. near[k] \in DOMAIN B /\ WithinRadius(A, B[near[k]])
      BY <1>4, <1>8
    <3> QED
      BY <1>9, <2>1, <3>1
  <2>3. ASSUME NEW i \in Near(c) PROVE \E k \in 1 .. n : new[k] = <<A, i>>
    <3>1. PICK m \in DOMAIN B : B[m] = i /\ WithinRadius(A, i)
      BY <2>1
    <3>2. m \in K
      BY <1>4, <3>1
    <3>3. PICK k \in 1 .. n : near[k] = m
      BY <1>8, <3>2
    <3> QED
      BY <1>9, <3>1, <3>3
  <2>4. ToSet(new) \subseteq {<<A, i>> : i \in Near(c)}
    BY <2>1, <2>2
  <2>5. {<<A, i>> : i \in Near(c)} \subseteq ToSet(new)
    BY <2>1, <2>3
  <2> QED
    BY <2>4, <2>5
<1> QED
  BY <1>7, <1>9, <1>10, <1>11


(* The buddies of A become those that are near enough, and those of the    *)
(* others do not change.                                                   *)
LEMMA BuddiesChange ==
  ASSUME Searching, FoundInv, OrderKept, NEW A, A = obsIdA, A = Id(obsA),
         NEW N \in SUBSET (DOMAIN PairObs), NEW new,
         new \in Seq((DOMAIN PairObs) \X (DOMAIN PairObs)),
         pairs' = pairs \o new, ToSet(new) = {<<A, i>> : i \in N}
  PROVE  /\ \A i : i # A => BuddiesOf(i)' = BuddiesOf(i)
         /\ BuddiesOf(A)' = N
         /\ \A k \in DOMAIN pairs : pairs[k][1] # A
<1>1. /\ Prepared /\ obsA \in Positions
      /\ pairs \in Seq((DOMAIN PairObs) \X (DOMAIN PairObs))
      /\ \A k \in DOMAIN pairs : \E p, q \in Positions : p < obsA /\ pairs[k] = <<Id(p), Id(q)>>
  BY DEF Searching, FoundInv
<1>2. \A p, q \in Positions : Id(p) = Id(q) => p = q
  BY <1>1, PositionOK
<1>3. \A p \in Positions : p < obsA => Id(p) # A
  BY <1>1, <1>2 DEF Positions
<1>4. \A k \in DOMAIN pairs : pairs[k][1] # A
  BY <1>1, <1>3
<1>5. ToSet(pairs') = ToSet(pairs) \cup ToSet(new)
  <2> DEFINE T == (DOMAIN PairObs) \X (DOMAIN PairObs)
  <2>1. pairs \in Seq(T) /\ new \in Seq(T)
    BY <1>1
  <2> HIDE DEF T
  <2>2. IsConcatenation(pairs \o new, pairs, new, T)
    BY <2>1, Concatenation
  <2>3. /\ DOMAIN pairs = 1 .. Len(pairs) /\ DOMAIN new = 1 .. Len(new)
        /\ Len(pairs) \in Nat /\ Len(new) \in Nat
    BY <2>1
  <2>4. /\ DOMAIN pairs' = 1 .. Len(pairs) + Len(new)
        /\ \A k \in 1 .. Len(pairs) : pairs'[k] = pairs[k]
        /\ \A k \in 1 .. Len(new) : pairs'[Len(pairs) + k] = new[k]
    BY <2>1, <2>3
  <2>5. \A k \in DOMAIN pairs' : pairs'[k] \in ToSet(pairs) \cup ToSet(new)
    <3> TAKE k \in DOMAIN pairs'
    <3>1. CASE k <= Len(pairs)
      <4>1. k \in 1 .. Len(pairs)
        BY <2>4, <3>1
      <4> QED
        BY <2>3, <2>4, <4>1 DEF ToSet
    <3>2. CASE ~(k <= Len(pairs))
      <4>1. k - Len(pairs) \in 1 .. Len(new) /\ Len(pairs) + (k - Len(pairs)) = k
        BY <2>3, <2>4, <3>2
      <4> QED
        BY <2>3, <2>4, <4>1 DEF ToSet
    <3> QED
      BY <3>1, <3>2
  <2>6. \A k \in DOMAIN pairs : pairs[k] \in ToSet(pairs')
    BY <2>3, <2>4 DEF ToSet
  <2>7. \A k \in DOMAIN new : new[k] \in ToSet(pairs')
    <3> TAKE k \in DOMAIN new
    <3>1. Len(pairs) + k \in DOMAIN pairs' /\ pairs'[Len(pairs) + k] = new[k]
      BY <2>3, <2>4
    <3> QED
      BY <3>1 DEF ToSet
  <2>8. ASSUME NEW x \in ToSet(pairs') PROVE x \in ToSet(pairs) \cup ToSet(new)
    <3>1. PICK k \in DOMAIN pairs' : pairs'[k] = x
      BY DEF ToSet
    <3> QED
      BY <2>5, <3>1
  <2>9. ASSUME NEW x \in ToSet(pairs) PROVE x \in ToSet(pairs')
    <3>1. PICK k \in DOMAIN pairs : pairs[k] = x
      BY DEF ToSet
    <3> QED
      BY <2>6, <3>1
  <2>10. ASSUME NEW x \in ToSet(new) PROVE x \in ToSet(pairs')
    <3>1. PICK k \in DOMAIN new : new[k] = x
      BY DEF ToSet
    <3> QED
      BY <2>7, <3>1
  <2> QED
    BY <2>8, <2>9, <2>10
<1>6. /\ \A i : BuddiesOf(i)' = {j \in DOMAIN PairObs : <<i, j>> \in ToSet(pairs')}
      /\ \A i, j : <<i, j>> \in ToSet(new) <=> i = A /\ j \in N
  <2>1. \A i : BuddiesOf(i)' = {j \in DOMAIN PairObs : <<i, j>> \in ToSet(pairs')}
    BY DEF BuddiesOf, ToSet, OrderKept
  <2> QED
    BY <2>1
<1>7. \A j : <<A, j>> \notin ToSet(pairs)
  BY <1>4 DEF ToSet
<1>8. BuddiesOf(A)' = N
  BY <1>5, <1>6, <1>7
<1>9. \A i : i # A => BuddiesOf(i)' = BuddiesOf(i)
  BY <1>5, <1>6 DEF BuddiesOf
<1> QED
  BY <1>4, <1>8, <1>9


(* Every band within reach has been searched.                              *)
LEMMA AllSeen ==
  ASSUME Searching, obsIdA = Id(obsA), obsIdA \in DOMAIN PairObs, jBandB \in Int, jBandB > LastBandToSearch,
         NEW q \in Positions, Sees(obsA, q), WithinRadius(obsIdA, Id(q))
  PROVE  q \in SeenBefore
<1>1. Prepared /\ jBandA \in Bands(PairOpt) /\ BandAt(obsA) = jBandA
  BY DEF Searching
<1>2. Id(q) \in DOMAIN PairObs /\ BandAt(q) \in Bands(PairOpt)
  BY <1>1, PositionOK
<1>3. PairOpt.numZonalBands \in Nat \ {0} /\ PairOpt.bandWidth \in Nat \ {0} /\ PairOpt.searchDLat \in Nat
  BY <1>1, InputOK DEF Prepared
<1>4. PairOpt.searchDLat \div PairOpt.bandWidth \in Int
  BY <1>3, DivBounds
<1>5. BandAt(q) <= jBandA + PairOpt.searchDLat \div PairOpt.bandWidth + 1
  <2>1. BandOf(Id(q)) <= BandOf(obsIdA) + PairOpt.searchDLat \div PairOpt.bandWidth + 1
    BY <1>1, <1>2, BandIsSearched DEF Prepared, WithinRadius
  <2> QED
    BY <1>1, <2>1 DEF BandAt
<1>6. BandAt(q) \in Int /\ BandAt(q) <= PairOpt.numZonalBands - 1 /\ jBandA \in Int
  BY <1>1, <1>2, <1>3 DEF Bands
<1>7. BandAt(q) < jBandB
  BY <1>3, <1>4, <1>5, <1>6 DEF LastBandToSearch, Lesser
<1> QED
  BY <1>7 DEF SeenBefore

LEMMA FoundGrows ==
  ASSUME PairInv, FinishProcessingObsA, OrderKept, Searching, FoundInv, NEW A, A = obsIdA, A = Id(obsA),
         A \in DOMAIN PairObs, jBandB \in Int,
         NEW c, c.buddies = buddies, CollectorOK(c, SeenBefore)
  PROVE  FoundInv'
<1> DEFINE N == Near(c)
           T == (DOMAIN PairObs) \X (DOMAIN PairObs)
<1>1. PICK new : /\ pairs' = pairs \o new
                 /\ new \in Seq(T)
                 /\ \A k, m \in DOMAIN new : new[k] = new[m] => k = m
                 /\ ToSet(new) = {<<A, i>> : i \in N}
  <2>1. obsIdA \in DOMAIN PairObs
    OBVIOUS
  <2> HIDE DEF N
  <2>2. PICK new : /\ pairs' = pairs \o new
                   /\ new \in Seq(T)
                   /\ \A k, m \in DOMAIN new : new[k] = new[m] => k = m
                   /\ ToSet(new) = {<<obsIdA, i>> : i \in N}
    BY <2>1, PairsAppended, Zenon DEF N
  <2>3. {<<obsIdA, i>> : i \in N} = {<<A, i>> : i \in N}
    OBVIOUS
  <2> QED
    BY <2>2, <2>3
<1>2. /\ Prepared /\ obsA \in Positions /\ obsA \in Int /\ obsA' = obsA + 1 /\ jBandB > LastBandToSearch
  BY PositionOK DEF Searching, FinishProcessingObsA, Positions
<1>3. /\ Chosen(c) \subseteq DOMAIN PairObs /\ IsFiniteSet(Chosen(c))
      /\ Cardinality(Chosen(c)) = Len(c.buddies)
      /\ \A i \in Chosen(c) : \E q \in SeenBefore : Id(q) = i
  BY DEF CollectorOK, Chosen, ToSet
<1>4. N \subseteq Chosen(c) /\ N \in SUBSET (DOMAIN PairObs) /\ \A i \in N : WithinRadius(A, i)
  BY <1>3 DEF Near
<1>5. /\ \A i : i # A => BuddiesOf(i)' = BuddiesOf(i)
      /\ BuddiesOf(A)' = N
      /\ \A k \in DOMAIN pairs : pairs[k][1] # A
  BY <1>1, <1>4, BuddiesChange
<1>6. /\ pairs \in Seq(T)
      /\ \A k \in DOMAIN pairs : \E p, q \in Positions :
           /\ p < obsA /\ pairs[k] = <<Id(p), Id(q)>>
           /\ Sees(p, q) /\ WithinRadius(Id(p), Id(q))
      /\ \A k, m \in DOMAIN pairs : pairs[k] = pairs[m] => k = m
      /\ \A p \in Positions : p < obsA => LimitsOf(Id(p))
      /\ ~PairOpt.useLegacyBuddyCollector =>
           \A p, q \in Positions : p < obsA /\ Sees(p, q) /\ WithinRadius(Id(p), Id(q)) =>
             Id(q) \in BuddiesOf(Id(p)) \/ Full(Id(p), Id(q))
  BY DEF FoundInv
<1>7. \A p \in Positions : /\ p \in Int
                           /\ p < obsA => Id(p) # A
                           /\ p < obsA + 1 <=> p < obsA \/ p = obsA
  BY <1>2, PositionOK DEF Positions
<1> HIDE DEF N, T
<1> DEFINE old == Len(pairs)
<1>8. /\ pairs' \in Seq(T) /\ DOMAIN pairs' = 1 .. old + Len(new)
      /\ old \in Nat /\ Len(new) \in Nat
      /\ DOMAIN pairs = 1 .. old /\ DOMAIN new = 1 .. Len(new)
      /\ \A k \in DOMAIN pairs' :
           \/ k \in DOMAIN pairs /\ pairs'[k] = pairs[k]
           \/ k - old \in DOMAIN new /\ pairs'[k] = new[k - old]
  <2>1. IsConcatenation(pairs \o new, pairs, new, T)
    BY <1>1, <1>6, Concatenation
  <2>2. /\ DOMAIN pairs = 1 .. old /\ DOMAIN new = 1 .. Len(new) /\ old \in Nat /\ Len(new) \in Nat
    BY <1>1, <1>6
  <2>3. /\ pairs' \in Seq(T) /\ DOMAIN pairs' = 1 .. old + Len(new)
        /\ \A k \in 1 .. old + Len(new) : pairs'[k] = IF k <= old THEN pairs[k] ELSE new[k - old]
    BY <1>1, <2>1 DEF IsConcatenation
  <2>4. ASSUME NEW k \in DOMAIN pairs'
        PROVE  \/ k \in DOMAIN pairs /\ pairs'[k] = pairs[k]
               \/ k - old \in DOMAIN new /\ pairs'[k] = new[k - old]
    <3>1. k \in 1 .. old + Len(new)
      BY <2>3
    <3> HIDE DEF old
    <3>2. k <= old => k \in DOMAIN pairs
      BY <2>2, <3>1
    <3>3. ~(k <= old) => k - old \in DOMAIN new
      BY <2>2, <3>1
    <3> QED
      BY <2>3, <3>1, <3>2, <3>3
  <2> QED
    BY <2>2, <2>3, <2>4
<1> HIDE DEF old
<1>9. \A k \in DOMAIN new : new[k][1] = A /\ \E i \in N : new[k] = <<A, i>>
  <2>1. \A k \in DOMAIN new : new[k] \in ToSet(new)
    BY DEF ToSet
  <2> QED
    BY <1>1, <2>1
<1>10. /\ \A p : Id(p)' = Id(p)
       /\ \A p, q : Sees(p, q)' <=> Sees(p, q)
       /\ \A i, j : WithinRadius(i, j)' <=> WithinRadius(i, j)
       /\ PairOpt' = PairOpt /\ PairObs' = PairObs /\ Positions' = Positions
       /\ \A i : BandOf(i)' = BandOf(i)
       /\ \A i, j : SameStation(i, j)' <=> SameStation(i, j)
  BY DEF OrderKept
<1>11. \A k \in DOMAIN pairs' : \E p, q \in Positions :
         /\ p < obsA' /\ pairs'[k] = <<Id(p), Id(q)>>
         /\ Sees(p, q) /\ WithinRadius(Id(p), Id(q))
  <2> TAKE k \in DOMAIN pairs'
  <2>1. CASE k \in DOMAIN pairs /\ pairs'[k] = pairs[k]
    BY <1>2, <1>6, <1>7, <2>1
  <2>2. CASE k - old \in DOMAIN new /\ pairs'[k] = new[k - old]
    <3>1. PICK i \in N : pairs'[k] = <<A, i>>
      BY <1>9, <2>2
    <3>2. PICK q \in SeenBefore : Id(q) = i
      BY <1>3, <1>4, <3>1
    <3>3. q \in Positions /\ Sees(obsA, q)
      BY <3>2 DEF SeenBefore
    <3> QED
      BY <1>2, <1>4, <1>7, <3>1, <3>2, <3>3
  <2> QED
    BY <1>8, <2>1, <2>2
<1>12. \A k, m \in DOMAIN pairs' : pairs'[k] = pairs'[m] => k = m
  <2> SUFFICES ASSUME NEW k \in DOMAIN pairs', NEW m \in DOMAIN pairs', pairs'[k] = pairs'[m]
               PROVE  k = m
    OBVIOUS
  <2>1. k \in Int /\ m \in Int
    BY <1>8
  <2>2. CASE k \in DOMAIN pairs /\ pairs'[k] = pairs[k] /\ m \in DOMAIN pairs /\ pairs'[m] = pairs[m]
    BY <1>6, <2>2
  <2>3. CASE k - old \in DOMAIN new /\ pairs'[k] = new[k - old] /\ m - old \in DOMAIN new /\ pairs'[m] = new[m - old]
    <3>1. k - old = m - old
      BY <1>1, <2>3
    <3> QED
      BY <1>8, <2>1, <3>1
  <2>4. CASE k \in DOMAIN pairs /\ pairs'[k] = pairs[k] /\ m - old \in DOMAIN new /\ pairs'[m] = new[m - old]
    BY <1>5, <1>9, <2>4
  <2>5. CASE m \in DOMAIN pairs /\ pairs'[m] = pairs[m] /\ k - old \in DOMAIN new /\ pairs'[k] = new[k - old]
    BY <1>5, <1>9, <2>5
  <2> QED
    BY <1>8, <2>2, <2>3, <2>4, <2>5
<1>13. /\ \A i : i # A => /\ BuddiesOfStation(i)' = BuddiesOfStation(i)
                          /\ \A b : BuddiesInBand(i, b)' = BuddiesInBand(i, b)
       /\ BuddiesOfStation(A)' = {i \in N : SameStation(A, i)}
       /\ \A b : BuddiesInBand(A, b)' = {i \in N : BandOf(i) = b}
  BY <1>5, <1>10 DEF BuddiesOfStation, BuddiesInBand
<1>14. ASSUME NEW p \in Positions, p < obsA
       PROVE  /\ LimitsOf(Id(p))' <=> LimitsOf(Id(p))
              /\ \A q : Full(Id(p), q)' <=> Full(Id(p), q)
              /\ BuddiesOf(Id(p))' = BuddiesOf(Id(p))
  <2>1. Id(p) # A /\ Id(p)' = Id(p)
    BY <1>7, <1>10, <1>14
  <2>2. /\ BuddiesOf(Id(p))' = BuddiesOf(Id(p)) /\ BuddiesOfStation(Id(p))' = BuddiesOfStation(Id(p))
        /\ \A b : BuddiesInBand(Id(p), b)' = BuddiesInBand(Id(p), b)
    <3>1. PICK i : i = Id(p)
      OBVIOUS
    <3>2. i # A /\ Id(p)' = i
      BY <2>1, <3>1
    <3>3. /\ BuddiesOf(i)' = BuddiesOf(i) /\ BuddiesOfStation(i)' = BuddiesOfStation(i)
          /\ \A b : BuddiesInBand(i, b)' = BuddiesInBand(i, b)
      BY <1>5, <1>13, <3>2
    <3> QED
      BY <3>1, <3>2, <3>3 DEF BuddiesOf, BuddiesOfStation, BuddiesInBand
  <2> QED
    BY <1>10, <2>1, <2>2 DEF LimitsOf, Full
<1>15. /\ IsFiniteSet(N) /\ N \subseteq Chosen(c)
       /\ Cardinality(N) <= Cardinality(Chosen(c))
       /\ \A b : Cardinality({i \in N : BandOf(i) = b}) <= Cardinality(InBand(c, b))
       /\ Cardinality({i \in N : SameStation(A, i)}) <= Cardinality(OfStation(c))
       /\ Cardinality(N) \in Nat /\ Cardinality({i \in N : SameStation(A, i)}) \in Nat
       /\ \A b : Cardinality({i \in N : BandOf(i) = b}) \in Nat
  <2>1. /\ \A b : {i \in N : BandOf(i) = b} \subseteq InBand(c, b) /\ IsFiniteSet(InBand(c, b))
        /\ {i \in N : SameStation(A, i)} \subseteq OfStation(c) /\ IsFiniteSet(OfStation(c))
    BY <1>3, <1>4, ChosenSubsets DEF InBand, OfStation
  <2> QED
    BY <1>3, <1>4, <2>1, FS_Subset, FS_CardinalityType
<1>16. LimitsOf(A)'
  <2>1. /\ Len(c.buddies) <= PairOpt.maxTotalNumBuddies
        /\ \A b \in Bands(PairOpt) : Cardinality(InBand(c, b)) <= PairOpt.maxNumBuddiesFromSingleBand
        /\ c.sameStation \in Nat /\ c.sameStation <= PairOpt.maxNumBuddiesWithSameStationId
        /\ Cardinality(OfStation(c)) <= c.sameStation
    BY DEF CollectorOK
  <2>2. /\ PairOpt.maxTotalNumBuddies \in Nat /\ PairOpt.maxNumBuddiesFromSingleBand \in Nat
        /\ PairOpt.maxNumBuddiesWithSameStationId \in Nat
    BY <1>2, InputOK DEF Prepared
  <2>3. /\ \A b : Cardinality(InBand(c, b)) \in Nat
        /\ Cardinality(OfStation(c)) \in Nat /\ Cardinality(Chosen(c)) \in Nat
    BY <1>3, ChosenSubsets
  <2>4. /\ Cardinality(N) <= PairOpt.maxTotalNumBuddies
        /\ Cardinality({i \in N : SameStation(A, i)}) <= PairOpt.maxNumBuddiesWithSameStationId
    BY <1>3, <1>15, <2>1, <2>2, <2>3
  <2>5. \A b \in Bands(PairOpt) : Cardinality({i \in N : BandOf(i) = b}) <= PairOpt.maxNumBuddiesFromSingleBand
    <3> TAKE b \in Bands(PairOpt)
    <3> DEFINE x == Cardinality({i \in N : BandOf(i) = b})
               y == Cardinality(InBand(c, b))
    <3>1. x <= y /\ x \in Nat /\ y \in Nat /\ y <= PairOpt.maxNumBuddiesFromSingleBand
      BY <1>15, <2>1, <2>3
    <3> HIDE DEF x, y
    <3>2. x <= PairOpt.maxNumBuddiesFromSingleBand
      BY <2>2, <3>1
    <3> QED
      BY <3>2 DEF x
  <2>6. \A b \in Bands(PairOpt)' : Cardinality(BuddiesInBand(A, b)') <= PairOpt'.maxNumBuddiesFromSingleBand
    BY <1>10, <1>13, <2>5
  <2> QED
    BY <1>5, <1>10, <1>13, <2>4, <2>6 DEF LimitsOf
<1>17. ASSUME ~PairOpt.useLegacyBuddyCollector,
              NEW q \in Positions, Sees(obsA, q), WithinRadius(A, Id(q))
       PROVE  Id(q) \in N \/ Full(A, Id(q))'
  <2>1. q \in SeenBefore
    BY <1>2, <1>17, AllSeen
  <2>2. /\ Id(q) \in Chosen(c) \/ NoRoom(c, Id(q))
        /\ Cardinality(OfStation(c)) = c.sameStation
        /\ \A i \in Chosen(c) : Acceptable(i)
    BY <1>17, <2>1 DEF CollectorOK
  <2>3. N = Chosen(c)
    BY <1>17, <2>2 DEF N, Near, Acceptable
  <2>4. CASE NoRoom(c, Id(q))
    <3>1. PICK j : j = Id(q)
      OBVIOUS
    <3>2. /\ {i \in N : BandOf(i) = BandOf(j)} = InBand(c, BandOf(j))
          /\ {i \in N : SameStation(A, i)} = OfStation(c)
      BY <2>3 DEF InBand, OfStation
    <3>3. \/ Cardinality(N) = PairOpt.maxTotalNumBuddies
          \/ Cardinality({i \in N : BandOf(i) = BandOf(j)}) = PairOpt.maxNumBuddiesFromSingleBand
          \/ /\ SameStation(A, j)
             /\ Cardinality({i \in N : SameStation(A, i)}) = PairOpt.maxNumBuddiesWithSameStationId
      BY <1>3, <2>2, <2>3, <2>4, <3>1, <3>2 DEF NoRoom
    <3>4. BuddiesInBand(A, BandOf(j))' = {i \in N : BandOf(i) = BandOf(j)}
      BY <1>5, <1>10 DEF BuddiesInBand
    <3>5. Full(A, j)'
      BY <1>5, <1>10, <1>13, <3>3, <3>4 DEF Full
    <3> QED
      BY <1>10, <3>1, <3>5
  <2> QED
    BY <2>2, <2>3, <2>4
<1>18. \A p \in Positions : p < obsA' => LimitsOf(Id(p))'
  <2> TAKE p \in Positions
  <2>1. CASE p = obsA
    <3>1. Id(p)' = A
      BY <1>10, <2>1
    <3> QED
      BY <1>16, <3>1
  <2>2. CASE p < obsA
    BY <1>6, <1>14, <2>2
  <2> QED
    BY <1>2, <1>7, <2>1, <2>2
<1>19. ~PairOpt.useLegacyBuddyCollector =>
         \A p, q \in Positions : p < obsA' /\ Sees(p, q) /\ WithinRadius(Id(p), Id(q)) =>
           Id(q) \in BuddiesOf(Id(p))' \/ Full(Id(p), Id(q))'
  <2> SUFFICES ASSUME ~PairOpt.useLegacyBuddyCollector, NEW p \in Positions, NEW q \in Positions,
                      p < obsA', Sees(p, q), WithinRadius(Id(p), Id(q))
               PROVE  Id(q) \in BuddiesOf(Id(p))' \/ Full(Id(p), Id(q))'
    OBVIOUS
  <2>1. CASE p = obsA
    <3>1. Id(p)' = A /\ Id(p) = A /\ Id(q)' = Id(q)
      BY <1>10, <2>1
    <3>2. Id(q) \in N \/ Full(A, Id(q))'
      BY <1>17, <2>1, <3>1
    <3> QED
      BY <1>5, <3>1, <3>2
  <2>2. CASE p < obsA
    <3>1. Full(Id(p), Id(q))' <=> Full(Id(p), Id(q))
      <4>1. PICK j : j = Id(q)
        OBVIOUS
      <4>2. Id(q)' = j /\ (Full(Id(p), j)' <=> Full(Id(p), j))
        BY <1>10, <1>14, <2>2, <4>1
      <4> QED
        BY <4>1, <4>2
    <3> QED
      BY <1>6, <1>14, <2>2, <3>1
  <2> QED
    BY <1>2, <1>7, <2>1, <2>2
<1> QED
  BY <1>8, <1>10, <1>11, <1>12, <1>18, <1>19 DEF FoundInv, T


LEMMA FinishPairInv ==
  ASSUME PairInv, FinishProcessingObsA
  PROVE  PairInv'
<1>1. /\ pairsPc = "pair" /\ obsA < BandEnd(jBandA) /\ obsA' = obsA + 1 /\ jBandB' = jBandA
      /\ buddies' = << >> /\ numBuddiesWithSameStationId' = 0
      /\ UNCHANGED <<input, pairsPc, validObsIdsInSortOrder, bandLbounds, jBandA, firstObsToCheckInBands>>
  BY DEF FinishProcessingObsA
<1>2. /\ Searching /\ SearchInv /\ PlaceInv /\ FoundInv /\ Prepared
      /\ obsIdA = Id(obsA) /\ obsIdA \in DOMAIN PairObs
  BY <1>1, SearchingNow
<1>3. OrderKept
  BY <1>1, OrderIsKept
<1>4. PICK A : A = obsIdA
  OBVIOUS
<1>5. PICK c : c.buddies = buddies /\ CollectorOK(c, SeenBefore)
  BY <1>2 DEF SearchInv, CollectorInv
<1>6. jBandB \in Int /\ jBandA \in Bands(PairOpt) /\ obsA \in Int
  BY <1>2 DEF PlaceInv
<1>7. FoundInv'
  BY <1>2, <1>3, <1>4, <1>5, <1>6, FoundGrows
<1>8. /\ BandBegin(jBandA) \in Int /\ BandEnd(jBandA) \in Int /\ BandBegin(jBandA) <= obsA
      /\ Filled(jBandA) = {q \in Positions : BandAt(q) = jBandA}
  BY <1>2, <1>6, FilledIs, PositionOK DEF PlaceInv
<1>9. BandBegin(jBandA)' = BandBegin(jBandA) /\ BandEnd(jBandA)' = BandEnd(jBandA)
  BY <1>1 DEF BandBegin, BandEnd
<1>10. PlaceInv'
  <2>1. jBandA \in Int
    BY <1>2, <1>6, InputOK DEF Bands, Prepared
  <2> QED
    BY <1>1, <1>2, <1>3, <1>6, <1>8, <1>9, <2>1 DEF PlaceInv, OrderKept
<1>11. Prepared' /\ input' \in PairInputs
  BY <1>1, <1>2, <1>3 DEF OrderKept, Prepared
<1>12. ASSUME obsA + 1 < BandEnd(jBandA) PROVE SearchInv'
  <2> DEFINE p == obsA + 1
  <2>1. p \in Positions /\ BandAt(p) = jBandA
    <3>1. p \in Filled(jBandA)
      BY <1>6, <1>8, <1>12 DEF Filled
    <3> QED
      BY <1>8, <3>1
  <2>2. SeenBefore' = {}
    <3>1. SeenBefore' = {q \in Positions : Sees(p, q) /\ BandAt(q) < BandAt(p)}
      <4>1. \A q : Sees(obsA, q)' <=> Sees(p, q)
        BY <1>1, <1>3 DEF OrderKept, Sees, Lon, Half, BandAt, Id
      <4> QED
        BY <1>1, <1>3, <2>1, <4>1 DEF OrderKept, SeenBefore
    <3> QED
      BY <1>2, <2>1, <3>1, NoneBefore
  <2>3. CollectorInv'
    BY <1>1, <1>2, <2>2, EmptyCollector DEF Prepared
  <2>4. Lon(obsA) - Half(obsA) <= Lon(p) - Half(p) /\ Lon(p) - Half(p) \in Int /\ Lon(obsA) - Half(obsA) \in Int
    <3>1. obsA \in Positions /\ BandAt(obsA) = jBandA
      BY <1>2 DEF Searching
    <3>2. Half(obsA) = Half(p)
      BY <2>1, <3>1 DEF Half
    <3>3. obsA < p
      BY <1>6
    <3>4. /\ Lon(obsA) <= Lon(p) /\ Lon(obsA) \in Int /\ Lon(p) \in Int /\ Half(p) \in Int
      BY <1>2, <2>1, <3>1, <3>3, PositionOK
    <3> QED
      BY <3>2, <3>4
  <2>5. (Lon(obsA) - Half(obsA))' = Lon(p) - Half(p)
    BY <1>1, <1>3 DEF OrderKept, Lon, Half, BandAt, Id
  <2> HIDE DEF p
  <2>6. ASSUME NEW b \in Bands(PairOpt), jBandA <= b PROVE NothingSkipped(b)'
    <3>1. CASE b = jBandA
      BY <1>1, <3>1 DEF NothingSkipped
    <3>2. CASE b # jBandA
      <4>1. /\ firstObsToCheckInBands[b] \in Int
            /\ \A q \in Positions : BandAt(q) = b /\ q < firstObsToCheckInBands[b] => Lon(q) < Lon(obsA) - Half(obsA)
        BY <1>2, <2>6, <3>2 DEF SearchInv, NothingSkipped
      <4>2. \A q \in Positions : Lon(q) \in Int
        BY <1>2, PositionOK
      <4>3. \A q \in Positions : BandAt(q) = b /\ q < firstObsToCheckInBands[b] => Lon(q) < Lon(p) - Half(p)
        BY <2>4, <4>1, <4>2
      <4>4. \A q : BandAt(q)' = BandAt(q) /\ Lon(q)' = Lon(q)
        BY <1>3 DEF OrderKept
      <4> QED
        BY <1>1, <1>3, <2>5, <3>2, <4>1, <4>3, <4>4 DEF NothingSkipped, OrderKept
    <3> QED
      BY <3>1, <3>2
  <2> QED
    BY <1>1, <1>3, <2>3, <2>6 DEF SearchInv, OrderKept
<1> QED
  BY <1>1, <1>2, <1>7, <1>9, <1>10, <1>11, <1>12 DEF PairInv

LEMMA NextPairInv == PairInv /\ [PairNext]_pairVars => PairInv'
<1> SUFFICES ASSUME PairInv, [PairNext]_pairVars PROVE PairInv'
  OBVIOUS
<1>1. CASE SortObservations
  BY <1>1, SortPairInv
<1>2. CASE SearchBand
  BY <1>2, SearchPairInv
<1>3. CASE FinishProcessingObsA
  BY <1>3, FinishPairInv
<1>4. CASE NextBand
  BY <1>4, NextBandPairInv
<1>5. CASE UNCHANGED pairVars
  <2>1. UNCHANGED <<input, pairsPc, validObsIdsInSortOrder, bandLbounds, jBandA, obsA, jBandB,
                    firstObsToCheckInBands, buddies, numBuddiesWithSameStationId, pairs>>
    BY <1>5 DEF pairVars
  <2>2. OrderKept
    BY <2>1, OrderIsKept
  <2>3. FoundInv => FoundInv'
    BY <2>1, <2>2, FoundIsKept
  <2>4. /\ \A b : BandBegin(b)' = BandBegin(b) /\ BandEnd(b)' = BandEnd(b)
        /\ BandBegin(jBandA)' = BandBegin(jBandA) /\ BandEnd(jBandA)' = BandEnd(jBandA)
    BY <2>1 DEF BandBegin, BandEnd
  <2>5. PlaceInv => PlaceInv'
    BY <2>1, <2>2, <2>4 DEF PlaceInv, OrderKept
  <2>6. /\ \A q : Sees(obsA, q)' <=> Sees(obsA, q)
        /\ (Lon(obsA) - Half(obsA))' = Lon(obsA) - Half(obsA)
    BY <2>1, <2>2 DEF OrderKept, Sees, Lon, Half, BandAt, Id
  <2>7. SeenBefore' = SeenBefore
    BY <2>1, <2>2, <2>6 DEF OrderKept, SeenBefore
  <2>8. \A b : NothingSkipped(b)' <=> NothingSkipped(b)
    BY <2>1, <2>2, <2>6 DEF OrderKept, NothingSkipped
  <2>9. CollectorInv => CollectorInv'
    <3> SUFFICES ASSUME CollectorInv PROVE CollectorInv'
      OBVIOUS
    <3>1. PICK c, Q : /\ c.buddies = buddies /\ c.sameStation = numBuddiesWithSameStationId
                      /\ Q = SeenBefore /\ CollectorOK(c, Q)
      BY DEF CollectorInv
    <3>2. CollectorOK(c, Q)'
      BY <2>1, <2>2, <3>1, CollectorKept
    <3> QED
      BY <2>1, <2>7, <3>1, <3>2 DEF CollectorInv
  <2>10. SearchInv => SearchInv'
    BY <2>1, <2>2, <2>8, <2>9 DEF SearchInv, OrderKept
  <2> QED
    BY <2>1, <2>2, <2>3, <2>4, <2>5, <2>10 DEF PairInv, OrderKept
<1> QED
  BY <1>1, <1>2, <1>3, <1>4, <1>5 DEF PairNext, PairsDone


-----------------------------------------------------------------------------
(* Which pairs the search can find.                                        *)

(* The range of longitudes around an observation is less than half of the   *)
(* circle or all of it; and an observation on the date line is nearer than  *)
(* the end of the range of the one that has to find it on the other side.   *)
RegularRanges ==
  /\ \A b \in Bands(PairOpt) : PairOpt.halfWidth[b] < Meridian \/ PairOpt.halfWidth[b] >= 2 * Meridian
  /\ \A i, j \in DOMAIN PairObs :
       /\ WithinRadius(i, j) /\ Gap(LonOf(i), LonOf(j)) > Meridian
       /\ \/ BandOf(j) < BandOf(i) /\ LonOf(i) \in {-Meridian, Meridian}
          \/ BandOf(j) = BandOf(i) /\ LonOf(i) = -Meridian
       => LonGap(i, j) < PairOpt.halfWidth[BandOf(j)]

(* Of two observations within the radius, one examines the other.           *)
LEMMA OneSees ==
  ASSUME Prepared, RegularRanges, NEW p \in Positions, NEW q \in Positions, p < q,
         WithinRadius(Id(p), Id(q))
  PROVE  Sees(p, q) \/ Sees(q, p)
<1> DEFINE M == Meridian
           x == Lon(p)
           y == Lon(q)
           h == Half(p)
           g == Gap(x, y)
           d == LonGap(Id(q), Id(p))
           same == BandAt(p) = BandAt(q)
<1>1. /\ M \in Int /\ M > 0 /\ x \in Int /\ y \in Int /\ h \in Int /\ h >= 0
      /\ -M <= x /\ x <= M /\ -M <= y /\ y <= M /\ p \in Int /\ q \in Int
      /\ BandAt(p) \in Int /\ BandAt(q) \in Int /\ BandAt(p) <= BandAt(q)
      /\ same => x <= y /\ Half(q) = h
      /\ Id(p) \in DOMAIN PairObs /\ Id(q) \in DOMAIN PairObs
      /\ BandAt(p) \in Bands(PairOpt)
      /\ x = LonOf(Id(p)) /\ y = LonOf(Id(q))
  BY PositionOK DEF Positions, Half
<1>2. g \in Int /\ (x <= y => g = y - x) /\ (y < x => g = x - y)
  BY <1>1 DEF Gap, Greater
<1>3. Gap(y, x) = g
  BY <1>1 DEF Gap, Greater
<1>4. d \in Int /\ d = (IF g < 2 * M - g THEN g ELSE 2 * M - g)
  BY <1>1, <1>2, <1>3 DEF LonGap, Lesser, LonOf
<1>5. d <= h /\ WithinRadius(Id(q), Id(p))
  <2>1. /\ WithinRadius(Id(q), Id(p)) /\ d = LonGap(Id(p), Id(q))
        /\ LonGap(Id(p), Id(q)) <= PairOpt.halfWidth[BandOf(Id(p))]
    BY <1>1, WithinRadiusBothWays DEF Prepared
  <2> QED
    BY <2>1 DEF Half, BandAt
<1>6. h < M \/ h >= 2 * M
  BY <1>1 DEF RegularRanges, Half
<1>7. g > M /\ ~same /\ (y = M \/ y = -M) => d < h
  <2>1. BandOf(Id(p)) = BandAt(p) /\ BandOf(Id(q)) = BandAt(q) /\ h = PairOpt.halfWidth[BandOf(Id(p))]
    BY DEF BandAt, Half
  <2>2. Gap(LonOf(Id(q)), LonOf(Id(p))) = g
    BY <1>1, <1>3
  <2> HIDE DEF g, d
  <2> QED
    BY <1>1, <1>5, <2>1, <2>2 DEF RegularRanges, d
<1>8. g > M /\ same /\ x = -M => d < h
  <2>1. /\ BandOf(Id(p)) = BandAt(p) /\ BandOf(Id(q)) = BandAt(q)
        /\ same => h = PairOpt.halfWidth[BandOf(Id(q))]
    BY DEF BandAt, Half
  <2>2. Gap(LonOf(Id(p)), LonOf(Id(q))) = g /\ LonGap(Id(p), Id(q)) = d
    BY <1>1, WithinRadiusBothWays DEF Prepared
  <2> HIDE DEF g, d
  <2> QED
    BY <1>1, <2>1, <2>2 DEF RegularRanges
<1> DEFINE seesQ == \/ x - h <= y /\ y <= x + h
                    \/ x + h > M /\ (~same \/ h < M) /\ y <= x + h - 2 * M /\ y < x - h
                    \/ x - h < -M /\ ~same /\ y >= x - h + 2 * M /\ y > x + h
           seesP == /\ same /\ y + h > M /\ h < M
                    /\ x <= y + h - 2 * M /\ x < y - h
<1>9. seesQ => Sees(p, q)
  BY <1>1 DEF Sees
<1>10. seesP => Sees(q, p)
  BY <1>1 DEF Sees
<1> HIDE DEF M, x, y, h, g, d, same
<1>11. CASE g <= h
  BY <1>1, <1>2, <1>9, <1>11
<1>12. CASE g > h /\ same
  <2>1. g = y - x /\ d = 2 * M - g /\ h < M
    BY <1>1, <1>2, <1>4, <1>5, <1>6, <1>12
  <2>2. x <= y + h - 2 * M /\ x < y - h /\ g > M
    BY <1>1, <1>2, <1>5, <1>12, <2>1
  <2>3. y + h > M
    <3>1. CASE x = -M
      <4>1. d < h
        BY <1>8, <1>12, <2>2, <3>1
      <4> QED
        BY <1>1, <2>1, <3>1, <4>1
    <3>2. CASE x # -M
      BY <1>1, <2>2, <3>2
    <3> QED
      BY <3>1, <3>2
  <2> QED
    BY <1>10, <1>12, <2>1, <2>2, <2>3
<1>13. CASE g > h /\ ~same
  BY <1>1, <1>2, <1>4, <1>5, <1>7, <1>9, <1>13
<1> QED
  BY <1>1, <1>2, <1>11, <1>12, <1>13


-----------------------------------------------------------------------------
(* The theorems.                                                           *)

LEMMA PairInvImpliesSound ==
  ASSUME PairInv, pairsPc = "done"
  PROVE  PairedOnce /\ WithinLimits
<1>1. Prepared /\ FoundInv /\ obsA = NumObs + 1
  BY DEF PairInv
<1>2. /\ \A p \in Positions : p < obsA /\ Id(p) \in DOMAIN PairObs
      /\ \A p, q \in Positions : Id(p) = Id(q) => p = q
      /\ \A i \in DOMAIN PairObs : \E p \in Positions : Id(p) = i
  BY <1>1, PositionOK DEF Positions
<1>3. PairedOnce
  <2>1. ASSUME NEW k \in DOMAIN pairs, NEW m \in DOMAIN pairs, k # m
        PROVE  ToSet(pairs[k]) # ToSet(pairs[m])
    <3>1. PICK p, q \in Positions : pairs[k] = <<Id(p), Id(q)>> /\ Sees(p, q)
      BY <1>1 DEF FoundInv
    <3>2. PICK u, v \in Positions : pairs[m] = <<Id(u), Id(v)>> /\ Sees(u, v)
      BY <1>1 DEF FoundInv
    <3>3. \A i, j : ToSet(<<i, j>>) = {i, j}
      BY DEF ToSet
    <3>4. ASSUME ToSet(pairs[k]) = ToSet(pairs[m]) PROVE FALSE
      <4>1. {Id(p), Id(q)} = {Id(u), Id(v)} /\ Id(p) # Id(q) /\ Id(u) # Id(v)
        BY <1>1, <3>1, <3>2, <3>3, <3>4, SeesOneWay
      <4>2. \/ Id(p) = Id(u) /\ Id(q) = Id(v)
            \/ Id(p) = Id(v) /\ Id(q) = Id(u)
        BY <4>1
      <4>3. CASE Id(p) = Id(u) /\ Id(q) = Id(v)
        <5>1. pairs[k] = pairs[m]
          BY <3>1, <3>2, <4>3
        <5> QED
          BY <1>1, <2>1, <5>1 DEF FoundInv
      <4>4. CASE Id(p) = Id(v) /\ Id(q) = Id(u)
        <5>1. p = v /\ q = u
          BY <1>2, <4>4
        <5> QED
          BY <1>1, <3>1, <3>2, <5>1, SeesOneWay
      <4> QED
        BY <4>2, <4>3, <4>4
    <3> QED
      BY <3>4
  <2>2. ASSUME NEW k \in DOMAIN pairs
        PROVE  pairs[k][1] # pairs[k][2] /\ WithinRadius(pairs[k][1], pairs[k][2])
    <3>1. PICK p, q \in Positions : /\ pairs[k] = <<Id(p), Id(q)>>
                                    /\ Sees(p, q) /\ WithinRadius(Id(p), Id(q))
      BY <1>1 DEF FoundInv
    <3>2. Id(p) # Id(q)
      BY <1>1, <3>1, SeesOneWay
    <3> QED
      BY <3>1, <3>2
  <2> QED
    BY <2>1, <2>2 DEF PairedOnce
<1>4. WithinLimits
  <2>1. \A p \in Positions : LimitsOf(Id(p))
    BY <1>1, <1>2 DEF FoundInv
  <2>2. \A i \in DOMAIN PairObs : LimitsOf(i)
    BY <1>2, <2>1
  <2> QED
    BY <2>2 DEF LimitsOf, WithinLimits
<1> QED
  BY <1>3, <1>4

LEMMA PairInvImpliesNoneLeftOut ==
  ASSUME PairInv, pairsPc = "done", RegularRanges, ~PairOpt.useLegacyBuddyCollector
  PROVE  NoneLeftOut
<1>1. Prepared /\ FoundInv /\ obsA = NumObs + 1
  BY DEF PairInv
<1>2. /\ \A p \in Positions : p \in Int /\ p < obsA /\ Id(p) \in DOMAIN PairObs
      /\ \A i \in DOMAIN PairObs : \E p \in Positions : Id(p) = i
  BY <1>1, PositionOK DEF Positions
<1>3. \A p, q \in Positions : Sees(p, q) /\ WithinRadius(Id(p), Id(q)) =>
        Id(q) \in BuddiesOf(Id(p)) \/ Full(Id(p), Id(q))
  BY <1>1, <1>2 DEF FoundInv
<1>4. ASSUME NEW p \in Positions, NEW q \in Positions, p < q, WithinRadius(Id(p), Id(q))
      PROVE  \/ Id(q) \in BuddiesOf(Id(p)) \/ Full(Id(p), Id(q))
             \/ Id(p) \in BuddiesOf(Id(q)) \/ Full(Id(q), Id(p))
  <2>1. Sees(p, q) \/ Sees(q, p)
    BY <1>1, <1>4, OneSees
  <2>2. WithinRadius(Id(q), Id(p))
    BY <1>1, <1>2, <1>4, WithinRadiusBothWays DEF Prepared
  <2> QED
    BY <1>3, <1>4, <2>1, <2>2
<1>5. ASSUME NEW i \in DOMAIN PairObs, NEW j \in DOMAIN PairObs, i # j, WithinRadius(i, j)
      PROVE  j \in BuddiesOf(i) \/ i \in BuddiesOf(j) \/ Full(i, j) \/ Full(j, i)
  <2>1. PICK p \in Positions : Id(p) = i
    BY <1>2
  <2>2. PICK q \in Positions : Id(q) = j
    BY <1>2
  <2>3. WithinRadius(j, i)
    BY <1>1, <1>5, WithinRadiusBothWays DEF Prepared
  <2>4. p # q /\ p \in Int /\ q \in Int
    BY <1>2, <1>5, <2>1, <2>2
  <2>5. CASE p < q
    BY <1>4, <1>5, <2>1, <2>2, <2>5
  <2>6. CASE q < p
    BY <1>4, <2>1, <2>2, <2>3, <2>6
  <2> QED
    BY <2>4, <2>5, <2>6
<1> QED
  BY <1>5 DEF NoneLeftOut

LEMMA RangesStayRegular == RegularRanges /\ [PairNext]_pairVars => RegularRanges'
<1> SUFFICES ASSUME RegularRanges, [PairNext]_pairVars PROVE RegularRanges'
  OBVIOUS
<1>1. input' = input
  BY DEF PairNext, SortObservations, SearchBand, FinishProcessingObsA, NextBand, PairsDone, pairVars
<1>2. /\ PairObs' = PairObs /\ PairOpt' = PairOpt
      /\ \A i : BandOf(i)' = BandOf(i) /\ LonOf(i)' = LonOf(i)
      /\ \A i, j : WithinRadius(i, j)' <=> WithinRadius(i, j)
  BY <1>1, InputKept
<1>3. \A i, j : LonGap(i, j)' = LonGap(i, j)
  BY <1>2 DEF LonGap
<1> QED
  BY <1>2, <1>3 DEF RegularRanges

(* MetOfficeBuddyPairFinder, for all observations, zonal bands, ranges of   *)
(* longitudes and limits: no two observations are paired twice, those of a  *)
(* pair are within the search radius, and no observation gets more buddies   *)
(* than the limits allow, with the legacy collector as with the other.      *)
THEOREM PairsAreSound == PairSpec => [](pairsPc = "done" => PairedOnce /\ WithinLimits)
<1>1. PairInv => (pairsPc = "done" => PairedOnce /\ WithinLimits)
  BY PairInvImpliesSound
<1> QED
  BY <1>1, InitPairInv, NextPairInv, PTL DEF PairSpec

(* MetOfficeBuddyPairFinder: where the ranges of longitudes are regular, the *)
(* collector that is not the legacy one also leaves out a pair only if one   *)
(* of the two has reached a limit -- although the search in a band begins    *)
(* where that of the previous observation began, ends early, and wraps       *)
(* around the date line once or twice.                                      *)
THEOREM PairsAreFound == PairSpec /\ RegularRanges => []PairsFound
<1>1. PairInv /\ RegularRanges => PairsFound
  BY PairInvImpliesSound, PairInvImpliesNoneLeftOut DEF PairsFound
<1> QED
  BY <1>1, InitPairInv, NextPairInv, RangesStayRegular, PTL DEF PairSpec

=============================================================================
