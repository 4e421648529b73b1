----------------------------- MODULE DataExtractor -----------------------------
(***************************************************************************)
(* ufo::DataExtractor looks up or interpolates values of a table loaded    *)
(* from a file: a payload array whose dimensions are indexed by            *)
(* coordinates.  The rows of a dimension are sorted by the coordinates in  *)
(* the order in which they will be matched, so that every match can be a   *)
(* binary search that leaves a range of rows; getResult needs ranges of    *)
(* one row each, or the result of an interpolation.                        *)
(*                                                                         *)
(* Values of coordinates are small integers, whatever their type; the      *)
(* payload of a cell is the cell itself, so that results can be traced.    *)
(* DrawValueFromFile schedules the coordinates and extracts one value per  *)
(* location.                                                               *)
(***************************************************************************)
EXTENDS Integers, FiniteSets, SequencesExt

CONSTANTS
  TableInputs,   \* files with instructions, see ExtractorAssumption
  LookupValues,  \* the values of variables at the locations
  MaxLookups     \* bound on the number of locations

MissingKey == -1

Interpolations == {"linear", "bilinear"}
Matchings == {"exact", "nearest", "lub", "glb"}

(* size[d] is the number of rows of dimension d.  Each coordinate belongs  *)
(* to a dimension; only a coordinate of floats may be non-categorical.     *)
(* missing is the set of cells whose payload is missing.                   *)
ASSUME ExtractorAssumption ==
  /\ LookupValues \subseteq Nat
  /\ \A x \in TableInputs :
       LET last == Len(x.schedule) IN
       /\ x.floatPayload \in BOOLEAN
       /\ \A d \in DOMAIN x.size : x.size[d] \in Nat \ {0}
       /\ \A c \in DOMAIN x.coords :
            /\ x.coords[c].dim \in DOMAIN x.size
            /\ x.coords[c].isFloat \in BOOLEAN
            /\ x.coords[c].values \in [1 .. x.size[x.coords[c].dim] -> LookupValues \cup {MissingKey}]
       /\ last \in Nat /\ DOMAIN x.schedule = 1 .. last
       /\ \A i \in DOMAIN x.schedule :
            /\ x.schedule[i].coord \in DOMAIN x.coords
            /\ x.schedule[i].method \in Matchings \cup Interpolations
            /\ x.schedule[i].extrapMode \in {"error", "nearest", "missing"}
            /\ x.schedule[i].choice \in {"first", "last"}
            \* DrawValueFromFile and scheduleSort check the following.
            /\ x.schedule[i].method \in Interpolations => x.floatPayload
            /\ x.schedule[i].method = "linear" => i = last
            /\ x.schedule[i].method = "bilinear" =>
                 /\ last > 1 /\ i \in {last - 1, last}
                 /\ x.schedule[last - 1].method = "bilinear" /\ x.schedule[last].method = "bilinear"

VARIABLES
  table,                 \* the file and the instructions
  extractPc,             \* "schedule", "extract", "done" or "thrown"
  placeOfRow, groupOfRow,\* splitter_: where each row comes in each dimension, and its group
  numScheduled,          \* the number of coordsToExtractBy_
  rowAt,                 \* the row at each position of the coordinates and the payload
  constrainedRanges,     \* [first, last) positions in each dimension
  nextCoordToExtractBy,
  resultSet, result,
  query,                 \* the values passed to extract since the last reset (history)
  answer,                \* what getResult has just returned, for which query (history)
  numLocations

sortVars   == <<placeOfRow, groupOfRow, numScheduled, rowAt>>
searchVars == <<constrainedRanges, nextCoordToExtractBy, resultSet, result>>
lookupVars == <<table, extractPc, sortVars, searchVars, query, answer, numLocations>>

(* What a table x says of its dimensions and its scheduled coordinates.     *)
Dims(x) == DOMAIN x.size
Rows(x, d) == 1 .. x.size[d]
LastCoord(x) == Len(x.schedule)
Coord(x, i) == x.coords[x.schedule[i].coord]
Dim(x, i) == Coord(x, i).dim
KeyOf(x, i, r) == Coord(x, i).values[r]
Interpolates(x, i) == x.schedule[i].method \in Interpolations

FullRanges(x) == [d \in Dims(x) |-> <<1, x.size[d] + 1>>]

NoAnswer == <<>>

ExtractInit ==
  /\ table \in TableInputs
  /\ extractPc = "schedule"
  /\ placeOfRow = [d \in Dims(table) |-> [r \in Rows(table, d) |-> r]]
  /\ groupOfRow = [d \in Dims(table) |-> [r \in Rows(table, d) |-> <<>>]]
  /\ numScheduled = 0
  /\ rowAt = [d \in Dims(table) |-> [r \in Rows(table, d) |-> r]]
  /\ constrainedRanges = FullRanges(table)
  /\ nextCoordToExtractBy = 1
  /\ resultSet = FALSE /\ result = {}
  /\ query = <<>> /\ answer = NoAnswer /\ numLocations = 0

-----------------------------------------------------------------------------
(* Sorting.  The rows of a group are sorted by a coordinate, those with      *)
(* equal values stay as they were; groups keep their places.               *)

ComesFirst(i, r, s) ==
  LET d == Dim(table, i) IN
  IF groupOfRow[d][r] = groupOfRow[d][s] /\ KeyOf(table, i, r) # KeyOf(table, i, s)
    THEN KeyOf(table, i, r) < KeyOf(table, i, s)
    ELSE placeOfRow[d][r] < placeOfRow[d][s]

Sorted(i) ==
  LET rows == Rows(table, Dim(table, i)) IN
  [r \in rows |-> 1 + Cardinality({s \in rows : ComesFirst(i, s, r)})]

(* Mutant: floats stay in the order they come in.                          *)
SortUpdateUnsorted(i) ==
  IF Coord(table, i).isFloat THEN placeOfRow[Dim(table, i)] ELSE Sorted(i)

SortUpdate(i) == Sorted(i)

(* SortUpdateVisitor: a group is split into those of one value each, unless *)
(* they are floats; a group is named by the one it comes from and the value. *)
Regrouped(i) ==
  LET d == Dim(table, i) IN
  IF Coord(table, i).isFloat THEN groupOfRow[d]
  ELSE [r \in Rows(table, d) |-> <<groupOfRow[d][r], KeyOf(table, i, r)>>]

ScheduleSort ==
  /\ extractPc = "schedule" /\ numScheduled < LastCoord(table)
  /\ LET i == numScheduled + 1 IN
     /\ placeOfRow' = [placeOfRow EXCEPT ![Dim(table, i)] = SortUpdate(i)]
     /\ groupOfRow' = [groupOfRow EXCEPT ![Dim(table, i)] = Regrouped(i)]
  /\ numScheduled' = numScheduled + 1
  /\ UNCHANGED <<table, extractPc, rowAt, searchVars, query, answer, numLocations>>

SortRows ==
  /\ extractPc = "schedule" /\ numScheduled = LastCoord(table)
  /\ rowAt' = [d \in Dims(table) |->
                 [p \in Rows(table, d) |-> CHOOSE r \in Rows(table, d) : placeOfRow[d][r] = p]]
  /\ nextCoordToExtractBy' = 1
  /\ extractPc' = "extract"
  /\ UNCHANGED <<table, placeOfRow, groupOfRow, numScheduled, constrainedRanges, resultSet, result,
                 query, answer, numLocations>>

-----------------------------------------------------------------------------
(* Matching, by binary search in a range of the values, which is sorted.   *)

LeastOf(S)    == CHOOSE x \in S : \A y \in S : x <= y
GreatestOf(S) == CHOOSE x \in S : \A y \in S : y <= x

Positions(range) == range[1] .. range[2] - 1

LowerBound(values, range, v) == LeastOf({p \in Positions(range) : values[p] >= v} \cup {range[2]})
UpperBound(values, range, v) == LeastOf({p \in Positions(range) : values[p] > v} \cup {range[2]})
EqualRange(values, range, v) == <<LowerBound(values, range, v), UpperBound(values, range, v)>>

IsOutOfBounds(v, values, range) == v > values[range[2] - 1] \/ v < values[range[1]]

NoMatch == <<0, 0>>

Distance(x, y) == IF x < y THEN y - x ELSE x - y

(* exactMatch falls back on the rows whose coordinate is missing.          *)
ExactMatch(values, v, range) ==
  LET bounds == EqualRange(values, range, v)
      found  == IF bounds[1] = bounds[2] THEN EqualRange(values, range, MissingKey) ELSE bounds
  IN IF found[1] = found[2] THEN NoMatch ELSE found

(* nearestMatch: the value at or above v, or the one below if it is nearer. *)
NearestMatch(values, v, choice, range) ==
  LET p == LowerBound(values, range, v)
      goesBack == /\ values[p] > v /\ p > range[1]
                  /\ \/ Distance(values[p - 1], v) < Distance(values[p], v)
                     \/ /\ Distance(values[p - 1], v) = Distance(values[p], v)
                        /\ choice = "first"
  IN IF IsOutOfBounds(v, values, range) THEN NoMatch
     ELSE EqualRange(values, range, values[IF goesBack THEN p - 1 ELSE p])

LeastUpperBoundMatch(values, v, range) ==
  LET p == LowerBound(values, range, v) IN
  IF p = range[2] THEN NoMatch ELSE EqualRange(values, range, values[p])

GreatestLowerBoundMatch(values, v, range) ==
  LET notAbove == {p \in Positions(range) : values[p] <= v} IN
  IF notAbove = {} THEN NoMatch ELSE EqualRange(values, range, values[GreatestOf(notAbove)])

Match(method, values, v, choice, range) ==
  CASE method = "exact"   -> ExactMatch(values, v, range)
    [] method = "nearest" -> NearestMatch(values, v, choice, range)
    [] method = "lub"     -> LeastUpperBoundMatch(values, v, range)
    [] method = "glb"     -> GreatestLowerBoundMatch(values, v, range)

-----------------------------------------------------------------------------
(* extract.  The caller passes the values of a location one by one, and    *)
(* those of a bilinear interpolation, which come last, in one call.        *)

Called == Len(query) + 1
Extracting(methods) ==
  extractPc = "extract" /\ Called <= LastCoord(table) /\ table.schedule[Called].method \in methods

(* The values of a coordinate once they are sorted, and its range.          *)
VarValues(i) == [p \in Rows(table, Dim(table, i)) |-> KeyOf(table, i, rowAt[Dim(table, i)][p])]
RangeOf(i) == constrainedRanges[Dim(table, i)]

ApplyExtrapolation(i, v) ==
  IF table.schedule[i].extrapMode = "nearest" /\ IsOutOfBounds(v, VarValues(i), RangeOf(i))
    THEN VarValues(i)[IF v > VarValues(i)[RangeOf(i)[2] - 1] THEN RangeOf(i)[2] - 1 ELSE RangeOf(i)[1]]
    ELSE v

(* The extrapolation mode `missing' sets the result at once.               *)
ReturnsMissing(i) == table.schedule[i].extrapMode = "missing"

BadMode(i) == table.schedule[i].method = "exact" /\ table.schedule[i].extrapMode # "error"

Throw(values) ==
  /\ extractPc' = "thrown" /\ query' = query \o values
  /\ answer' = NoAnswer
  /\ UNCHANGED <<table, sortVars, searchVars, numLocations>>

SetResult(cells, values, next) ==
  /\ resultSet' = TRUE /\ result' = cells
  /\ nextCoordToExtractBy' = next
  /\ query' = query \o values /\ answer' = NoAnswer
  /\ UNCHANGED <<table, extractPc, sortVars, constrainedRanges, numLocations>>

(* Once there is a result the other values are ignored, but not all calls   *)
(* are: a pair of values is refused if the coordinate that gave the result, *)
(* which has not been left behind, is not one of a bilinear interpolation.  *)
Ignore ==
  /\ resultSet
  /\ \/ /\ Extracting(Matchings \cup {"linear"})
        /\ \E v \in LookupValues : query' = Append(query, v)
        /\ UNCHANGED <<table, extractPc, sortVars, searchVars, answer, numLocations>>
     \/ /\ Extracting({"bilinear"})
        /\ table.schedule[nextCoordToExtractBy].method # "bilinear"
        /\ \E v, w \in LookupValues : Throw(<<v, w>>)

ExtractMatch ==
  /\ ~resultSet /\ Extracting(Matchings)
  /\ LET i == nextCoordToExtractBy IN \E v \in LookupValues :
       IF BadMode(i) THEN Throw(<<v>>)
       ELSE IF ReturnsMissing(i) THEN SetResult({}, <<v>>, i)
       ELSE LET found == Match(table.schedule[i].method, VarValues(i), ApplyExtrapolation(i, v),
                               table.schedule[i].choice, RangeOf(i)) IN
            IF found = NoMatch THEN Throw(<<v>>)
            ELSE /\ constrainedRanges' = [constrainedRanges EXCEPT ![Dim(table, i)] = found]
                 /\ nextCoordToExtractBy' = i + 1
                 /\ query' = query \o <<v>> /\ answer' = NoAnswer
                 /\ UNCHANGED <<table, extractPc, sortVars, resultSet, result, numLocations>>

Unique(dims) == \A d \in dims : constrainedRanges[d][2] - constrainedRanges[d][1] = 1

(* The cell at the given positions, and at the unique ones elsewhere.      *)
CellAt(at) ==
  [d \in Dims(table) |-> rowAt[d][IF d \in DOMAIN at THEN at[d] ELSE constrainedRanges[d][1]]]

(* linearInterpolation: the cells on either side.                          *)
ExtractLinear ==
  /\ ~resultSet /\ Extracting({"linear"})
  /\ LET i == nextCoordToExtractBy
         cell(p) == CellAt([d \in {Dim(table, i)} |-> p]) IN
     \E v \in LookupValues :
       LET x == ApplyExtrapolation(i, v)
           p == LowerBound(VarValues(i), RangeOf(i), x) IN
       IF ReturnsMissing(i) THEN SetResult({}, <<v>>, i)
       ELSE IF ~Unique(Dims(table) \ {Dim(table, i)}) \/ IsOutOfBounds(x, VarValues(i), RangeOf(i))
         THEN Throw(<<v>>)
       ELSE SetResult(IF VarValues(i)[p] = x THEN {cell(p)} ELSE {cell(p - 1), cell(p)}, <<v>>, i + 1)

(* 0 / 0 is no cell of the payload.                                        *)
NotANumber == {[d \in Dims(table) |-> 0]}

(* bilinearInterpolation: the cells whose payload contributes to the result. *)
(* The positions on the left are bounded by the array, not by the range.    *)
(* If some payloads are missing a nearest one is taken that is not.  In a   *)
(* dimension of one row those on the right lie beyond the array, where      *)
(* anything may be read: it is undefined what the result depends on.       *)
BilinearCells(i, x, j, y) ==
  LET p  == LowerBound(VarValues(i), RangeOf(i), x)
      q  == LowerBound(VarValues(j), RangeOf(j), y)
      p1 == IF p > 1 THEN p - 1 ELSE p
      q1 == IF q > 1 THEN q - 1 ELSE q
      xs == VarValues(i)
      ys == VarValues(j)
      cell(c) == CellAt([d \in {Dim(table, i), Dim(table, j)} |-> IF d = Dim(table, i) THEN c[1] ELSE c[2]])
      corners == {p1, p1 + 1} \X {q1, q1 + 1}
      inArray == {c \in corners : c[1] \in Rows(table, Dim(table, i)) /\ c[2] \in Rows(table, Dim(table, j))}
      present == {c \in corners : cell(c) \notin table.missing}
      square(c) == (x - xs[c[1]]) * (x - xs[c[1]]) + (y - ys[c[2]]) * (y - ys[c[2]])
      weighs(c) == xs[p1 + p1 + 1 - c[1]] # x /\ ys[q1 + q1 + 1 - c[2]] # y
      degenerate == xs[p1] = xs[p1 + 1] \/ ys[q1] = ys[q1 + 1]
  IN IF xs[p] = x /\ ys[q] = y THEN {{cell(<<p, q>>)}}
     ELSE IF inArray # corners THEN SUBSET (NotANumber \cup {cell(c) : c \in inArray})
     ELSE IF present = {} THEN {{}}
     ELSE IF present # corners
       THEN {{cell(c)} : c \in {o \in present : \A a \in present : square(o) <= square(a)}}
     ELSE IF degenerate THEN {NotANumber}
     ELSE {{cell(c) : c \in {o \in corners : weighs(o)}}}

ExtractBilinear ==
  /\ ~resultSet /\ Extracting({"bilinear"})
  /\ LET i == nextCoordToExtractBy
         j == i + 1 IN
     \E v, w \in LookupValues :
       LET x == ApplyExtrapolation(i, v)
           y == ApplyExtrapolation(j, w) IN
       IF ReturnsMissing(i) \/ ReturnsMissing(j)
         THEN SetResult({}, <<v, w>>, IF ReturnsMissing(i) THEN j ELSE j + 1)
       ELSE IF \/ ~Unique(Dims(table) \ {Dim(table, i), Dim(table, j)})
               \/ IsOutOfBounds(x, VarValues(i), RangeOf(i))
               \/ IsOutOfBounds(y, VarValues(j), RangeOf(j))
         THEN Throw(<<v, w>>)
       ELSE \E cells \in BilinearCells(i, x, j, y) : SetResult(cells, <<v, w>>, j + 1)

ResetExtract ==
  /\ constrainedRanges' = FullRanges(table)
  /\ resultSet' = FALSE /\ nextCoordToExtractBy' = 1
  /\ UNCHANGED result

(* Only values of type float may have been interpolated or extrapolated:    *)
(* getUniqueMatch asserts that there is no result yet.                      *)
GetResult ==
  /\ extractPc = "extract" /\ Called > LastCoord(table)
  /\ IF (IF resultSet THEN table.floatPayload ELSE Unique(Dims(table)))
       THEN /\ answer' = [query |-> query, cells |-> IF resultSet THEN result ELSE {CellAt(<<>>)}]
            /\ query' = <<>>
            /\ ResetExtract
            /\ numLocations' = numLocations + 1
            /\ extractPc' = IF numLocations + 1 < MaxLookups THEN "extract" ELSE "done"
            /\ UNCHANGED <<table, sortVars>>
       ELSE Throw(<<>>)

ExtractStopped == extractPc \in {"done", "thrown"} /\ UNCHANGED lookupVars

ExtractNext ==
  \/ ScheduleSort \/ SortRows \/ Ignore \/ ExtractMatch \/ ExtractLinear
  \/ ExtractBilinear \/ GetResult \/ ExtractStopped

ExtractSpec == ExtractInit /\ [][ExtractNext]_lookupVars

-----------------------------------------------------------------------------
(* Properties.  What is asked for: each coordinate in turn selects, of the  *)
(* rows selected before, those with the value its method calls for.         *)

NoKey == -2

(* The value of S that stands for v.                                       *)
Within(mode, S, v) ==
  IF mode # "nearest" \/ S = {} THEN v
  ELSE IF v < LeastOf(S) THEN LeastOf(S) ELSE IF v > GreatestOf(S) THEN GreatestOf(S) ELSE v

Outside(S, v) == S = {} \/ v < LeastOf(S) \/ v > GreatestOf(S)

Nearest(choice, S, v) ==
  LET closest == {x \in S : \A y \in S : Distance(x, v) <= Distance(y, v)}
  IN IF choice = "first" THEN LeastOf(closest) ELSE GreatestOf(closest)

Wanted(method, choice, S, v) ==
  LET above == {x \in S : x >= v}
      below == {x \in S : x <= v}
  IN CASE method = "exact"   -> IF v \in S THEN v ELSE MissingKey
       [] method = "nearest" -> IF Outside(S, v) THEN NoKey ELSE Nearest(choice, S, v)
       [] method = "lub"     -> IF above = {} THEN NoKey ELSE LeastOf(above)
       [] method = "glb"     -> IF below = {} THEN NoKey ELSE GreatestOf(below)

KeysOf(x, i, rows) == {KeyOf(x, i, r) : r \in rows}

AllRows(x) == [d \in Dims(x) |-> Rows(x, d)]

(* The rows left by the value v of coordinate i.                            *)
Narrowed(x, rows, i, v) ==
  LET in   == rows[Dim(x, i)]
      keys == KeysOf(x, i, in)
      key  == Wanted(x.schedule[i].method, x.schedule[i].choice, keys,
                     Within(x.schedule[i].extrapMode, keys, v))
  IN IF Interpolates(x, i) THEN rows
     ELSE [rows EXCEPT ![Dim(x, i)] = {r \in in : KeyOf(x, i, r) = key}]

(* The rows of each dimension that the first k values of q select.         *)
Selected(x, q, k) ==
  LET select[i \in 0 .. k] ==
        IF i = 0 THEN AllRows(x) ELSE Narrowed(x, select[i - 1], i, q[i])
  IN select[k]

(* The values of the selected rows that an interpolation lies between, the  *)
(* value itself if it is one of them; and those next to it.                *)
Point(x, i, rows, v) == Within(x.schedule[i].extrapMode, KeysOf(x, i, rows), v)

Brackets(x, i, rows, v) ==
  LET S == KeysOf(x, i, rows)
      at == Point(x, i, rows, v)
  IN {GreatestOf({y \in S : y <= at}), LeastOf({y \in S : y >= at})}

Neighbours(x, i, rows, v) ==
  LET S == KeysOf(x, i, rows)
      at == Point(x, i, rows, v)
  IN {y \in S : \A z \in S : ~(y < z /\ z < at) /\ ~(at < z /\ z < y)}

(* The values q are answered if each dimension is left with one row, or     *)
(* with rows around the value that is interpolated.                        *)
Answerable(x, q) ==
  LET rows == Selected(x, q, Len(q)) IN
  /\ \A d \in Dims(x) : rows[d] # {}
  /\ \A i \in DOMAIN q : Interpolates(x, i) =>
       LET S == KeysOf(x, i, rows[Dim(x, i)])
       IN ~Outside(S, Within(x.schedule[i].extrapMode, S, q[i]))
  /\ Len(q) = LastCoord(x) =>
       \A d \in Dims(x) \ {Dim(x, i) : i \in {k \in DOMAIN q : Interpolates(x, k)}} :
         Cardinality(rows[d]) = 1

SelectedCells(x, q) ==
  LET rows == Selected(x, q, Len(q)) IN
  {c \in [Dims(x) -> UNION {rows[d] : d \in Dims(x)}] : \A d \in Dims(x) : c[d] \in rows[d]}

BracketCells(x, q) ==
  {c \in SelectedCells(x, q) : \A i \in DOMAIN q : Interpolates(x, i) =>
     KeyOf(x, i, c[Dim(x, i)]) \in Brackets(x, i, Selected(x, q, Len(q))[Dim(x, i)], q[i])}

NeighbourCells(x, q) ==
  {c \in SelectedCells(x, q) : \A i \in DOMAIN q : Interpolates(x, i) =>
     KeyOf(x, i, c[Dim(x, i)]) \in Neighbours(x, i, Selected(x, q, Len(q))[Dim(x, i)], q[i])}

(* A result depends on the cells around the values q; on another one next   *)
(* to them, that is there, only if one of those is missing; and on none     *)
(* only if all of them are.                                                *)
Answers(x, q, cells) ==
  /\ Answerable(x, q)
  /\ cells = {} => BracketCells(x, q) \subseteq x.missing
  /\ \A c \in cells : c \notin BracketCells(x, q) =>
       c \in NeighbourCells(x, q) \ x.missing /\ BracketCells(x, q) \cap x.missing # {}

(* The range of every dimension holds the rows that match the values so    *)
(* far, although it was found by binary searches; an extraction fails only  *)
(* if nothing, or more than one cell, matches; and what it returns answers  *)
(* the values looked up.                                                   *)
ExtractsMatches ==
  /\ extractPc = "extract" /\ ~resultSet => \A d \in Dims(table) :
       {rowAt[d][p] : p \in Positions(constrainedRanges[d])} =
         Selected(table, query, Len(query))[d]
  /\ extractPc = "thrown" => ~Answerable(table, query)
  /\ answer # NoAnswer => Answers(table, answer.query, answer.cells)

(* Tables whose rows can be found by binary searches: a coordinate of floats *)
(* does not split the groups, so no other of its dimension may follow it;   *)
(* and the two of a bilinear interpolation have a dimension of their own    *)
(* each, with at least two values, all distinct, which nothing checks.  The *)
(* extrapolation mode `missing' gives missing for all values, and an exact  *)
(* match none but `error'.                                                 *)
RegularTable(x) ==
  \A i \in DOMAIN x.schedule :
    /\ x.schedule[i].extrapMode # "missing"
    /\ x.schedule[i].method = "exact" => x.schedule[i].extrapMode = "error"
    /\ Coord(x, i).isFloat => \A j \in DOMAIN x.schedule : Dim(x, j) = Dim(x, i) => j <= i
    /\ x.schedule[i].method = "bilinear" =>
         /\ x.size[Dim(x, i)] > 1
         /\ \A j \in DOMAIN x.schedule : Dim(x, j) = Dim(x, i) => j = i
         /\ \A r, s \in Rows(x, Dim(x, i)) : KeyOf(x, i, r) = KeyOf(x, i, s) => r = s

RegularTables == \A x \in TableInputs : RegularTable(x)

(* ExtrapolationMode: extrapolation is where the value is out of bounds.    *)
(* Only then may the mode `missing' return missing.                        *)
MissingOnlyOutOfBounds ==
  answer # NoAnswer /\ answer.cells = {} /\ table.missing = {} => ~Answerable(table, answer.query)

=============================================================================
