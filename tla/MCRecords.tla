------------------------------- MODULE MCRecords -------------------------------
(* What filters that look at groups of observations rest on, on small        *)
(* instances: a behaviour uses a RecursiveSplitter, or thins observations     *)
(* that are distributed over ranks, or looks up values in a table whose rows *)
(* a splitter has grouped, or selects locations by a where clause.           *)
(*                                                                         *)
(* Two successive criteria of two categories over up to four ids are enough *)
(* for two groups of two that come out of one old group, for two old groups,*)
(* and for single ids before, between and after the groups.                 *)
(*                                                                         *)
(* Three locations, two of them in one record, on two ranks: a record whose *)
(* launch position is not its first location, or does not pass; a rival in  *)
(* the other record, on the same rank or on the other; an idle rank.        *)
(*                                                                         *)
(* The tables are looked up at two locations.                              *)
EXTENDS RecursiveSplitter, DistributedThinning, Where, DataExtractor, RecordsInputs

MCSizes == 0 .. 4
MCCategories == {1, 2}

VARIABLE part

MCRanks == 1 .. 2
MCLocs  == 1 .. 3

(* Observations of the locations one, two and three.                       *)
Applies      == {<<TRUE, TRUE, TRUE>>, <<TRUE, FALSE, TRUE>>}
Passing      == {<<{}, {1, 2}, {1, 2}>>, <<{1, 2}, {1}, {1, 2}>>, <<{1, 2}, {1, 2}, {1, 2}>>}
TimesOf      == {<<2, 1, 1>>, <<Missing, 1, 1>>}
CategoriesOf == {<<1, 1, 2>>, <<1, 2, 1>>}
Priorities   == <<1, 1, 2>>
RecordsOf    == <<1, 1, 2>>

MCDatasets ==
  {[l \in MCLocs |-> [apply |-> a[l], passing |-> p[l], time |-> t[l], category |-> c[l],
                      priority |-> Priorities[l], record |-> RecordsOf[l]]] :
     a \in Applies, p \in Passing, t \in TimesOf, c \in CategoriesOf}

MCSettings == [single : BOOLEAN, byCategory : BOOLEAN, all : BOOLEAN,
               grouping : {"none", "category", "other"}]

(* The missing value of integers is -2147483643.                            *)
MCMissingBits == {0, 2, 31}

(* The tables that the theorem about extraction is of, and some that are not. *)
ASSUME RegularInputs == /\ \A x \in MCTableInputs : RegularTable(x)
                        /\ \A x \in FloatThenCategoryInputs \cup SingleRowInputs \cup ConstrainedInputs :
                             ~RegularTable(x)

SplitterIdle ==
  /\ n = 0 /\ ops = FALSE /\ orderedIds = << >> /\ encodedGroups = << >>
  /\ pc = "idle" /\ categories = << >>
  /\ lastIndexInGroup = -1 /\ lastIndexInLastGroup = -1
  /\ newFirstIndex = 0 /\ newLastIndex = 0
  /\ given = << >> /\ before = << >> /\ reordered = 0

ThinningIdle ==
  /\ obs = 0 /\ set = 0 /\ holder = 0 /\ rankPc = [r \in Ranks |-> "idle"]
  /\ posted = 0 /\ validIds = 0 /\ groupsOf = 0 /\ flagged = 0

ExtractionIdle ==
  /\ table = 0 /\ extractPc = "idle" /\ placeOfRow = 0 /\ groupOfRow = 0
  /\ numScheduled = 0 /\ rowAt = 0
  /\ constrainedRanges = 0 /\ nextCoordToExtractBy = 0 /\ resultSet = FALSE /\ result = {}
  /\ query = <<>> /\ answer = <<>> /\ numLocations = 0

SelectingIdle == clause = 0 /\ selection = NotYet

PartsInit ==
  \/ /\ part = "splitter"
     /\ Init /\ ThinningIdle /\ ExtractionIdle /\ SelectingIdle
  \/ /\ part = "thinning"
     /\ SplitterIdle /\ ThinningInit /\ ExtractionIdle /\ SelectingIdle
  \/ /\ part = "extraction"
     /\ SplitterIdle /\ ThinningIdle /\ ExtractInit /\ SelectingIdle
  \/ /\ part = "where"
     /\ SplitterIdle /\ ThinningIdle /\ ExtractionIdle /\ WhereInit

PartsNext ==
  \/ part = "splitter"   /\ Next            /\ UNCHANGED <<part, thinningVars, lookupVars, whereVars>>
  \/ part = "thinning"   /\ ThinningNext     /\ UNCHANGED <<part, vars, lookupVars, whereVars>>
  \/ part = "extraction" /\ ExtractNext  /\ UNCHANGED <<part, vars, thinningVars, whereVars>>
  \/ part = "where"      /\ WhereNext       /\ UNCHANGED <<part, vars, thinningVars, lookupVars>>

allVars == <<part, vars, thinningVars, lookupVars, whereVars>>

PartsSpec ==
  PartsInit /\ [][PartsNext]_allVars /\ Fairness /\ ThinningFairness

(* Only tables are looked up.                                              *)
LookupSpec == PartsInit /\ part = "extraction" /\ [][PartsNext]_allVars

==================================================
