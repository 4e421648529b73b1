-------------------------- MODULE DistributedThinning --------------------------
(***************************************************************************)
(* A thinning filter on observations distributed over MPI ranks.           *)
(*                                                                         *)
(* Every rank runs Gaussian_Thinning::applyFilter on the locations it      *)
(* holds.  What to retain depends on the locations of other ranks, so the  *)
(* ObsAccessor gathers validity, categories and priorities in the order of *)
(* the ranks, every rank takes the whole decision for itself and, with the *)
(* RecordHandler's help when records count as single observations, applies *)
(* it to its own locations.  Groups that never cross a rank are thinned    *)
(* without communication.  Bins are left out: they split the groups        *)
(* further, by values gathered in the same way.                            *)
(***************************************************************************)
EXTENDS Integers, FiniteSets, SequencesExt

CONSTANTS Ranks,    \* 1 .. number of MPI ranks
          Locs,     \* the locations, numbered in the order of the input file
          Datasets, \* the observations: what each location carries
          Settings  \* the configurations of the filter and of the ObsSpace

Missing == 0   \* the missing date and time

ASSUME ThinningAssumption ==
  /\ IsFiniteSet(Ranks) /\ Ranks = 1 .. Cardinality(Ranks) /\ Ranks # {}
  /\ IsFiniteSet(Locs) /\ Locs \subseteq Nat \ {0} /\ Locs # {}
  /\ \A d \in Datasets : d \in
       [Locs -> [apply : BOOLEAN, passing : SUBSET {1, 2}, time : Nat,
                 category : Nat, priority : Nat, record : Nat]]
  /\ \A s \in Settings : s \in
       [single : BOOLEAN, byCategory : BOOLEAN, all : BOOLEAN,
        grouping : {"none", "category", "other"}]

VARIABLES
  obs,      \* the observations
  set,      \* the configuration
  holder,   \* the rank that holds a location, 0 if all ranks hold all of them
  rankPc,   \* the step each rank is at
  posted,   \* the vectors a rank has contributed to collective calls
  validIds, \* validObsIds of each rank
  groupsOf, \* the groups of the rank's RecursiveSplitter
  flagged   \* the locations the rank flags

thinningVars == <<obs, set, holder, rankPc, posted, validIds, groupsOf, flagged>>

Replicated == \A l \in Locs : holder[l] = 0
Held(r) == {l \in Locs : holder[l] \in {0, r}}

InOrder(S) == [k \in 1 .. Cardinality(S) |->
                 CHOOSE i \in S : Cardinality({l \in S : l < i}) = k - 1]
Local(r)   == InOrder(Held(r))

HasRecords == set.grouping # "none"
RecordNumber(l) == IF set.grouping = "category" THEN obs[l].category ELSE obs[l].record
Record(l) == {m \in Locs : RecordNumber(m) = RecordNumber(l)}

(* Each record is held by a single rank.                                   *)
IsDistribution(h) ==
  \/ \A l \in Locs : h[l] = 0
  \/ /\ \A l \in Locs : h[l] # 0
     /\ HasRecords => \A l, m \in Locs : RecordNumber(l) = RecordNumber(m) => h[l] = h[m]

(* createObsAccessor, and the constructor of the ObsAccessor, which takes  *)
(* the records for the groups when the category variable made them.        *)
Grouping ==
  IF ~set.byCategory THEN "nothing"
  ELSE IF set.single THEN "single"
  ELSE IF set.grouping = "category" THEN "record" ELSE "variable"

(* The accessor exchanges data: with InefficientDistribution, or when every *)
(* rank holds everything, allGatherv leaves its argument alone.            *)
Communicates == Grouping # "record" /\ ~Replicated

(* globalUniqueConsecutiveLocationIndex, with an ordinary distribution: the *)
(* ranks' locations one after the other.                                   *)
GlobalOrder ==
  IF Replicated THEN InOrder(Locs) ELSE FlattenSeq([r \in Ranks |-> Local(r)])

(* Mutant: a rank takes the global ids for its local ones.                  *)
IdsNotGlobal(r) == Local(r) \o SelectSeq(GlobalOrder, LAMBDA l : l \notin Held(r))

(* The location an id of the accessor stands for on rank r.                *)
AccessorIds(r) == IF Communicates THEN GlobalOrder ELSE Local(r)

-----------------------------------------------------------------------------
(* Collective calls.                                                       *)

Arrived(r) == Communicates => \A q \in Ranks : Len(posted[q]) >= Len(posted[r])

(* The k-th vector of rank r after allGatherv.                             *)
Gathered(r, k) ==
  IF Communicates THEN FlattenSeq([q \in Ranks |-> posted[q][k].values])
  ELSE posted[r][k].values

AllGatherv(r, what, value(_)) ==
  posted' = [posted EXCEPT ![r] = Append(@,
    [what |-> what, values |-> [i \in DOMAIN Local(r) |-> value(Local(r)[i])]])]

-----------------------------------------------------------------------------
(* RecordHandler.                                                          *)

Passes(l) == IF set.all THEN obs[l].passing = {1, 2} ELSE obs[l].passing # {}

Earlier(l, m) ==
  /\ obs[l].time # Missing
  /\ \/ obs[m].time = Missing
     \/ obs[l].time < obs[m].time

(* getLaunchPositions: the first, in stable order of time, of the dated    *)
(* locations whose filter variables pass, or else of all locations.        *)
LaunchPosition(S) ==
  LET good == {l \in S : obs[l].time # Missing /\ Passes(l)}
      from == IF good = {} THEN S ELSE good
  IN CHOOSE l \in from :
       \A m \in from \ {l} : Earlier(l, m) \/ (l < m /\ ~Earlier(m, l))

(* changeApplyIfRecordsAreSingleObs.                                       *)
Apply(l) ==
  IF set.single /\ HasRecords
    THEN l = LaunchPosition(Record(l)) /\ \E m \in Record(l) : obs[m].apply
    ELSE obs[l].apply

Valid(l) == Apply(l) /\ Passes(l)

(* Mutant: only the launch position is flagged.                            *)
ChangeThinnedNot(thinned) == thinned

(* changeThinnedIfRecordsAreSingleObs.                                     *)
ChangeThinned(thinned) ==
  IF set.single /\ HasRecords
    THEN {l \in Locs : Record(l) \cap thinned # {}}
    ELSE thinned

-----------------------------------------------------------------------------
ThinningInit ==
  /\ obs \in Datasets /\ set \in Settings
  /\ holder \in [Locs -> {0} \cup Ranks] /\ IsDistribution(holder)
  /\ rankPc = [r \in Ranks |-> "check"]
  /\ posted = [r \in Ranks |-> <<>>]
  /\ validIds = [r \in Ranks |-> <<>>]
  /\ groupsOf = [r \in Ranks |-> {}]
  /\ flagged = [r \in Ranks |-> {}]

GoTo(r, step) == rankPc' = [rankPc EXCEPT ![r] = step]

(* checkRecordCategories: a rank throws when one of ITS records has several *)
(* categories; the others do not know.                                     *)
MixedRecord(r) ==
  /\ set.single /\ set.byCategory
  /\ HasRecords
  /\ \E l, m \in Held(r) : Record(l) = Record(m) /\ obs[l].category # obs[m].category

CheckRecordCategories(r) ==
  /\ rankPc[r] = "check"
  /\ GoTo(r, IF MixedRecord(r) THEN "threw" ELSE "valid")
  /\ UNCHANGED <<obs, set, holder, posted, validIds, groupsOf, flagged>>

(* Mutant: a rank without locations has nothing to do and returns.          *)
PostValidReturnsEarly(r) ==
  /\ rankPc[r] = "valid"
  /\ IF Held(r) = {} THEN UNCHANGED posted ELSE AllGatherv(r, "valid", Valid)
  /\ GoTo(r, IF Held(r) = {} THEN "done" ELSE "category")
  /\ UNCHANGED <<obs, set, holder, validIds, groupsOf, flagged>>

(* getValidObservationIds: the argument of the gather ...                  *)
PostValid(r) ==
  /\ rankPc[r] = "valid"
  /\ AllGatherv(r, "valid", Valid)
  /\ GoTo(r, "category")
  /\ UNCHANGED <<obs, set, holder, validIds, groupsOf, flagged>>

(* ... and its result; then splitObservationsIntoIndependentGroups asks for *)
(* the categories.                                                         *)
Category(l) == IF Grouping = "record" THEN RecordNumber(l)
               ELSE IF Grouping = "nothing" THEN 0 ELSE obs[l].category

PostCategory(r) ==
  /\ rankPc[r] = "category" /\ Arrived(r)
  /\ LET valid == Gathered(r, 1) IN
       validIds' = [validIds EXCEPT ![r] = InOrder({i \in DOMAIN valid : valid[i]})]
  /\ AllGatherv(r, "category", Category)
  /\ GoTo(r, "priority")
  /\ UNCHANGED <<obs, set, holder, groupsOf, flagged>>

PostPriority(r) ==
  /\ rankPc[r] = "priority" /\ Arrived(r)
  /\ LET category == Gathered(r, 2)
         valid    == ToSet(validIds[r])
     IN groupsOf' = [groupsOf EXCEPT ![r] =
          {{i \in valid : category[i] = category[j]} : j \in valid}]
  /\ AllGatherv(r, "priority", LAMBDA l : obs[l].priority)
  /\ GoTo(r, "flag")
  /\ UNCHANGED <<obs, set, holder, validIds, flagged>>

(* std::min_element with the comparator: the highest priority, of equally  *)
(* good observations the first.                                            *)
Best(group, priority) ==
  CHOOSE i \in group : \A j \in group \ {i} :
    priority[j] < priority[i] \/ (priority[j] = priority[i] /\ i < j)

(* flagObservationsForAnyFilterVariableFailingQC.                          *)
FailingQC(r) ==
  {l \in Held(r) : set.all /\ obs[l].apply /\ obs[l].passing # {1, 2}}

(* identifyThinnedObservations and flagRejectedObservations.               *)
Flag(r) ==
  /\ rankPc[r] = "flag" /\ Arrived(r)
  /\ LET priority == Gathered(r, 3)
         thinned  == UNION {g \ {Best(g, priority)} : g \in groupsOf[r]}
         locs     == {AccessorIds(r)[i] : i \in thinned}
     IN flagged' = [flagged EXCEPT ![r] =
          (ChangeThinned(locs) \cap Held(r)) \cup FailingQC(r)]
  /\ GoTo(r, "done")
  /\ UNCHANGED <<obs, set, holder, posted, validIds, groupsOf>>

Finished == /\ \A r \in Ranks : rankPc[r] \in {"done", "threw"} \/ ~Arrived(r)
            /\ UNCHANGED thinningVars

Step(r) == \/ CheckRecordCategories(r) \/ PostValid(r) \/ PostCategory(r)
           \/ PostPriority(r) \/ Flag(r)

ThinningNext == (\E r \in Ranks : Step(r)) \/ Finished

ThinningFairness == \A r \in Ranks : WF_thinningVars(Step(r))

ThinningSpec == ThinningInit /\ [][ThinningNext]_thinningVars /\ ThinningFairness

-----------------------------------------------------------------------------
(* Properties.                                                             *)

ThinningTypeOK ==
  /\ rankPc \in [Ranks -> {"check", "valid", "category", "priority", "flag", "done", "threw"}]
  /\ \A r \in Ranks :
       /\ Len(posted[r]) \in 0 .. 3
       /\ \A k \in DOMAIN posted[r] : Len(posted[r][k].values) = Cardinality(Held(r))
       /\ ToSet(validIds[r]) \subseteq DOMAIN AccessorIds(r)
       /\ UNION groupsOf[r] \subseteq ToSet(validIds[r])
       /\ flagged[r] \subseteq Held(r)

AllDone == \A r \in Ranks : rankPc[r] = "done"
Flagged == UNION {flagged[r] : r \in Ranks}

(* What competes: records if they count as single observations and there   *)
(* are records, locations otherwise.                                       *)
Units == IF set.single /\ HasRecords THEN {Record(l) : l \in Locs} ELSE {{l} : l \in Locs}

Represents(u) == IF set.single /\ HasRecords THEN LaunchPosition(u) ELSE CHOOSE l \in u : TRUE

Competes(u) == (\E l \in u : obs[l].apply) /\ Passes(Represents(u))

CategoryOf(u) == IF set.byCategory THEN obs[Represents(u)].category ELSE 0

Rivals(u) == {v \in Units : Competes(v) /\ CategoryOf(v) = CategoryOf(u)}

(* The locations that `retain only if all filter variables are valid' flags *)
(* for a variable that has failed, whether they are thinned or not.        *)
Invalid == {l \in Locs : set.all /\ obs[l].apply /\ obs[l].passing # {1, 2}}

ThinnedPart(S) == S \cap (Flagged \ Invalid)

(* Records that count as single observations are thinned as a whole, even   *)
(* though the decision is taken at one location, the launch position, by    *)
(* ranks most of which do not hold the record.                             *)
RecordsThinnedWhole ==
  AllDone /\ set.single /\ HasRecords =>
    \A l \in Locs : Record(l) \subseteq Flagged \/ ThinnedPart(Record(l)) = {}

(* However the locations are spread over the ranks, exactly one of the      *)
(* competitors of each category is retained, none of the others has a       *)
(* higher priority, and nothing that does not compete is thinned.  What has *)
(* a failed variable does not compete where all have to be valid.          *)
OneRetainedPerGroup ==
  AllDone =>
    \A u \in Units :
      IF Competes(u)
        THEN \E b \in Rivals(u) :
               /\ \A v \in Rivals(u) : ThinnedPart(v) = {} <=> v = b
               /\ \A v \in Rivals(u) :
                    obs[Represents(v)].priority <= obs[Represents(b)].priority
        ELSE ThinnedPart(u) = {}

(* No rank waits for ever in a collective call, unless a record with two    *)
(* categories made one throw: all make the same calls, with or without      *)
(* locations of their own.                                                 *)
EveryRankReturns ==
  (\A r \in Ranks : rankPc[r] = "check" /\ ~MixedRecord(r)) ~> AllDone

=============================================================================
