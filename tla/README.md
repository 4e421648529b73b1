# A verification of the quality control of UFO

UFO (unified forward operator) holds the observation operators, the bias
correction and the quality control of the JEDI data assimilation system. This
directory holds TLA+ modules that model its quality control, the
configurations with which TLC checks them on small instances, and proofs that
TLAPS checks for all instances.

## 1. The system

All paths below are under `src/src/ufo` unless they start with `test`.

| part | state it keeps | operations | talks to | what makes it correct |
|---|---|---|---|---|
| filter scheduling (`filters/ObsProcessorBase`) | `prior_`, `post_`, the data associated with the filter | `preProcess`, `priorFilter`, `postFilter`, `checkFilterData` | called by oops, calls `doFilter` | each filter runs once, in its stage, with its data |
| filter base class (`filters/FilterBase`) | filter variables, actions | `doFilter`, which calls `processWhere`, `applyFilter` and the actions | ObsFilterData, actions | only the intended variables are touched; actions in the configured order |
| filter actions (`filters/actions`) | none; they write QC flags, errors, diagnostic flags | `apply` | shared `ObsDataVector`s of flags and errors | the first reason for a rejection stays, defective observations stay out |
| QC manager (`filters/QCmanager`) | shared flags and errors | constructor, `postFilter`, the final statistics | first in the chain | no observation passes without value and H(x) |
| final check (`filters/FinalCheck`) | shared flags and errors | `doFilter` | last in the chain | nothing passes that cannot be assimilated |
| value-writing filters (`filters/VariableAssignment`, `variabletransforms`) | the DerivedObsValue group | `doFilter` | ObsSpace, flags | flags say what is missing |
| simple filters (`PerformAction`, `BackgroundCheck`, `PreQC`, ...) | none | `applyFilter` | flags, H(x), errors | their assertions hold |
| where clause (`filters/processWhere`) | none | `processWhere` | ObsFilterData | the mask is the and/or of the conditions |
| records and distribution (`utils/RecursiveSplitter`, `filters/ObsAccessor`, `utils/RecordHandler`) | groups of observations, kept on every MPI rank | `groupBy`, `sortGroupsBy`, collective gathers | ioda distribution | all ranks decide alike |
| thinning (`Thinning`, `Gaussian_Thinning`, `TemporalThinning`, `PoissonDiskThinning`) | what is thinned so far | `applyFilter` | ObsAccessor, bins, kd-tree | one observation per cell, spacing respected |
| track, stuck, history, spike checks | rejected so far, per track | `applyFilter` | ObsAccessor | the loops end and reject what the limits say |
| buddy check (`MetOfficeBuddyCheck`, pair finder) | pairs, probabilities | `applyFilter` | ObsAccessor | each pair once, limits per observation kept |
| profile checks (`profile/`) | `ProfileDataHandler`, a cache of variables | about 30 checks | ObsSpace | the cache is written back to the right entries |
| data extractor (`utils/dataextractor`) | the current range constraints | `extract`, `getResult` | files | the constraint after each step contains the value |
| bias correction (`ObsBias*`, `predictors`) | coefficients by record | `read`, `write`, `+=` | files, MPI | every rank has the same coefficients |
| GeoVaLs, locations | Fortran storage | fill, read, `analytic init` | model | paths and locations fit together |
| operators (`operators/`) | physics | `simulateObs` | GeoVaLs | composite, categorical and time operators fill every location once |
| one-dimensional variational checks | iterates | minimisation | RTTOV, GNSSRO operators | iterations end |

What makes it hard:

- The parts of the quality control know nothing of each other: filters are chosen
  and ordered by a configuration, each decides for itself when it runs, and they
  communicate through the shared vectors of flags and errors only. A
  statement such as "an observation that passes has an H(x)" depends on what any
  number of filters did in an order nobody tested.
- Within one MPI rank everything is sequential, but ranks share decisions: a
  filter that compares observations gathers them and takes the same decision on
  every rank, and nothing but equal inputs, equal random numbers and an equal
  sequence of collective calls makes it the same.
- Filters that compare observations work in place: on a linked list that is
  rewritten while it is read, on counters corrected from sweep to sweep, on
  statistics updated after a removal, on a range that is narrowed from match to match,
  on a cache in front of a cache.

## 2. Modules

| module | what it is |
|---|---|
| `QCFlags` | the flag values of `filters/QCflags.h`, `isRejected`, `isDefective` |
| `FilterActions` | one operator for each class of `filters/actions` and for `updateQCFlags` of `VariableAssignment` |
| `FilterSchedule` | when each filter of a chain runs |
| `ObsFilterChain` | a chain of filters with its flags, errors, values, H(x) and diagnostic flags; instantiates `FilterSchedule` as `Sched` |
| `ObsVerdict` | abstract specification: the life of one observation in the eyes of the users of QC flags |
| `RecursiveSplitter` | the partition of ids, in place |
| `DistributedThinning` | ranks that run `Gaussian_Thinning::applyFilter`, with `ObsAccessor` and `RecordHandler` |
| `PoissonDiskThinning`, `TemporalThinning`, `MedianThinning` | the three thinning algorithms that decide by comparing observations |
| `TrackCheck`, `StuckCheck`, `TrackCheckShip`, `SpikeAndStepCheck`, `HistoryCheck` | the checks of sequences of observations |
| `MetOfficeBuddyPairFinder` | the search for pairs, and both collectors |
| `DataExtractor` | the lookup in tables, as `DrawValueFromFile` uses it |
| `Where` | `processWhere` |
| `ProfileDataHandler` | `ConventionalProfileProcessing` with its caches |
| `SequenceChecks` | the checks of sequences of observations, one by one, with their inputs as parameters |
| `RecordsInputs` | tables and where clauses for `MCRecords` |
| `MC...` | what TLC explores |
| `FilterScheduleProofs`, `ObsFilterChainProofs`, `ProfileDataHandlerProofs` | theorems and proofs about the module of that name |
| `ThinningProofs` | about `PoissonDiskThinning`, `TemporalThinning` and `MedianThinning` |
| `RecordsProofs` | about `RecursiveSplitter`, `DistributedThinning`, `Where` and `DataExtractor` |
| `TrackCheckProofs` | about `SequenceChecks`: `TrackCheck` and the other checks |
| `PairFinderProofs` | about `MetOfficeBuddyPairFinder` |
| `OrderLemmas` | lemmas on ranks in an order and on sequences put together from sequences, for `ThinningProofs`, `RecordsProofs` and `PairFinderProofs` |

The modules describe components that do not share state, except for the first
five. `SequenceChecks`, `MCThinning`, `MCTracks` and `MCRecords` put several of them into one
state space for the sake of few runs: a behaviour runs one of them (`filter`,
`check`, `part`; their variables and definitions have names that tell them apart), the variables of the others stay as they are, and a property of an
idle component holds trivially.

Mutants (definitions whose comment starts with `Mutant:`) are plausible bugs of
the definition that follows them. No module uses them; each one breaks a
property when it takes the place of the definition.

### FilterSchedule

| variable | in the code |
|---|---|
| `chain` | the filters of `oops::ObsFilters`, as configured: the list they stand in, the groups of variables they refer to (`allvars_`), `defer to post` |
| `driver`, `phase`, `next` | where the caller is: H(x) from a file, from the operator or absent; the loop; the filter about to be called |
| `prior`, `post` | `prior_` and `post_` of each `ObsProcessorBase` |
| `associated` | what each filter's `data_` has been associated with |
| `ran` | history: how often `doFilter` ran |

`PreProcess`, `PriorFilter` and `PostFilter` are one call of the member function
of that name for the filter `next`. A filter of `obs filters` (AUTO) is called
in all three loops, one of the `obs pre/prior/post filters` only in its own:
this belongs to oops, which is not part of the repository, and is modelled from
the three branches of `ObsProcessorBase` and the configurations of the tests
(`filter_stage.yaml`). `Construct` is `checkFilterData`. The `End...` actions
are the ends of the caller's loops, with the conditions under which
`test/ufo/ObsFilters.h` enters the next one. Any call may `Throw`.

### ObsFilterChain

| variable | in the code |
|---|---|
| `flags` | `flags_`, shared by all filters: variable and location to QC flag |
| `obserr` | `obserr_`: a number, the missing value indicator, or what a multiplication makes of the indicator |
| `present`, `derived` | which (Derived)ObsValues are not missing; the variables in the DerivedObsValue group |
| `hofx`, `bias` | H(x) and bias as `postFilter` gets them; before the operator no bias is missing |
| `diagVars`, `diag` | DiagnosticFlags variables in the ObsSpace, and where they are true |
| `flagged`, `pending` | `flagged` and the rest of the loop over the actions in `FilterBase::doFilter` |
| `thrown` | the exception that ended the program |

A call of a filter is one action, in which the where clause selects any
set of locations and `applyFilter` flags any of the observations it may flag
(`MayFlag`): all of them (PerformAction, BlackList, AcceptList), those outside
(ObsDomainCheck), any subset (PreQC, which stands for every check that looks at
data), or any subset of those that pass and have an error (BackgroundCheck). The
background check asserts that what it compares has a value, an H(x), a bias and a
positive finite threshold (`AssertionFails`). Its `threshold` says where the last comes
from: a number, a multiple of the error estimate, data that may be anything (a variable,
the background error), or `function absolute threshold`, with which neither bias nor
threshold are looked at. The operator computes the bias as a sum from which predictors are left
out where they are missing (`AddBiasTerm`). A variable may be in the DerivedObsValue
group from the start, put there by an earlier program. Each
filter action is a further step, which is finer than needed (nothing runs in
between) and makes the loop visible. `TransformVariables` and
`AssignVariables` store new values, any of which may be missing, and then update
the flags. `CreateQCmanager`, `QCmanagerPostFilter` and `FinalCheck` are the
filters that surround every chain; `FinalCheck` includes the mask the
caller puts on the errors.

The scheduling part of each action is an action of `Sched`, so that a
statement about the order of filters is proved once and carried over.

### ObsVerdict

An observation is a candidate, absent, defective, or rejected for one of several
reasons. Only a candidate is judged, so the first reason stays; a rejection can be taken
back and a missing value supplied, a defective observation does not come back, and the
end of the QC admits nothing and leaves some unused. The refinement mapping takes each
QC flag to itself: `pass` is the candidate, `missing` the absent, `preQC` and
`Hfailed` are the defects, `processed` is what `FinalCheck` gives to what is not
simulated, and every other flag is a reason. `missing` is defective
in the sense of `isDefective` too; it is kept apart because
assignments and transforms, and nothing else, may lift it.

### RecursiveSplitter

| variable | in the code |
|---|---|
| `orderedIds`, `encodedGroups` | `orderedIds_`, `encodedGroups_` |
| `ops` | `opsCompatibilityMode_`: sorting is not stable |
| `pc`, `categories`, `lastIndexInGroup`, `lastIndexInLastGroup`, `newFirstIndex`, `newLastIndex` | the argument and the local variables of `groupBy` |
| `given`, `before`, `reordered` | history |

A call of `groupBy` is a step for each turn of its outer and of its inner loop, since
what is hard is that the loops write the new list into the array from which they read the
old one. Each call may be followed by `sortGroupsBy` or `shuffleGroups`.
`GroupsAreClasses` compares the list with the reference definition: ids are in a
group iff they agree in all vectors given so far.

### DistributedThinning

| variable | in the code |
|---|---|
| `obs`, `set`, `holder` | observations, options of the filter and grouping of the ObsSpace, the distribution |
| `rankPc`, `posted` | where each rank is in `applyFilter`; what it has contributed to the gathers |
| `validIds`, `groupsOf`, `flagged` | `validObsIds`, the splitter's groups, the flags set on the rank |

A rank's step goes from one collective call to the next and waits until all ranks
have contributed (`Arrived`). Distributions are those ioda has: every rank holds
everything, or each location, and each record, is held by one rank.

### PoissonDiskThinning, TemporalThinning, MedianThinning

`position`, `priority` and `record` are the observations in the order of the gather.
`retained[r]` is the point index (a kd-tree) of rank r, `thinned[r]` its
`isThinned`, `seed[r]` its random number generator's, and `left[r]` what the loop over the
groups has not reached. The interior of an exclusion volume is an interval.
Priorities are integers of a type with `Half` negative values, and the arithmetic on
them wraps around.

`TemporalThinning` is one group of valid observations. `pass` tells
which of the passes is under way; `it`, `best` and `deadline` are the variables
of `thinRange`, `isThinned` its argument; `seedObs` is history. `MedianThinning` follows
the selection of medians, bin by bin in any order: `value`, `selected`, `valid` and `bin` are the observations,
`groupsLeft` the groups of the splitter that have not been looked at, and `thinnedInBins` the filter's `isThinned`.
`Gaussian_Thinning.cc:490` calls `abs` without a qualifier, which by the headers of the build is the function
of `float` or that of `int`: `truncates`, a constant of each behaviour, says that it is the second, which
drops the fraction of a distance (`Unit` is the value that stands for 1).
The list of values of a bin is not sorted: its k-th value is that of the observation which k - 1 others precede.

### TrackCheck, StuckCheck, TrackCheckShip, SpikeAndStepCheck, HistoryCheck

| module | variables and the code |
|---|---|
| `TrackCheck` | `checks`, `failures`: `checkCounter_`; `rejectedInPreviousSweep`, `rejectedBeforePreviousSweep`; `numVisited`: `numNeighborsVisitedInPreviousSweep`, by direction. A step is one observation of a sweep (both directions), the end of the sweep, or the registration of its outcome |
| `StuckCheck` | `observationIndex`, `firstSameValueIndex`, `previousObservationValue`: the locals of the loop; a step is an observation |
| `TrackCheckShip` | `track`: the observations left; `stats`: what `TrackObservation` keeps, each field updated where the code updates it; `meanSpeed`. A step removes one observation |
| `SpikeAndStepCheck` | `ind`, `lastChecked`, `isThinned`, and the two diagnostic flags; a step is a level |
| `HistoryCheck` | `stage`: where `applyFilter` is; `wideFlagged`, `wideFlaggedLocationIds`, `locationIdToIndex`, `historyFlagged`. What the two filters flag in the wider obs space is any set |

Positions lie on a line: turning angles are 0 or 180 degrees. Ship speeds are
multiples of `1 / Scale`, chosen so that the divisions of the instance are exact.

### MetOfficeBuddyPairFinder

`validObsIdsInSortOrder` and `bandLbounds` are what `sortObservations` leaves.
`jBandA`, `obsA`, `jBandB` and `firstObsToCheckInBands` are the loops of
`pairObservations`, one step for each band searched. The half widths of
longitude and the distance on the sphere are not computed: `halfWidth` and `reach`
are parameters for each band with `reach <= halfWidth`. That the code's half width is as
large as the reach is assumed; near the poles it is not exactly so.

### DataExtractor and Where

| variable | in the code |
|---|---|
| `extractPc`, `numLocations` | where the caller is: scheduling, extracting or ended; how many locations it has looked up |
| `placeOfRow`, `groupOfRow` | `splitter_` of each dimension: where each row comes, and its group |
| `rowAt`, `numScheduled` | the permutation that `sort` applied to coordinates and payload; the number of `coordsToExtractBy_` |
| `constrainedRanges`, `nextCoordToExtractBy` | the members of these names |
| `resultSet`, `result` | `resultSet_`, `result_` as the set of cells it was computed from |
| `query`, `answer` | history: values passed to `extract`, what `getResult` returned for them |

`ExtractsMatches` is a reference definition that knows neither sorting nor
ranges: rows that match each coordinate in turn. A bilinear interpolation in a dimension
of one row reads beyond the payload array, whatever is there: what the result depends on
is then any set of cells (`BilinearCells`).

`Where` has one step, the whole of `processWhere`; `Selection` is a recursive function that applies the
comparisons to the mask in the order of the code, with the second mask that the operator `or` needs.

### ProfileDataHandler

| variable | in the code |
|---|---|
| `group`, `loop`, `pc`, `jprof` | the loops of `ConventionalProfileProcessing::applyFilter` over groups of checks and profiles |
| `cursor`, `profileIndices` | `ProfileIndices`: `profIndex_`, `profileNumToFind_`, `profileNumCurrent_`, `profidx_current_`; the locations of the current profile |
| `profileData`, `entireSampleData` | the caches of `ProfileDataHandler` and `EntireSampleDataHandler` |
| `obsdb`, `profileFlagged` | the obs space, and the observations the filter flags |
| `profiles` | the `ProfileDataHolder`s of a check of the entire sample |
| `found` | history |

The option `ValidateTotalNumProf` is on or off (`sample`). A value set for a variable that is not
in the cache of the sample goes into defaults, not into what the obs space has of it
(`initialiseVector`). This is harmless because all that is moved to the sample has been
fetched from it first, which the proof shows (`LoadedInv`).
The numerical checks are replaced by three variables that stand for what they do to
the caches: flags of a variable, flags of the report, a counter of errors.

## 3. Runs

Numbers are distinct states.

| run | instance | states | question |
|---|---|---|---|
| `schedule` | all chains with up to 2 filters: 4 lists, 5 combinations of groups, `defer to post` on and off; 3 drivers | 33,122 | does each filter run once, when it should, with its data |
| `pipeline` | any 1 or 2 of 15 filters of `obs filters`, and chains of the staged lists (3 pre, 3 prior and 4 post filters in all combinations); a simulated and an unsimulated variable, 1 location | 1,547,186 | is what passes usable, does the background check abort, is `ObsVerdict` implemented |
| `derived` | any 1 or 2 of 8 filters, with or without an assignment before them; a variable that only filters create | 380,824 | derived variables have values; diagnostic flags across stages |
| `profiles` | 27 chains of 3 filters; 2 locations, a profile and its average | 185,255 | does an averaged profile follow the original one |
| `thinning` | Poisson-disk: 3 observations in 2 records, priorities at both ends of a 3-bit int, 2 ranks in random order or one after the other; temporal: groups of 2 and 4 at 6 times; median: 4 observations in 2 bins, `abs` of either type | 2,042,250 | is what is thinned near something better, do the retained keep their distance, do ranks agree |
| `records` | splitter: up to 4 ids, 2 criteria of 2 categories, one reordering; 3 locations in 2 records on 2 ranks; 2 lookups in each of the tables of `RecordsInputs`; its where clauses | 146,299 | are groups the classes they should be, do ranks take one decision and return, is what is looked up what matches, do opposite clauses complement each other |
| `tracks` | 5 observations of an aircraft, a station or a ship; 4 observations in 3 bands; profiles of 6 levels; 4 reports with an assimilation window | 327,317 | are counters right after any sweeps, do sweeps end, is what is rejected what the limits say, are pairs found once, are flags carried over |
| `profile_data` | 2 records of 2 and 2 or 1 and 3 observations, 3 groups of checks or 2 filters, the number of profiles validated or not | 77,394 | do the findings of checks get into the obs space and the flags through both caches |

What the properties say:

| property | run | in words |
|---|---|---|
| `RunsOnceWhenDue`, `ScheduleInv`, `RunsWithItsData`, `EveryFilterRuns` | `schedule` | a filter runs at most once and not before or after its stage; its inductive strengthening; the data are there when it runs; it does run |
| `ChainInv`, `PassingObsHaveHofX`, `PassingObsHaveError`, `BackgroundCheckSafe`, `ImplementsVerdict` | `pipeline` | what passes has H(x) and an error estimate; no assertion of the background check fails; the chain refines `ObsVerdict` |
| `PassingObsHaveValue`, `DiagnosticFlagsFound` | `derived` | what passes has a value; no filter sets a diagnostic flag that does not exist |
| `AveragedFollowsOriginal` | `profiles` | once an original observation is flagged, the averaged profile is too |
| `ThinnedByBetter`, `ExclusionVolumesRespected`, `RanksAgree` | `thinning` | thinned for a retained neighbour of no lower priority; retained ones are apart; all ranks thin the same |
| `SpacingKept`, `ThinnedForAReason`, `MedianRetained` | `thinning` | `min_spacing` holds within and across passes; no observation without a near retained one is thinned; one stays in each bin, that nearest to the median if `abs` is exact |
| `GroupsAreClasses`, `UnreadLinksKept`, `IdsAscendInGroups`, `GroupByReturns` | `records` | groups are classes; no link is overwritten before it is followed; stable order; termination |
| `RecordsThinnedWhole`, `OneRetainedPerGroup`, `EveryRankReturns` | `records` | a record is thinned as a whole; over all ranks one of the best competitors stays; both whether or not invalid observations are flagged besides; no rank waits for ever |
| `ExtractsMatches`, `OppositesShareLocations` | `records` | a lookup returns the matching cells or fails when it must; a clause and its opposite partition the locations without missing values |
| `CountersUpToDate`, `SmallestSetVisited`, `AcceptedAgree`, `SweepsEnd` | `tracks` | the corrected counters equal a recount; no more neighbours are visited than needed; what is accepted has passed all checks against accepted buddies; termination |
| `StreaksRejected`, `FastSegmentsRemoved`, `PairsFound` | `tracks` | exactly the long streaks are rejected; no fast segment is left; every pair is within the radius, found once and within the limits on buddies, and the collector that is not the legacy one leaves none out unless it has reached a limit |
| `OutliersAreSpikes`, `FlagsCarriedOver` | `tracks` | in an evenly spaced, otherwise constant profile exactly the outliers are thinned, as spikes; as many of a set of identical reports are flagged in the window as in the wider obs space |
| `ChecksReachSample`, `FlaggedAsRejected` | `profile_data` | between groups of checks the sample holds all that was found; what is flagged is what was rejected or belongs to a failed report |

### Why the bounds are enough

- *Chains.* What one filter does at a location depends on that
  location alone, except for the profiles, which relate two. Filters
  influence each other through flags, errors and values, and a violation needs one
  filter that spoils something and one that reacts to it; the QC manager before
  them and the final check after them are always there, so chains of two
  between them contain every pair, and the staged chains, `derived` and `profiles` add a
  third. The safety properties are proved for chains of any length (section 5).
- *Splitter.* Two criteria over four ids give two groups out of one old group, two old
  groups, and single ids before, between and after groups.
- *Ranks.* Three locations on two ranks: a record whose launch position is not its
  first location or does not pass, a rival in the other record on the same rank or the
  other, an idle rank.
- *Thinning.* Three observations allow one to be thinned for another that is no
  neighbour of the third. Four observations at six times leave room for two windows of
  replacement on either side of a seed; tolerances are below, at and above the minimum
  spacing. Bins have fewer observations than the minimum number, as many and more.
- *Sequences.* With five observations a sweep rejects one whose two neighbours on a side
  have to be replaced by the ones behind them, more than once; streaks lie at the beginning, in
  the middle and at the end; the fastest segment of a ship track lies at an end, next to an end
  and in the middle. Six levels hold two spikes, or one next to an end and one in the
  middle. Four reports hold two pairs of identical ones across the start of the window.
- *Pairs.* Three bands: both polar ones and one between; both names of the date line.
- *Lookups.* Two successive ones show what is left over from the first.
- *Profiles.* Two records, contiguous or not, sorted or not, and three groups of checks show each
  transition between profile and sample.

Named bounds: `MCMaxFilters`, the first argument of `Chain`, `MaxGroupBy`,
`MaxReorder`, `MaxLocations`, and the sets `MC...` assigned to constants. There are no
unbounded counters. Deadlock is checked in every run: what has ended stutters by
`Stopped`, `Done` or `Finished`, everything else has to go on.

### Premises

Some properties of the chain have a premise on the chain, since they fail without it:

- `SettledBeforeHofX`: nothing that runs in `postFilter` accepts observations or writes
  values. Otherwise an observation can pass that the QC manager did not look at
  (run `accept_after_hofx`).
- `AcceptsUnalteredObs`: a chain with the action `accept` has no filter
  that writes values or overwrites averaged profiles. Otherwise an observation
  may have lost its value, or the flag that says so, while it was rejected
  (`AcceptedProfiles.cfg`).
- `NoInflation`: no `inflate error`. Otherwise a missing error may
  no longer be recognised as missing (`InflatedErrors.cfg`).
- `ThresholdsUsable`: thresholds of background checks are positive numbers, or multiples of
  error estimates in a chain without `inflate error`. Thresholds read from variables, those that
  are not positive, and the background error as a multiplier are outside: any value may be there.
- `FlagsCreatedInTime`: a filter that creates the diagnostic flag runs
  before the one that sets it, by stage first and position second.

Others are stated for the cases in which the code keeps what it promises; the
case left out is in section 7: `MedianRetained` for bins without missing values and, where it says which
observation stays, for builds in which `abs` is exact,
`StreaksRejected` for stations without missing values, `OutliersAreSpikes` for outliers of
evenly spaced profiles that are not at the second level, with positive tolerances and a `threshold` of at
most one half, its default (above that an outlier not far outside the tolerance makes the level before it
part of a steady gradient, and line 364 of `SpikeAndStepCheck.cc`, which a comment calls an "OPS bug", then
leaves the outlier itself unchecked), `ChecksReachSample` for records that are contiguous if locations are
sorted or `ValidateTotalNumProf` is off (only otherwise does the constructor of `ProfileIndices` validate that), `FlagsCarriedOver` unless stations are told apart by
records, `FlaggedAsRejected` for records selected as a whole and a QCFlags variable that
exists, `EveryRankReturns` unless a record has two categories (the code throws on the rank that
holds it, while the others wait), `PairsFound` for ranges of longitude of less than half the
circle or all of it, and none whose end falls on the date line (`RegularRanges`), `ExtractsMatches` for tables without the mode
`missing`, with `exact` matches in the mode `error` only, in which a coordinate of floats is the last of its dimension to be matched, and those of a
bilinear interpolation have a dimension of their own each, with two rows at least and distinct values, which the code does not check (`RegularTable`; `MCRecords` asserts it of the tables of
`Records.cfg`, and its negation of those that section 7 names).

### Violations

Four runs end in a counterexample: they show where a statement of the sources does not hold.

| run | statement | what happens |
|---|---|---|
| `accept_after_hofx` | the assertions of `BackgroundCheck.cc` | rejected, H(x) missing, accepted after `QCmanager::postFilter`: the background check aborts |
| `uneven_spacings` | `PoissonDiskThinning.cc:295`: no spacing is larger than the previous one | each spacing is compared with the first; a retained observation lies in another's exclusion volume |
| `endless_sweeps` | `TrackCheck.h:43`: sweeps continue until one rejects nothing | with `rejection_threshold` 1 they go on for ever |
| `missing_extrapolation` | `DataExtractor.h:415`: extrapolation is for values out of bounds | the mode `missing` gives missing for all values |

## 4. Fairness

One thread executes a chain, a splitter or a check, every call returns or throws, and the
program does not stop in between; so weak fairness of the steps of that thread is
assumed and nothing about which of several steps is taken. In `FilterSchedule` it is
`WF` of `Next`; `EveryFilterRuns` allows for an exception.
In `RecursiveSplitter` it is `WF` of a turn of `groupBy`, not of calling it.
In `TrackCheck` it is `WF` of the four steps of the sweeps. In
`DistributedThinning` each rank is a process with its own fairness, `WF` of `Step(r)`: MPI
lets every rank proceed whose collective call all ranks have entered. Safety properties of the
other modules, `ObsFilterChain` among them, need none.

## 5. Proofs

Assumptions on the constants are named, stand in the module that declares the constants, and TLC evaluates them in the runs (those of
the modules that `SequenceChecks` instantiates as `StationsOK`, `ShipsOK`, `SpikesOK` and `ScenariosOK`). They say what the types of the C++ members and the
validation of options say. The number of filters, variables, locations,
profiles, observations, ranks and ids is arbitrary, and so are their values.

- `FilterScheduleProofs`. "A filter ran at most once, when it should" is not
  inductive: it says nothing of `prior_` and `post_`, which decide about the next
  call. `ScheduleInv` adds their values as a function of list, stage and
  position, that the filters asked for data their list has, and which
  loops are skipped without an operator. `TypeCorrect`, `ScheduleInvariant`, `FiltersRunOnceWhenDue`
  and `FiltersRunWithTheirData` follow.
- `ObsFilterChainProofs`. First the filter actions: types of their results; rejections commute as to
  what passes (`RejectionsCommute`), and no action lets a defective observation pass
  (`DefectiveStaysOut`). The lemmas `Same...` say that the instance of
  `FilterScheduleProofs` and `Sched` define the same things, and
  `StepOfSchedule` that a step of the chain is one of the schedule: this gives
  `ChainIsScheduled`, and `ScheduleInv` without another proof. `IInv` adds `ChainInv`,
  whose parts are
  - `RunningInv`: pending actions belong to the filter called last, in the
    stage it is due, and concern its variables. It links a flag written in some
    step to the premises, which speak of the configuration;
  - `ValueInv`: what has no value is not only kept from passing, but defective if
    the chain has an `accept`. Without this, accepting would break
    `PassingObsHaveValue`;
  - `HofXInv`: between the operator and the QC manager H(x) is known but not yet
    looked at;
  - `BiasInv`: no bias is missing, although predictors are;
  - `ErrorInv`: without inflation no error is spurious at any time;
  - `CreatedInv`: the diagnostic flag exists once the filter that creates it has run, and a
    filter that sets it comes later by the order of stages and positions;
  - `ProfileInv`: where part of an original profile carries the filter's flag, the averaged one neither passes
    nor is it marked as missing, from which an assignment could bring it back. That a flag was given by
    the action on profiles, not by another action of the same filter, follows from the order that
    `FilterBase` demands of actions.

  From it follow `TypeCorrect`, `ChainStaysConsistent`, `PassingHaveValue`, `PassingHaveHofX`, `PassingHaveError`,
  `DiagnosticFlagsAreFound`, `AveragedStayRejected`
  and `BackgroundCheckNeverAborts`, the last of which needs all parts and the
  schedule: a background check runs in `postFilter` only. Its premises are on
  the chain alone (section 3); for the bias none is needed. `ChainKeepsVerdicts`
  is the refinement of `ObsVerdict`, for every chain that does not
  overwrite averaged profiles.
- `RecordsProofs`, on `RecursiveSplitter`. `LinksAreKept` (`UnreadLinksKept`: the part of the array that has not
  been read is as it was) needs to know where the cursors are and that the old list ascends and
  ends (`CursorsOK`, `OldList`); for `ListStaysWellFormed` the list as written so far is
  added (`NewList`). What the lists mean is `GroupsInv`: the old one holds the groups under all criteria but the
  last, the new one those under all of them, up to the group being found. Sorting an old group by category
  puts each new one in one piece, and what is reordered stays within its group. `IteratorsVisitClasses`
  (`GroupsAreClasses`) and `IdsStayInOrder` follow.
- `RecordsProofs`, on `DistributedThinning`. Where a rank is determines what it has sent and worked out (`PostedInv`, `WorkInv`), as
  a function of the observations and of who holds them, whatever the interleaving. What is gathered is a
  function of the observations alone, read at the ids of the rank's accessor; so two ranks form the same groups
  (`RanksGroupAlike`), or groups of different records that never compete (`ApartMeans`). `OneOfEachGroupIsRetained`
  and `RecordsStayWhole` follow, with and without the option to retain only wholly valid observations, for any number of ranks and any distribution.
- `RecordsProofs`, on `Where`. `OppositesShare` (`OppositesShareLocations`). Going through the comparisons, the mask is at each
  point the conjunction or the disjunction of those made (`SelectionJoins`); the comparisons of the opposite clause are
  as many, raise an exception where those of the clause do, and are their opposites wherever no value
  is missing (`OppositesCorrespond`).
- `RecordsProofs`, on `DataExtractor`. `ExtractionMatches` (`ExtractsMatches`), for any number of dimensions, rows, coordinates and lookups, from
  `RegularTables`. The splitter of a dimension keeps the rows that agree in all coordinates scheduled together, in one chunk, and
  chunks in order (`RowsGrouped`); so when `sort` has been applied the rows are listed in the lexicographic order of the
  coordinates (`RowsListed`). After each call of `extract` the range of every dimension holds exactly the rows the values
  passed so far select (`Searched`): in it the next coordinate ascends, so what `std::equal_range`,
  `lower_bound` and `upper_bound` find is what the method asks for (`MatchFinds`). The neighbours a linear and a
  bilinear interpolation take are the rows around the values (`LinearAnswers`, `BilinearAnswers`). Each part of `RegularTable` is
  needed: TLC has a counterexample for the mode `missing`, for a category matched after floats, and for a bilinear coordinate in a dimension already
  constrained or of one row (sections 3 and 7); two rows with equal values would make a bilinear interpolation divide by zero.
- `ProfileDataHandlerProofs`. Every loop over the profiles finds their locations anew, with a cursor;
  if records are contiguous it finds the same ones each time (`WalkInv`). On this rests
  `DataInv`: where nothing is pending, a lookup in the cache of the sample and then in the obs space gives
  what the checks have found (`SampleInv`), and so do the cache of the current profile (`CacheInv`), what
  is left of the holders (`HoldersInv`) and the flags of the filter (`FlaggedInv`). What is pending is what the
  checks have changed in the cache of a profile or in a holder that has not been moved yet.
  `LoadedInv`: what the holders have taken stays in the cache of the sample, so no default takes the place
  of a stored value when they are emptied.
  `WhatIsFoundIsStored` and `RejectedIsFlagged` follow.
- `ThinningProofs`, on `PoissonDiskThinning`. The sort key of a priority p is -p - 1 although the subtractions
  overflow on the way, for an int of any width (`ReverseReverses`); so
  nothing left of a category has a higher priority than what was looked at (`OrderInv`), and
  `ThinnedOnlyByBetter` follows. `VolumesRespected` (`VolumesInv`) has the premise `SpacingsDecrease`,
  which is what the comment on the validation promises and the validation does not establish.
  `RanksDecideAlike`: what a rank has looked at is an initial part of an order (`PrefixInv`), the same on
  all ranks once the seeds are synchronised, and each decision depends on those before it only
  (`ReasonInv`), so the decisions two ranks have both taken are the same (`SameDecisions`).
- `TrackCheckProofs`. `CountersAreUpToDate`: what a sweep subtracts for buddies that are gone and adds for
  fresh ones makes the counters equal to a recount of the buddies not rejected. This rests on an exchange lemma on sets
  (visited before minus gone plus fresh is visited now), on no observation being rejected twice (`RejectedOnce`), and on every observation having been
  swept at the end of a sweep (`SweptAll`). `AcceptedBuddiesAgree` follows with `EndInv`: the last sweep
  found no failures. `SmallestSetsVisited` needs `WindowInv`: until a sweep comes to an observation its window is the
  smallest there was with the buddies of that time, and buddies that have gone can only widen it.
- `TrackCheckProofs`, through instances of the modules of the other checks:
  - `LongStreaksRejected` for `StuckCheck`. `StreakInv`: the current streak begins at `firstSameValueIndex`, and what is
    rejected is what belongs to long streaks that ended before it;
  - `FastSegmentsAreRemoved` for `TrackCheckShip`. `LoopInv`: the speed and the angle recorded with each
    observation are those of the track as it is now, although after a removal only those next to
    it are computed again. Angles are recorded where both segments are long enough only, so nothing is known of the others;
  - `FlagsAreCarriedOver` for `HistoryCheck`. `HistoryInv` says which labels have been collected. The counter in a
    label is the rank of the report among identical ones (`CountersFill`, `CountersBelow`), so in both
    obs spaces the labels of identical reports are an initial part of the same numbers;
  - `OutliersAreSpikesOnly` for `SpikeAndStepCheck`. `SpikeInv`: what is thinned is the outliers passed, and
    `lastChecked` is the last of them, which is why its far side is not taken for a step.
- `ThinningProofs`, on `TemporalThinning`. `SpacingIsKept` holds across passes since each pass keeps
  away from the seed (`SeedInv`), and within a pass by `PassInv`: the replaceable observation is
  the last one the pass has retained (`BestInv`), and the next one is due no earlier than `min_spacing` behind all that are
  retained (`DueInv`), which a replacement could spoil. `ThinnedWithReason`: an observation that replaces
  another takes over what was thinned for it (`ReasonInv`).
- `ThinningProofs`, on `MedianThinning`. `MedianIsRetained` (`MedianRetained`): one observation, with either `abs`,
  and which one if it is exact. What is retained in a bin is a function of whether
  its group has been looked at, whatever the order of the bins (`BinsInv`). The median is computed from the two values in the
  middle of the sorted list, and the first observation closest to it is kept. That this observation has at most half of the others
  below it and at most half above follows from the ranks of the two values: nothing between them is further from their mean
  than they are.
- `PairFinderProofs`. `PairsAreSound`: every pair is within the radius, none is found twice in either order, and the limits on
  buddies hold. `PairsAreFound` (`PairsFound`) adds that the collector leaves out no pair within the radius unless it has reached
  a limit, from `RegularRanges`. `Sees(p, q)` says which positions of the order the search from p would examine if it never found
  enough: the loops over bands list these, each once, although the first observation to be checked in a band moves on
  from one search to the next (`PotentialBuddiesAre`). `CollectorOK` says that what the collector has examined it has taken, if within the radius, or
  had no room for. No two positions see each other (`SeesOneWay`), and one of two within the radius sees the other (`OneSees`).
  The second needs `RegularRanges`: the inputs of `WidePairs.cfg` are outside.
- `OrderLemmas`. Where the code sorts, the models choose the k-th element as the one that k - 1 others come before, since the
  provers cannot follow a sequence that is sorted. The lemmas say that in a total order of a finite set this element exists and is unique, that ranks
  ascend with the order, and what a sequence made of sequences contains.

Induction over positions and lengths is done by a lemma on least members of a set of numbers
(`LeastIsMember`, `LeastMember`): of all counterexamples there would be a first one.

Proving corrected the model where TLC's instances were too small to tell: filters give flags of
`FilterQCFlag` only; original and averaged profiles do not share a location (`ProfilesAssumption`); `ChecksReachSample` was
false for records that are sorted but not contiguous, such as `<<0, 1, 0, 2>>` in descending order; `OutliersAreSpikes` was
false for thresholds above one half; TLC confirmed both counterexamples. `ExtractsMatches` was false for a bilinear
interpolation of a value on a row both of whose cells are missing: the code then takes the cells of the row next to it, which
the reference definition did not allow. It does now, where one of the cells around the values is missing (`Answers`), and `BilinearInputs` has such a table.

Type correctness of the modules with proofs is proved, so that the runs need not check it.

## 6. What is only model-checked, and what is not modelled

Only model-checked is liveness (`EveryFilterRuns`, `GroupByReturns`, `EveryRankReturns`,
`SweepsEnd`): TLAPS does not reason about fairness and ENABLED. Every safety property of the passing runs is
stated by a theorem of section 5.

Not modelled:

- In a chain, what the filters compute from data is an arbitrary choice, so the results hold
  whatever they compute. Error estimates are not numbers: those
  read from the file are positive or missing. Variables written by
  VariableAssignment are floats of the DerivedObsValue group: those of ObsValue are
  refused, and others do not touch flags. Chains run on one rank: their filters decide
  location by location. `reduce obs space` belongs to ioda.
- Geometry: distances on the sphere, bins of `Gaussian_Thinning`, ellipsoids of `PoissonDiskThinning`
  (all volumes of the model are intervals). Random numbers: `Thinning.cc` draws one per location;
  `shuffleGroups` is any permutation, fixed by the seed.
- Floating-point rounding, and so thresholds that are met exactly up to rounding.
- Probabilities of gross error (`MetOfficeBuddyCheck` behind the pair finder, Bayesian checks).
- The profile checks themselves, GeoVaLs, observation bias, operators, predictors, obs functions,
  localization and one-dimensional variational checks: numerical code, most of it Fortran
  behind thin wrappers. Backends of the data extractor, parsing, printing and the comparison of results
  with reference values.

The largest part of the repository is physics of that kind. The modules cover the parts that
decide and keep state.

## 7. Further disagreements

Where the code differs from what a comment or a document says. Each of the following has a
configuration that is not among the runs; TLC finds the property violated.

| configuration (module) | property | statement and what happens |
|---|---|---|
| `InflatedErrors.cfg` (`MCObsFilterChain`) | `MissingErrorsExcluded` | `FinalCheck.h`: observations with missing errors get the flag `missing`; a missing error that was multiplied does not equal the indicator any more |
| `AcceptedProfiles.cfg` (`MCObsFilterChain`) | `MissingValuesExcluded` | `QCflags.h`: missing values prevent use of the observation; the flag of a missing averaged observation is overwritten, then accepted |
| `DefaultVariables.cfg` (`MCObsFilterChain`) | `OnlyFilterVariablesModified` | `FilterParametersBase.h`: filter variables default to all simulated variables; before H(x) they default to all observed ones |
| `RejectedProfiles.cfg` (`MCObsFilterChain`) | `AveragedProfilesRejected` | `FlagOriginalAndAveragedProfiles.h`: rejects any averaged profile whose original has a flagged observation; only one that passed until then counts |
| `ThinnedAcrossRecords.cfg` (`MCPoissonDiskThinning`) | `RecordsThinnedSeparately` | records are thinned separately without a category variable; they are not |
| `RelativeThreshold.cfg` (`MCTrackCheck`) | `RejectedExceedThreshold` | `rejection_threshold` is a fraction of checks; it is relative to the worst observation |
| `WidePairs.cfg` (`MCTracks`) | `PairsFound` | a range of longitudes of more than half the circle, but not all, loses pairs of one band across the date line |
| `FloatThenCategory.cfg` (`MCRecords`) | `ExtractsMatches` | `DataExtractor.h:492`: a match is always one contiguous chunk; sorting by a coordinate of floats first separates the rows of a category matched later |
| `BilinearConstrained.cfg` (`MCRecords`) | `ExtractsMatches` | the left neighbour of a point is bounded by the array instead of the rows that match: rows of another category, or 0/0. With `TableInputs <- SingleRowInputs` the cells to the right lie beyond an array of one row |

Others can be seen by naming the property in an existing configuration, as invariant or, where
said so, as property:

- `FilterSchedule.cfg`: `DeferredFilterRuns` (a filter of the pre list with `defer to post` never runs),
  `DeferredRunsAfterOperator` (property; one of the prior list runs before the operator).
- `Thinning.cfg`: `SeedRetained` (the seed of `TemporalThinning` can be replaced), `OnlySelectedThinned` (median thinning flags what
  the where clause leaves out), `MedianRetainedDespiteMissing` (an index into the present values
  is used in the list with the missing ones), `MedianRetainedByAnyAbs` (`GaussianThinningParameters.h:159`:
  the observation closest to the median is accepted; not if the `abs` of `Gaussian_Thinning.cc:490` is
  that of `int`).
- `Tracks.cfg`: `StreaksRejectedBeforeMissing` (a streak is not judged if the observations
  after it, up to the end of the station, are missing), `RemovedForAReason` (property; ship tracks lose observations with neither
  a fast segment nor a sharp turn), `OutliersAtSecondLevelToo` (the test for a spike is not made at the
  second level, where an outlier is missed or taken for a step), `FlagsCarriedOverByRecord` (records are numbered anew in the
  wider obs space), `WiderObsSpaceIsWider` (`timeAfterEndOfWindow` is subtracted).
- `ProfileData.cfg`: `ProfilesHoldSelected` (with a descending sort the where clause is looked up at another
  level; records that are not contiguous are split), `FlaggedAsFound` (QC flags that do not exist are
  missing integers, whose bits say rejected).

From reading only, without a model that shows it:

- `MetOfficeBuddyPairFinder`: the range's half width is computed from the edge of band A and a chord,
  slightly too small near a pole.
- `processWhere`: a relative tolerance is negative for a negative test value; missing values pass one-sided
  bounds; the missing integer has some bits set; "set `where` to true everywhere if there are no comparisons" is done
  only for an empty list; `is_false` throws for an absent variable where `is_true` gives false.
- `DataExtractor`: a payload that is not of floats with the mode `missing` meets an assertion; a
  coordinate with that mode before a bilinear interpolation throws.
- `HistoryCheck`: a stuck check configured by percentage only throws. `StuckCheck.cc:78`: a vector of the size of the
  valid observations is indexed by global ids. `AssignError.cc:79`: a vector indexed by the position among
  all variables.

## 8. Plan

Done: schedule, chain, records and ranks, thinning, sequence checks, buddy pairs, data extractor,
profile caches, where clause, and proofs of the safety properties of each. Left, in this order:

1. The where clause and the chain composed, to replace the arbitrary choice of locations.
2. `ObsBias` by record, with the restart from a file; the paths of GeoVaLs.
3. Composite, categorical and time operators: each location filled once.
4. The control of the one-dimensional variational loops, and the update of pairs in
   the buddy check with exact fractions.
