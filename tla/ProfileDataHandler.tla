--------------------------- MODULE ProfileDataHandler ---------------------------
(***************************************************************************)
(* ConventionalProfileProcessing: groups of profile checks that work on    *)
(* one profile at a time or on all of them at once, through a cache of the *)
(* current profile (ProfileDataHandler) in front of a cache of the whole   *)
(* sample (EntireSampleDataHandler) in front of the obs space.             *)
(*                                                                         *)
(* The checks are represented by what they do to three variables: the QC   *)
(* flags of one filter variable ("flags"), those of the whole observation  *)
(* ("report"), and the counter of errors ("errors").                       *)
(***************************************************************************)
EXTENDS Integers, Sequences, FiniteSets

CONSTANTS
  Samples   \* observations, where clause, groups of checks and options

Missing == -1   \* odd as the missing integer is: the bit of a final rejection is set

isRejected(v) == v % 2 = 1
reject(v)     == IF isRejected(v) THEN v ELSE v + 1

(* profileNums are record numbers, which ioda gives in order of appearance; *)
(* recidx holds the locations of each record as sorted.                    *)
ProfilesAssumption ==
  \A s \in Samples :
    /\ s.profileNums \in Seq(Nat) /\ s.profileNums # <<>>
    /\ s.apply \subseteq DOMAIN s.profileNums
    /\ \A i, k \in DOMAIN s.profileNums :
         i < k => \/ s.profileNums[i] <= s.profileNums[k]
                  \/ \E j \in 1 .. i : s.profileNums[j] = s.profileNums[k]
    /\ s.sort \in {"none", "ascending", "descending"}
    /\ s.ValidateTotalNumProf \in BOOLEAN
    /\ s.inObsdb \subseteq {"flags", "report"}
    /\ s.nErrorsFail \in Nat /\ s.errorsPerProfile \in BOOLEAN
    /\ s.holdsReport \in BOOLEAN /\ (s.holdsReport => "report" \in s.inObsdb)
    /\ s.groups \in Seq({"profile", "sample", "filter"}) /\ s.groups # <<>>
    /\ s.groups[Len(s.groups)] # "filter"
    /\ \A g \in DOMAIN s.groups :
         g = 1 \/ s.groups[g - 1] = "filter" => s.groups[g] = "profile"

VARIABLES
  sample,            \* the input
  group,             \* the number of the group of checks the filter is at
  loop, pc,          \* the loop over the profiles it is in, and what is next in it
  jprof,             \* the number of profiles the loop has initialised
  cursor,            \* ProfileIndices: profIndex_, profileNumToFind_, profileNumCurrent_, profidx_current_
  profileIndices,    \* locations of the levels of the current profile
  profileData,       \* the cache of the current profile: variable to values
  entireSampleData,  \* the cache of the sample
  obsdb,             \* the variables in the obs space
  profiles,          \* the ProfileDataHolders of a check of the entire sample: values, and
                     \* (history) the locations they belong to
  profileFlagged,    \* pairs of a filter variable and a location
  found              \* history: what the checks have found, at locations

vars == <<sample, group, loop, pc, jprof, cursor, profileIndices, profileData, entireSampleData,
          obsdb, profiles, profileFlagged, found>>

Locs    == DOMAIN sample.profileNums
Records == {sample.profileNums[i] : i \in Locs}
nrecs   == Cardinality(Records)
RecordLocs(r) == {i \in Locs : sample.profileNums[i] = r}

(* As sorted; the order is not that of the locations.                      *)
recidx(r) ==
  LET size == Cardinality(RecordLocs(r))
  IN [k \in 1 .. size |->
        CHOOSE i \in RecordLocs(r) : Cardinality({l \in RecordLocs(r) : l > i}) = k - 1]

Rank(r) == Cardinality({s \in Records : s < r}) + 1

(* The elements of a set of locations, in order.                           *)
InOrder(S) == [k \in 1 .. Cardinality(S) |->
                 CHOOSE i \in S : Cardinality({l \in S : l < i}) = k - 1]

(* The caches are maps from variables: f in front of g, and one variable    *)
(* added.                                                                  *)
Over(f, g) == [v \in DOMAIN f \cup DOMAIN g |-> IF v \in DOMAIN f THEN f[v] ELSE g[v]]

With(f, var, value) == Over([v \in {var} |-> value], f)

-----------------------------------------------------------------------------
(* ProfileIndices.                                                         *)

Reset == [profIndex |-> 1, toFind |-> sample.profileNums[1],
          current |-> sample.profileNums[1], record |-> 1]

(* The locations from the current one on that belong to the profile.       *)
Run == {i \in Locs : /\ cursor.profIndex <= i
                     /\ \A k \in cursor.profIndex .. i : sample.profileNums[k] = cursor.toFind}

sortedLocation(i) ==
  IF sample.sort = "descending"
  THEN recidx(CHOOSE r \in Records : Rank(r) = cursor.record)[i - cursor.profIndex + 1]
  ELSE i

NextIndices ==
  LET selected == InOrder(Run \cap sample.apply)
  IN [k \in DOMAIN selected |-> sortedLocation(selected[k])]

(* updateNextProfileIndices                                                *)
updateNextProfileIndices ==
  LET next == cursor.profIndex + Cardinality(Run)
  IN /\ profileIndices' = NextIndices
     /\ cursor' = [profIndex |-> next,
                   current |-> cursor.toFind,
                   toFind |-> IF next \in Locs THEN sample.profileNums[next] ELSE cursor.toFind,
                   record |-> IF next \in Locs THEN cursor.record + 1 ELSE cursor.record]

(* The two ways in which the constructor or the first call throws.          *)
Throws ==
  \/ sample.sort = "none" /\ sample.ValidateTotalNumProf
     /\ Cardinality({i \in Locs : i = 1 \/ sample.profileNums[i] # sample.profileNums[i - 1]}) # nrecs
  \/ sample.sort = "ascending"

-----------------------------------------------------------------------------
(* EntireSampleDataHandler: get, and initialiseVector, which does not ask   *)
(* the obs space for a variable that is not in the cache.                   *)

Default(var) ==
  [k \in 1 .. (IF var = "errors" /\ sample.errorsPerProfile THEN nrecs ELSE Len(sample.profileNums))
     |-> IF var = "errors" THEN 0 ELSE Missing]

SampleGet(s, var) ==
  IF var \in DOMAIN s THEN s
  ELSE With(s, var, IF var \in DOMAIN obsdb THEN obsdb[var]
                    ELSE IF var = "errors" THEN Default(var) ELSE <<>>)

initialiseVector(s, var) ==
  IF var \in DOMAIN s /\ s[var] # <<>> THEN s ELSE With(s, var, Default(var))

-----------------------------------------------------------------------------
(* ProfileDataHandler: get, updateProfileInformation.                      *)

Indices(var) ==
  IF var = "errors" /\ sample.errorsPerProfile THEN <<Rank(cursor.current)>> ELSE profileIndices

get(d, s, var) ==
  IF var \in DOMAIN d THEN d
  ELSE LET all == SampleGet(s, var)[var]
       IN With(d, var, IF all = <<>> THEN <<>>
                       ELSE [k \in DOMAIN Indices(var) |-> all[Indices(var)[k]]])

(* updateValueIfPresent for all levels of the profile.                     *)
Updated(all, values, at) ==
  IF all = <<>> \/ values = <<>> THEN all
  ELSE [i \in DOMAIN all |->
          IF \E k \in DOMAIN at : at[k] = i
          THEN values[CHOOSE k \in DOMAIN at : at[k] = i] ELSE all[i]]

UpdatedSample(d, s) ==
  [var \in DOMAIN s |->
     IF var \in DOMAIN d THEN Updated(s[var], d[var], Indices(var)) ELSE s[var]]

setFinalReportFlags(d) ==
  IF d["errors"] # <<>> /\ d["errors"][1] > sample.nErrorsFail
  THEN [d EXCEPT !["report"] = [k \in DOMAIN @ |-> reject(@[k])]]
  ELSE d

FilterVars == {"flags", "other"}

RejectedIn(d, var) ==
  {profileIndices[k] : k \in {k \in DOMAIN profileIndices :
     var \in DOMAIN d /\ d[var] # <<>> /\ isRejected(d[var][k])}}

(* setFlagged: the flags of a variable reject it, those of the report all. *)
Flagged(d) == {"flags"} \X RejectedIn(d, "flags") \cup FilterVars \X RejectedIn(d, "report")

(* Mutant: what is flagged is decided before the report is rejected.        *)
FlaggedFirst(d, s) ==
  LET loaded == get(get(d, s, "report"), s, "errors")
      final  == setFinalReportFlags(loaded)
  IN /\ profileData' = final
     /\ profileFlagged' = profileFlagged \cup Flagged(loaded)
     /\ entireSampleData' = UpdatedSample(final, SampleGet(SampleGet(s, "report"), "errors"))

updateProfileInformation(d, s) ==
  LET loaded == get(get(d, s, "report"), s, "errors")
      final  == setFinalReportFlags(loaded)
  IN /\ profileData' = final
     /\ profileFlagged' = profileFlagged \cup Flagged(final)
     /\ entireSampleData' = UpdatedSample(final, SampleGet(SampleGet(s, "report"), "errors"))

-----------------------------------------------------------------------------
(* applyFilter: individualProfileChecks and entireSampleChecks.            *)

Init ==
  /\ sample \in Samples
  /\ group = 1 /\ loop = "none" /\ jprof = 0
  /\ pc = (IF Throws THEN "thrown" ELSE "start")
  /\ cursor = Reset /\ profileIndices = <<>>
  /\ profileData = <<>> /\ entireSampleData = <<>>
  /\ obsdb = [var \in sample.inObsdb |-> [i \in Locs |-> 0]]
  /\ profiles = <<>> /\ profileFlagged = {}
  /\ found = [flags |-> {}, errors |-> [r \in Records |-> 0]]

(* The filter is followed by another one of the same kind.                 *)
StartFilter ==
  /\ pc = "start" /\ sample.groups[group] = "filter"
  /\ group' = group + 1
  /\ cursor' = Reset /\ profileIndices' = <<>>
  /\ profileData' = <<>> /\ entireSampleData' = <<>> /\ profileFlagged' = {}
  /\ UNCHANGED <<sample, loop, pc, jprof, obsdb, profiles, found>>

StartGroup ==
  /\ pc = "start" /\ sample.groups[group] # "filter"
  /\ loop' = IF sample.groups[group] = "profile" THEN "check" ELSE "fill"
  /\ pc' = "initialise" /\ jprof' = 0
  /\ cursor' = Reset
  /\ UNCHANGED <<sample, group, profileIndices, profileData, entireSampleData, obsdb,
                 profiles, profileFlagged, found>>

initialiseNextProfile ==
  /\ pc = "initialise" /\ jprof < nrecs
  /\ profileData' = <<>>
  /\ updateNextProfileIndices
  /\ jprof' = jprof + 1 /\ pc' = "use"
  /\ UNCHANGED <<sample, group, loop, entireSampleData, obsdb, profiles, profileFlagged, found>>

(* runChecks for one profile.  The basic checks load the flags; what comes  *)
(* after them may load nothing.  At most one level is rejected and one      *)
(* error is counted, in the first entry.                                   *)
LoadsFlags == group = 1 \/ sample.groups[group - 1] = "filter"

runChecks ==
  /\ loop = "check" /\ pc = "use" /\ pc' = "update"
  /\ \/ ~LoadsFlags /\ UNCHANGED <<profileData, entireSampleData, found>>
     \/ LET s == SampleGet(SampleGet(entireSampleData, "flags"), "errors")
            d == get(get(profileData, entireSampleData, "flags"), entireSampleData, "errors")
        IN /\ entireSampleData' = s
           /\ \E levels \in {{}} \cup {{k} : k \in DOMAIN d["flags"]}, more \in {0, 1} :
                /\ d["flags"] = <<>> => more = 0
                /\ profileData' =
                     [d EXCEPT !["flags"] = [k \in DOMAIN @ |-> IF k \in levels THEN reject(@[k]) ELSE @[k]],
                               !["errors"] = [k \in DOMAIN @ |-> IF k = 1 THEN @[k] + more ELSE @[k]]]
                /\ found' = [flags |-> found.flags \cup {profileIndices[k] : k \in levels},
                             errors |-> [found.errors EXCEPT ![cursor.current] = @ + more]]
  /\ UNCHANGED <<sample, group, loop, jprof, cursor, profileIndices, obsdb, profiles,
                 profileFlagged>>

updateProfile ==
  /\ loop = "check" /\ pc = "update" /\ pc' = "initialise"
  /\ updateProfileInformation(profileData, entireSampleData)
  /\ UNCHANGED <<sample, group, loop, jprof, cursor, profileIndices, obsdb, profiles, found>>

(* produceProfileVector: a holder takes what the check has asked for, the   *)
(* flags or the flags and the report.                                      *)
fillHolder ==
  LET s == IF sample.holdsReport THEN SampleGet(SampleGet(entireSampleData, "flags"), "report")
           ELSE SampleGet(entireSampleData, "flags")
      flags == get(profileData, entireSampleData, "flags")
      d == IF sample.holdsReport THEN get(flags, entireSampleData, "report") ELSE flags
  IN /\ loop = "fill" /\ pc = "use" /\ pc' = "initialise"
     /\ entireSampleData' = s /\ profileData' = d
     /\ profiles' = Append(profiles, [values |-> d, locs |-> profileIndices])
     /\ UNCHANGED <<sample, group, loop, jprof, cursor, profileIndices, obsdb, profileFlagged,
                    found>>

(* Rejects a level of some profile, or none.                                *)
RejectsAny ==
  \E p \in DOMAIN profiles :
    \E levels \in {{}} \cup {{k} : k \in DOMAIN profiles[p].values["flags"]} :
      /\ profiles' = [profiles EXCEPT ![p].values["flags"] =
                        [k \in DOMAIN @ |-> IF k \in levels THEN reject(@[k]) ELSE @[k]]]
      /\ found' = [found EXCEPT !.flags = @ \cup {profiles[p].locs[k] : k \in levels}]

(* Mutant: the profile to find is not reset with the rest.                  *)
NotReset ==
  /\ loop = "fill" /\ pc = "initialise" /\ jprof = nrecs
  /\ RejectsAny
  /\ loop' = "move" /\ jprof' = 0 /\ cursor' = [Reset EXCEPT !.toFind = cursor.toFind]
  /\ UNCHANGED <<sample, group, pc, profileIndices, profileData, entireSampleData, obsdb,
                 profileFlagged>>

(* A check of the entire sample, and the reset before updateAllProfiles.    *)
checkEntireSample ==
  /\ loop = "fill" /\ pc = "initialise" /\ jprof = nrecs
  /\ RejectsAny
  /\ loop' = "move" /\ jprof' = 0 /\ cursor' = Reset
  /\ UNCHANGED <<sample, group, pc, profileIndices, profileData, entireSampleData, obsdb,
                 profileFlagged>>

(* updateAllProfiles, for one profile: moveValuesToHandler calls set for    *)
(* each variable of the holder.                                            *)
moveHolder ==
  LET held == profiles[1].values
      s == IF sample.holdsReport
           THEN initialiseVector(initialiseVector(entireSampleData, "flags"), "report")
           ELSE initialiseVector(entireSampleData, "flags")
  IN /\ loop = "move" /\ pc = "use" /\ pc' = "initialise"
     /\ updateProfileInformation(Over(held, profileData), UpdatedSample(held, s))
     /\ profiles' = Tail(profiles)
     /\ UNCHANGED <<sample, group, loop, jprof, cursor, profileIndices, obsdb, found>>

writeQuantitiesToObsdb ==
  /\ loop \in {"check", "move"} /\ pc = "initialise" /\ jprof = nrecs
  /\ entireSampleData' = SampleGet(entireSampleData, "errors")
  /\ obsdb' = Over([var \in {v \in DOMAIN entireSampleData' : entireSampleData'[v] # <<>>} |->
                      entireSampleData'[var]], obsdb)
  /\ group' = group + 1 /\ loop' = "none"
  /\ pc' = IF group = Len(sample.groups) THEN "done" ELSE "start"
  /\ UNCHANGED <<sample, jprof, cursor, profileIndices, profileData, profiles, profileFlagged,
                 found>>

Stopped == pc \in {"done", "thrown"} /\ UNCHANGED vars

Next ==
  \/ StartFilter \/ StartGroup \/ initialiseNextProfile \/ runChecks \/ updateProfile
  \/ fillHolder \/ checkEntireSample \/ moveHolder \/ writeQuantitiesToObsdb \/ Stopped

Spec == Init /\ [][Next]_vars

-----------------------------------------------------------------------------
(* Properties.                                                             *)

Selected(r) == RecordLocs(r) \cap sample.apply

(* The constructor validates it only if locations are not sorted, and may be *)
(* told not to.                                                            *)
RecordsContiguous ==
  sample.sort # "none" \/ ~sample.ValidateTotalNumProf =>
    \A i, k \in Locs : sample.profileNums[i] = sample.profileNums[k] =>
       \A j \in i .. k : sample.profileNums[j] = sample.profileNums[i]

(* If locations are sorted, they are not masked one by one either.         *)
ProfilesWellDefined ==
  /\ RecordsContiguous
  /\ sample.sort # "none" => \A r \in Records : Selected(r) \in {{}, RecordLocs(r)}

BetweenGroups == pc \in {"start", "done"}

(* What a check changes in the cache of a profile or in a holder arrives in *)
(* the obs space, at the locations of that profile, and nothing else does;  *)
(* whatever groups of checks and other filters come before and after.       *)
ChecksReachSample ==
  BetweenGroups /\ sample.inObsdb = {"flags", "report"} /\ RecordsContiguous =>
    /\ {i \in Locs : isRejected(obsdb["flags"][i])} = found.flags
    /\ "errors" \in DOMAIN obsdb =>
         \A r \in Records :
           found.errors[r] =
             IF sample.errorsPerProfile THEN obsdb["errors"][Rank(r)]
             ELSE LET at == {i \in RecordLocs(r) : obsdb["errors"][i] # 0}
                  IN IF at = {} THEN 0 ELSE obsdb["errors"][CHOOSE i \in at : at = {i}]

(* In the end an observation is flagged if its own flags or those of its    *)
(* report reject it, and a report is rejected with all its selected levels  *)
(* if and only if too many errors were found in its profile.               *)
FlaggedAsRejected ==
  pc = "done" /\ sample.inObsdb = {"flags", "report"} /\ ProfilesWellDefined =>
    LET failed == UNION {Selected(r) : r \in {r \in Records : found.errors[r] > sample.nErrorsFail}}
    IN /\ {i \in Locs : isRejected(obsdb["report"][i])} = failed
       /\ profileFlagged = {"flags"} \X found.flags \cup FilterVars \X failed

(* ProfileIndices.h: apply_ are the "observations to apply the filter to":  *)
(* a profile has those levels of its record that are selected.             *)
ProfilesHoldSelected ==
  pc \in {"use", "update"} =>
    {profileIndices[k] : k \in DOMAIN profileIndices} = Selected(cursor.current)

(* Nothing is flagged but for what was found; initially no observation has *)
(* QC flags, whether the obs space has the variable or not.                 *)
FlaggedAsFound ==
  \A v \in FilterVars, i \in Locs : <<v, i>> \in profileFlagged =>
    \/ i \in found.flags
    \/ found.errors[sample.profileNums[i]] > sample.nErrorsFail

=============================================================================
