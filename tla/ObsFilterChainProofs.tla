-------------------------- MODULE ObsFilterChainProofs --------------------------
(***************************************************************************)
(* Proofs about ObsFilterChain: it schedules its filters as FilterSchedule *)
(* says, and what passes in the end has a value, H(x) and an error, for    *)
(* all chains, variables, locations and profiles.                          *)
(***************************************************************************)
EXTENDS ObsFilterChain, SequenceTheorems, TLAPS

SchedProofs == INSTANCE FilterScheduleProofs

-----------------------------------------------------------------------------
(* What the filter actions do to QC flags, for all sets of observations    *)
(* and all flags.                                                          *)

LEMMA FlagIsInteger == QCFlag \subseteq Int /\ pass \in QCFlag /\ missing \in QCFlag
                       /\ passive \in QCFlag /\ Hfailed \in QCFlag /\ processed \in QCFlag
  BY DEF QCFlag, pass, missing, passive, Hfailed, processed

(* Every action leaves every observation with a flag that the statistics of *)
(* the QC manager account for.                                              *)
LEMMA FlagTypes ==
  ASSUME NEW Points, NEW qc \in [Points -> QCFlag], NEW out, NEW flag \in QCFlag,
         NEW profiles
  PROVE  /\ RejectObs(qc, out, flag) \in [Points -> QCFlag]
         /\ AcceptObs(qc, out) \in [Points -> QCFlag]
         /\ PassivateObs(qc, out) \in [Points -> QCFlag]
         /\ FlagOriginalAndAveragedProfiles(qc, out, flag, profiles) \in [Points -> QCFlag]
<1>1. RejectObs(qc, out, flag) \in [Points -> QCFlag]
  BY DEF RejectObs
<1>2. AcceptObs(qc, out) \in [Points -> QCFlag]
  BY FlagIsInteger DEF AcceptObs
<1>3. PassivateObs(qc, out) \in [Points -> QCFlag]
  BY FlagIsInteger DEF PassivateObs
<1>4. FlagOriginalAndAveragedProfiles(qc, out, flag, profiles) \in [Points -> QCFlag]
  BY DEF FlagOriginalAndAveragedProfiles
<1> QED
  BY <1>1, <1>2, <1>3, <1>4

LEMMA UpdateTypes ==
  ASSUME NEW Points, NEW qc \in [Points -> QCFlag], NEW variables, NEW found
  PROVE  UpdateQCFlags(qc, variables, found) \in [Points -> QCFlag]
  BY FlagIsInteger DEF UpdateQCFlags

(* `inflate error' and `assign error' keep the types of error estimates.    *)
LEMMA InflateTypes ==
  ASSUME NEW Points, NEW errors \in [Points -> ObsErrState], NEW qc, NEW out, NEW undefined
  PROVE  InflateError(errors, qc, out, undefined) \in [Points -> ObsErrState]
  BY DEF InflateError, ObsErrState

LEMMA AssignTypes ==
  ASSUME NEW Points, NEW errors \in [Points -> ObsErrState], NEW qc, NEW out, NEW undefined
  PROVE  AssignError(errors, qc, out, undefined) \in [Points -> ObsErrState]
  BY DEF AssignError, ObsErrState

Passing(qc) == {o \in DOMAIN qc : qc[o] = pass}

(* Two filters that reject leave the same observations passing in either    *)
(* order (RejectObs.cc): only the reason that is recorded depends on it.    *)
THEOREM RejectionsCommute ==
  ASSUME NEW qc, NEW A, NEW B, NEW f \in FilterQCFlag, NEW g \in FilterQCFlag,
         f # pass, g # pass
  PROVE  Passing(RejectObs(RejectObs(qc, A, f), B, g))
           = Passing(RejectObs(RejectObs(qc, B, g), A, f))
<1> DEFINE Both(A1, f1, B1, g1) == RejectObs(RejectObs(qc, A1, f1), B1, g1)
<1>1. ASSUME NEW A1, NEW B1, NEW f1, NEW g1, f1 # pass, g1 # pass
      PROVE  Passing(Both(A1, f1, B1, g1)) = Passing(qc) \ (A1 \cup B1)
  <2>1. DOMAIN Both(A1, f1, B1, g1) = DOMAIN qc
    BY DEF RejectObs
  <2>2. \A o \in DOMAIN qc :
          Both(A1, f1, B1, g1)[o] = pass <=> qc[o] = pass /\ o \notin A1 /\ o \notin B1
    BY <1>1 DEF RejectObs
  <2> QED
    BY <2>1, <2>2 DEF Passing
<1>2. Passing(Both(A, f, B, g)) = Passing(qc) \ (A \cup B)
  BY <1>1
<1>3. Passing(Both(B, g, A, f)) = Passing(qc) \ (B \cup A)
  BY <1>1
<1> QED
  BY <1>2, <1>3

(* No action of a filter brings back a defective observation, except where  *)
(* it overwrites the averaged profile (FlagOriginalAndAveragedProfiles.cc): *)
(* and there it does not let it pass.                                       *)
THEOREM DefectiveStaysOut ==
  ASSUME NEW Points, NEW qc \in [Points -> QCFlag], NEW out, NEW flag \in FilterQCFlag,
         flag # pass, NEW profiles, NEW o \in Points, isDefective(qc[o])
  PROVE  /\ RejectObs(qc, out, flag)[o] = qc[o]
         /\ AcceptObs(qc, out)[o] = qc[o]
         /\ PassivateObs(qc, out)[o] = qc[o]
         /\ FlagOriginalAndAveragedProfiles(qc, out, flag, profiles)[o] # pass
<1>1. qc[o] # pass
  BY DEF isDefective, missing, preQC, Hfailed, pass
<1>2. FlagOriginalAndAveragedProfiles(qc, out, flag, profiles)[o] # pass
  BY <1>1 DEF FlagOriginalAndAveragedProfiles
<1> QED
  BY <1>1, <1>2 DEF RejectObs, AcceptObs, PassivateObs

-----------------------------------------------------------------------------
(* FilterScheduleProofs speaks of the same definitions as Sched.           *)

LEMMA SchedAssumption == SchedProofs!ChainsAssumption
  BY ChainsAssumption
     DEF SchedProofs!ChainsAssumption, SchedProofs!IsChain, Sched!IsChain,
         SchedProofs!Lists, Sched!Lists, SchedProofs!Groups, Sched!Groups,
         SchedProofs!HofXGroups, Sched!HofXGroups

LEMMA SameInit == SchedProofs!Init <=> Sched!Init
  BY DEF SchedProofs!Init, Sched!Init, SchedProofs!Index, Sched!Index,
         SchedProofs!Drivers, Sched!Drivers

LEMMA SameTypeOK == SchedProofs!TypeOK <=> Sched!TypeOK
  BY DEF SchedProofs!TypeOK, Sched!TypeOK, SchedProofs!IsChain, Sched!IsChain,
         SchedProofs!Index, Sched!Index, SchedProofs!Lists, Sched!Lists,
         SchedProofs!Groups, Sched!Groups, SchedProofs!HofXGroups, Sched!HofXGroups,
         SchedProofs!Drivers, Sched!Drivers, SchedProofs!Phases, Sched!Phases

LEMMA SameInv == SchedProofs!ScheduleInv <=> Sched!ScheduleInv
  BY DEF SchedProofs!ScheduleInv, Sched!ScheduleInv,
         SchedProofs!StageFlagsSet, Sched!StageFlagsSet,
         SchedProofs!Visited, Sched!Visited,
         SchedProofs!GeoVaLsRequired, Sched!GeoVaLsRequired,
         SchedProofs!Staged, Sched!Staged, SchedProofs!Passed, Sched!Passed,
         SchedProofs!PhaseNumber, Sched!PhaseNumber,
         SchedProofs!DataAvailable, Sched!DataAvailable, SchedProofs!Due, Sched!Due,
         SchedProofs!WaitsForHofX, Sched!WaitsForHofX, SchedProofs!Needs, Sched!Needs,
         SchedProofs!Index, Sched!Index, SchedProofs!Groups, Sched!Groups,
         SchedProofs!HofXGroups, Sched!HofXGroups

LEMMA SameNext == [SchedProofs!Next]_(SchedProofs!schedVars) <=> [Sched!Next]_schedVars
  BY DEF SchedProofs!Next, Sched!Next, SchedProofs!schedVars, schedVars, Sched!schedVars,
         SchedProofs!CreateQCmanager, Sched!CreateQCmanager,
         SchedProofs!Construct, Sched!Construct, SchedProofs!EndConstruct, Sched!EndConstruct,
         SchedProofs!PreProcess, Sched!PreProcess,
         SchedProofs!EndPreProcess, Sched!EndPreProcess,
         SchedProofs!PriorFilter, Sched!PriorFilter,
         SchedProofs!EndPriorFilter, Sched!EndPriorFilter,
         SchedProofs!SimulateObs, Sched!SimulateObs,
         SchedProofs!QCmanagerPostFilter, Sched!QCmanagerPostFilter,
         SchedProofs!PostFilter, Sched!PostFilter,
         SchedProofs!EndPostFilter, Sched!EndPostFilter,
         SchedProofs!FinalCheck, Sched!FinalCheck, SchedProofs!Throw, Sched!Throw,
         SchedProofs!Stopped, Sched!Stopped, SchedProofs!MoveTo, Sched!MoveTo,
         SchedProofs!LoopEnded, Sched!LoopEnded, SchedProofs!Ended, Sched!Ended,
         SchedProofs!RunsInPre, Sched!RunsInPre, SchedProofs!RunsInPrior, Sched!RunsInPrior,
         SchedProofs!RunsInPost, Sched!RunsInPost, SchedProofs!Called, Sched!Called,
         SchedProofs!DataAvailable, Sched!DataAvailable,
         SchedProofs!GeoVaLsRequired, Sched!GeoVaLsRequired,
         SchedProofs!WaitsForHofX, Sched!WaitsForHofX, SchedProofs!Needs, Sched!Needs,
         SchedProofs!Index, Sched!Index, SchedProofs!Groups, Sched!Groups,
         SchedProofs!HofXGroups, Sched!HofXGroups

-----------------------------------------------------------------------------
(* Every step of the chain is a step of the schedule or leaves it alone.    *)

LEMMA StepOfSchedule == [Next]_vars => [Sched!Next]_schedVars
<1> SUFFICES ASSUME [Next]_vars PROVE [Sched!Next]_schedVars
  OBVIOUS
<1> USE DEF Sched!Next
<1>1. CASE CreateQCmanager \/ Construct \/ SimulateObs \/ QCmanagerPostFilter
  BY <1>1 DEF CreateQCmanager, Construct, SimulateObs, QCmanagerPostFilter
<1>2. CASE PreProcess \/ PriorFilter \/ PostFilter
  BY <1>2 DEF PreProcess, PriorFilter, PostFilter
<1>3. CASE TakeAction
  BY <1>3 DEF TakeAction, Take, Reject, Accept, Passivate, FlagProfiles, Inflate, Assign, Set
<1>4. CASE EndLoop \/ FinalCheck \/ Throw \/ Stopped
  BY <1>4 DEF EndLoop, FinalCheck, Throw, Stopped
<1>5. CASE UNCHANGED vars
  BY <1>5 DEF vars
<1> QED
  BY <1>1, <1>2, <1>3, <1>4, <1>5 DEF Next

LEMMA InitSchedule == Init => Sched!TypeOK /\ Sched!ScheduleInv
<1> SchedProofs!ChainsAssumption
  BY SchedAssumption
<1> QED
  BY SameInit, SameTypeOK, SameInv, SchedProofs!InitTypeOK, SchedProofs!InitScheduleInv DEF Init

LEMMA NextSchedule ==
  ASSUME Sched!TypeOK, Sched!ScheduleInv, [Next]_vars
  PROVE  (Sched!TypeOK /\ Sched!ScheduleInv)'
<1> SchedProofs!ChainsAssumption
  BY SchedAssumption
<1>1. SchedProofs!TypeOK' /\ SchedProofs!ScheduleInv'
  BY StepOfSchedule, SameNext, SameTypeOK, SameInv,
     SchedProofs!NextTypeOK, SchedProofs!NextScheduleInv
<1>2. (SchedProofs!TypeOK <=> Sched!TypeOK)' /\ (SchedProofs!ScheduleInv <=> Sched!ScheduleInv)'
  BY SameTypeOK, SameInv, PTL
<1> QED
  BY <1>1, <1>2

(* The chain of filters with all its data is scheduled as FilterSchedule    *)
(* says: it implements the safety part of that specification.               *)
THEOREM ChainIsScheduled == Spec => Sched!Init /\ [][Sched!Next]_schedVars
  BY StepOfSchedule, PTL DEF Spec, Init

(* And the schedule invariant holds of it.                                  *)
THEOREM ScheduleOfChain == Spec => [](Sched!TypeOK /\ Sched!ScheduleInv)
<1>1. Sched!TypeOK /\ Sched!ScheduleInv /\ [Next]_vars => (Sched!TypeOK /\ Sched!ScheduleInv)'
  BY NextSchedule
<1> QED
  BY <1>1, InitSchedule, PTL DEF Spec

-----------------------------------------------------------------------------
(* The filters stay as they were configured, and the pending actions belong *)
(* to the filter that was called last.                                      *)

FiltersOK == \A i \in Index : IsFilter(chain[i])

LEMMA ChainConstant ==
  ASSUME [Next]_vars, Sched!TypeOK
  PROVE  /\ chain' = chain /\ driver' = driver /\ Index' = Index /\ Len(chain) \in Nat
         /\ next \in Int
<1> USE DEF Sched!TypeOK, Sched!IsChain, Sched!Index, Index
<1>1. [Sched!Next]_schedVars
  BY StepOfSchedule
<1>2. chain' = chain /\ driver' = driver
  BY <1>1 DEF Sched!Next, schedVars, Sched!CreateQCmanager, Sched!Construct,
       Sched!EndConstruct, Sched!PreProcess, Sched!EndPreProcess, Sched!PriorFilter,
       Sched!EndPriorFilter, Sched!SimulateObs, Sched!QCmanagerPostFilter,
       Sched!PostFilter, Sched!EndPostFilter, Sched!FinalCheck, Sched!Throw,
       Sched!Stopped, Sched!schedVars, Sched!MoveTo
<1> QED
  BY <1>2

LEMMA InitFiltersOK == Init => FiltersOK
  BY FiltersAssumption DEF Init, Sched!Init, FiltersOK, Index, Sched!Index

LEMMA NextFiltersOK ==
  ASSUME FiltersOK, [Next]_vars, Sched!TypeOK
  PROVE  FiltersOK'
  BY ChainConstant DEF FiltersOK

LEMMA FilterVarsAreVars ==
  ASSUME FiltersOK, NEW i \in Index
  PROVE  FilterVars(i) \subseteq ObsVars
  BY VarsAssumption DEF FiltersOK, IsFilter, FilterVars

LEMMA SameFilter ==
  ASSUME chain' = chain, NEW i
  PROVE  /\ Sched!Due(i)' = Sched!Due(i)
         /\ \A name : Has(i, name)' = Has(i, name)
         /\ Writes(i)' = Writes(i)
  BY DEF Sched!Due, Sched!WaitsForHofX, Sched!Needs, Has, Writes

(* A filter runs in the stage it is meant for.                              *)
LEMMA RunsWhenDue ==
  ASSUME Sched!TypeOK, Sched!ScheduleInv, next \in Index, Runs(next)
  PROVE  Sched!Due(next) = phase
<1> DEFINE i == next
<1>0. i \in Sched!Index /\ chain[i].list \in Sched!Lists
  BY DEF Sched!TypeOK, Sched!IsChain, Index, Sched!Index
<1>1. phase \in {"pre", "prior", "post"}
  BY DEF Runs
<1>2. Sched!StageFlagsSet(i) /\ Sched!Passed("construct", i)
  BY <1>0, <1>1 DEF Sched!ScheduleInv, Sched!Passed, Sched!PhaseNumber
<1>3. CASE phase = "pre" /\ Sched!RunsInPre(i)
  BY <1>0, <1>2, <1>3
     DEF Sched!RunsInPre, Sched!Due, Sched!Called, Sched!Lists, Sched!StageFlagsSet,
         Sched!DataAvailable, Sched!WaitsForHofX, Sched!Needs, Sched!Groups, Sched!HofXGroups
<1>4. CASE phase = "prior" /\ Sched!RunsInPrior(i)
  BY <1>0, <1>2, <1>4
     DEF Sched!RunsInPrior, Sched!Due, Sched!Called, Sched!Lists, Sched!StageFlagsSet, Sched!Staged
<1>5. CASE phase = "post" /\ Sched!RunsInPost(i)
  BY <1>0, <1>2, <1>5
     DEF Sched!RunsInPost, Sched!Due, Sched!Called, Sched!Lists, Sched!StageFlagsSet, Sched!Staged
<1> QED
  BY <1>3, <1>4, <1>5 DEF Runs

(* The call of a filter.                                                    *)
CallStep ==
  /\ pending = << >> /\ next \in Index /\ next' = next + 1
  /\ phase \in {"pre", "prior", "post"} /\ phase' = phase
  /\ \/ Runs(next) /\ DoFilter(next) /\ post' = post
     \/ ~Runs(next) /\ UNCHANGED <<dataVars, callVars, thrown>>

LEMMA CallSteps ==
  ASSUME Sched!TypeOK, PreProcess \/ PriorFilter \/ PostFilter
  PROVE  CallStep
<1> USE DEF CallStep, Call, Runs, Index
<1>1. CASE PreProcess
  <2>1. Sched!RunsInPre(next) => post' = post
    BY <1>1 DEF PreProcess, Sched!PreProcess, Sched!RunsInPre, Sched!TypeOK, Sched!Index
  <2> QED
    BY <1>1, <2>1 DEF PreProcess, Sched!PreProcess
<1>2. CASE PriorFilter
  BY <1>2 DEF PriorFilter, Sched!PriorFilter
<1>3. CASE PostFilter
  BY <1>3 DEF PostFilter, Sched!PostFilter
<1> QED
  BY <1>1, <1>2, <1>3

(* The steps in which no filter is called or acts.                          *)
OtherStep == \/ CreateQCmanager \/ Construct \/ SimulateObs \/ QCmanagerPostFilter
             \/ EndLoop \/ FinalCheck \/ Throw \/ UNCHANGED vars

LEMMA Steps == Sched!TypeOK /\ [Next]_vars => CallStep \/ TakeAction \/ OtherStep
  BY CallSteps DEF Next, OtherStep, Stopped

LEMMA FlaggedBound ==
  ASSUME NEW i, ApplyFilter(i)
  PROVE  flagged' \subseteq FilterVars(i) \X Locs
<1>1. PICK apply \in SUBSET Locs : flagged' \in MayFlag(i, apply)
  BY DEF ApplyFilter
<1> QED
  BY <1>1 DEF ApplyFilter, MayFlag, FlaggingKinds, Compared

LEMMA NextRunningInv ==
  ASSUME TypeOK, Sched!ScheduleInv, RunningInv, [Next]_vars
  PROVE  RunningInv'
<1>0. Sched!TypeOK
  BY DEF TypeOK
<1> USE <1>0
<1>1. chain' = chain /\ Index' = Index /\ next \in Int
  BY ChainConstant
<1>2. CASE CallStep
  <2>1. CASE Runs(next) /\ ApplyFilter(next) /\ post' = post
    <3>1. pending' = chain[next].actions /\ Running' = next
      BY <1>1, <1>2, <2>1 DEF ApplyFilter, CallStep, Running
    <3>2. Sched!Due(next) = phase
      BY <1>2, <2>1, RunsWhenDue DEF CallStep
    <3>3. \A k \in 1 .. Len(pending') : Has(next, pending'[k].name)
      BY <3>1 DEF Has
    <3>4. (Sched!Due(Running) = phase)'
      BY <1>1, <1>2, <3>1, <3>2, SameFilter DEF CallStep, Sched!Due, Sched!WaitsForHofX, Sched!Needs
    <3>5. \A k \in 1 .. Len(pending') : Has(Running, pending[k].name)'
      BY <1>1, <3>1, <3>3 DEF Has
    <3>7. FilterVars(Running)' = FilterVars(next)
      BY <1>1, <2>1, <3>1 DEF FilterVars
    <3>8. flagged' \subseteq FilterVars(next) \X Locs
      BY <2>1, FlaggedBound
    <3> QED
      BY <1>1, <1>2, <3>1, <3>4, <3>5, <3>7, <3>8 DEF RunningInv, CallStep
  <2>2. CASE ~(Runs(next) /\ ApplyFilter(next) /\ post' = post)
    <3>1. pending' = << >>
      BY <1>2, <2>2
         DEF CallStep, DoFilter, TransformVariables, AssignVariables, CreateDiagnosticFlags, callVars
    <3> QED
      BY <3>1 DEF RunningInv
  <2> QED
    BY <2>1, <2>2
<1>3. CASE TakeAction
  <2>1. /\ pending # << >> /\ pending' = Tail(pending)
        /\ UNCHANGED schedVars
    BY <1>3 DEF TakeAction, Take, Reject, Accept, Passivate, FlagProfiles, Inflate, Assign, Set
  <2>2. /\ Len(pending') = Len(pending) - 1
        /\ \A k \in 1 .. Len(pending') : pending'[k] = pending[k + 1]
        /\ Len(pending) \in Nat
    BY <2>1 DEF TypeOK
  <2>3. Running' = Running /\ phase' = phase
    BY <2>1 DEF schedVars, Running
  <2>4. \A k \in 1 .. Len(pending') : Has(Running, pending'[k].name)
    BY <2>1, <2>2 DEF RunningInv
  <2>5. \A k \in 1 .. Len(pending') : Has(Running, pending[k].name)'
    BY <1>1, <2>3, <2>4 DEF Has
  <2>6. (Sched!Due(Running) = phase)'
    BY <1>1, <2>1, <2>3 DEF RunningInv, Sched!Due, Sched!WaitsForHofX, Sched!Needs
  <2>7. flagged' \subseteq flagged
    BY <1>3 DEF TakeAction, Take, Reject, Accept, Passivate, FlagProfiles, Inflate, Assign, Set
  <2>8. FilterVars(Running)' = FilterVars(Running)
    BY <1>1, <2>1, <2>3 DEF FilterVars, schedVars
  <2> QED
    BY <1>1, <2>1, <2>3, <2>5, <2>6, <2>7, <2>8 DEF RunningInv
<1>4. CASE OtherStep
  <2>1. CASE pending = << >>
    BY <2>1, <1>4
       DEF OtherStep, RunningInv, CreateQCmanager, Construct, SimulateObs, QCmanagerPostFilter,
           EndLoop, FinalCheck, Throw, vars, callVars
  <2>2. CASE pending # << >>
    <3>1. phase \in {"pre", "prior", "post"}
      BY <2>2 DEF RunningInv
    <3>2. pending' = << >> \/ UNCHANGED vars
      BY <1>4, <2>2, <3>1
         DEF OtherStep, CreateQCmanager, Construct, SimulateObs, QCmanagerPostFilter,
             EndLoop, FinalCheck, Throw, Sched!CreateQCmanager, Sched!Construct,
             Sched!SimulateObs, Sched!QCmanagerPostFilter, Sched!FinalCheck
    <3>3. CASE UNCHANGED vars
      BY <3>3 DEF RunningInv, vars, schedVars, callVars, Running, Index, Sched!Index, Has, FilterVars,
                  Sched!Due, Sched!WaitsForHofX, Sched!Needs
    <3> QED
      BY <3>2, <3>3 DEF RunningInv
  <2> QED
    BY <2>1, <2>2
<1> QED
  BY <1>2, <1>3, <1>4, Steps

-----------------------------------------------------------------------------
(* Types.                                                                   *)

LEMMA InitTypeOK == Init => TypeOK
  BY InitSchedule, FlagIsInteger
     DEF Init, TypeOK, Obs, ObsVars, ObsErrState, Exceptions, AssimObs

LEMMA DoFilterTypes ==
  ASSUME TypeOK, FiltersOK, next \in Index, DoFilter(next)
  PROVE  /\ flags' \in [Obs -> QCFlag] /\ present' \in SUBSET Obs
         /\ derived' \in SUBSET ObsVars
         /\ diagVars' \in SUBSET ObsVars /\ diag' \in SUBSET (diagVars' \X Locs)
         /\ flagged' \in SUBSET Obs /\ pending' \in Seq(Action)
         /\ UNCHANGED <<obserr, hofx, bias, thrown>>
<1>0. IsFilter(chain[next]) /\ FilterVars(next) \subseteq ObsVars
  BY FilterVarsAreVars DEF FiltersOK
<1>1. CASE ApplyFilter(next)
  <2>1. PICK apply \in SUBSET Locs : flagged' \in MayFlag(next, apply)
    BY <1>1 DEF ApplyFilter
  <2>2. flagged' \in SUBSET Obs
    BY <1>0, <1>1, <2>1
       DEF ApplyFilter, MayFlag, FlaggingKinds, Compared, Obs
  <2> QED
    BY <1>0, <1>1, <2>2 DEF ApplyFilter, TypeOK, IsFilter, dataVars
<1>2. CASE TransformVariables(next)
  <2>1. chain[next].vars \subseteq ObsVars
    BY <1>0 DEF IsFilter
  <2>2. present' \in SUBSET Obs /\ flags' \in [Obs -> QCFlag]
    BY <1>2, <2>1, UpdateTypes DEF TransformVariables, TypeOK, Obs
  <2> QED
    BY <1>2, <2>1, <2>2 DEF TransformVariables, TypeOK, callVars
<1>3. CASE AssignVariables(next)
  <2>1. chain[next].vars \subseteq ObsVars
    BY <1>0 DEF IsFilter
  <2>2. present' \in SUBSET Obs /\ flags' \in [Obs -> QCFlag]
    BY <1>3, <2>1, UpdateTypes DEF AssignVariables, TypeOK, Obs
  <2> QED
    BY <1>3, <2>1, <2>2 DEF AssignVariables, TypeOK, callVars
<1>4. CASE CreateDiagnosticFlags(next)
  <2> DEFINE asked   == IF chain[next].vars # {} THEN chain[next].vars ELSE ObsVars
             created == IF chain[next].force THEN asked ELSE asked \ diagVars
  <2>1. created \subseteq ObsVars
    BY <1>0 DEF IsFilter
  <2>2. /\ diagVars' = diagVars \cup created
        /\ diag' = {o \in diag : o[1] \notin created}
                     \cup IF chain[next].initial THEN created \X Locs ELSE {}
    BY <1>4 DEF CreateDiagnosticFlags
  <2>3. diagVars' \in SUBSET ObsVars /\ diag' \in SUBSET (diagVars' \X Locs)
    BY <2>1, <2>2 DEF TypeOK
  <2> QED
    BY <1>4, <2>3 DEF CreateDiagnosticFlags, TypeOK, callVars
<1> QED
  BY <1>1, <1>2, <1>3, <1>4 DEF DoFilter

LEMMA TakeActionTypes ==
  ASSUME TypeOK, FiltersOK, RunningInv, TakeAction
  PROVE  /\ flags' \in [Obs -> QCFlag] /\ obserr' \in [Obs -> ObsErrState]
         /\ diag' \in SUBSET (diagVars \X Locs)
         /\ flagged' \in SUBSET Obs /\ pending' \in Seq(Action)
         /\ UNCHANGED <<present, derived, hofx, bias, diagVars, thrown>>
<1>1. /\ pending # << >> /\ pending' = Tail(pending)
      /\ flagged' = IF Tail(pending) = << >> THEN {} ELSE flagged
      /\ UNCHANGED <<present, derived, hofx, bias, diagVars, thrown>>
  BY DEF TakeAction, Take, Reject, Accept, Passivate, FlagProfiles, Inflate, Assign, Set
<1>2. flagged' \in SUBSET Obs /\ pending' \in Seq(Action)
  BY <1>1 DEF TypeOK
<1>3. Running \in Index /\ chain[Running].qcFlag \in QCFlag
  BY <1>1 DEF RunningInv, FiltersOK, IsFilter, FilterQCFlag
<1>4. flags' \in [Obs -> QCFlag]
  <2> USE FlagTypes, <1>3 DEF TypeOK
  <2>1. CASE Reject
    BY <2>1 DEF Reject
  <2>2. CASE Accept
    BY <2>2 DEF Accept
  <2>3. CASE Passivate
    BY <2>3 DEF Passivate
  <2>4. CASE FlagProfiles
    BY <2>4 DEF FlagProfiles
  <2>5. CASE UNCHANGED flags
    BY <2>5
  <2> QED
    BY <2>1, <2>2, <2>3, <2>4, <2>5 DEF TakeAction, Inflate, Assign, Set
<1>5. obserr' \in [Obs -> ObsErrState]
  <2> USE DEF TypeOK
  <2>1. CASE Inflate
    <3>1. PICK undefined : obserr' = InflateError(obserr, flags, flagged, undefined)
      BY <2>1 DEF Inflate
    <3> QED
      BY <3>1, InflateTypes
  <2>2. CASE Assign
    <3>1. PICK undefined : obserr' = AssignError(obserr, flags, flagged, undefined)
      BY <2>2 DEF Assign
    <3> QED
      BY <3>1, AssignTypes
  <2>3. CASE UNCHANGED obserr
    BY <2>3
  <2> QED
    BY <2>1, <2>2, <2>3 DEF TakeAction, Reject, Accept, Passivate, FlagProfiles, Set
<1>6. diag' \in SUBSET (diagVars \X Locs)
  <2>1. CASE UNCHANGED diag
    BY <2>1 DEF TypeOK
  <2>2. CASE Set
    <3>1. flagged \subseteq diagVars \X Locs
      BY <1>1, <2>2 DEF Set, RunningInv
    <3>2. diag' \subseteq diag \cup flagged
      BY <2>2 DEF Set, SetFlag
    <3> QED
      BY <3>1, <3>2 DEF TypeOK
  <2> QED
    BY <2>1, <2>2 DEF TakeAction, Reject, Accept, Passivate, FlagProfiles, Inflate, Assign
<1> QED
  BY <1>1, <1>2, <1>4, <1>5, <1>6

(* The steps outside of the filters.                                        *)
LEMMA OtherTypes ==
  ASSUME TypeOK, OtherStep
  PROVE  /\ flags' \in [Obs -> QCFlag] /\ obserr' \in [Obs -> ObsErrState]
         /\ hofx' \in [AssimObs -> {"none", "valid", "missing"}]
         /\ bias' \in [AssimObs -> {"valid", "missing"}]
         /\ flagged' \in SUBSET Obs /\ pending' \in Seq(Action) /\ thrown' \in Exceptions
         /\ UNCHANGED <<present, derived, diagVars, diag>>
<1> USE DEF TypeOK, dataVars, callVars
<1>1. CASE CreateQCmanager
  BY <1>1, FlagIsInteger DEF CreateQCmanager
<1>2. CASE Construct \/ EndLoop
  BY <1>2 DEF Construct, EndLoop
<1>3. CASE SimulateObs
  BY <1>3 DEF SimulateObs, AddBiasTerm
<1>4. CASE QCmanagerPostFilter
  BY <1>4, FlagIsInteger DEF QCmanagerPostFilter
<1>5. CASE FinalCheck
  BY <1>5, FlagIsInteger DEF FinalCheck, ObsErrState
<1>6. CASE Throw
  BY <1>6 DEF Throw, Exceptions
<1>7. CASE UNCHANGED vars
  BY <1>7 DEF vars
<1> QED
  BY <1>1, <1>2, <1>3, <1>4, <1>5, <1>6, <1>7 DEF OtherStep

LEMMA NextTypeOK ==
  ASSUME TypeOK, Sched!ScheduleInv, FiltersOK, RunningInv, [Next]_vars
  PROVE  TypeOK'
<1>1. Sched!TypeOK'
  BY NextSchedule DEF TypeOK
<1>2. CASE CallStep
  <2>1. CASE DoFilter(next)
    BY <1>1, <1>2, <2>1, DoFilterTypes DEF TypeOK, CallStep
  <2>2. CASE UNCHANGED <<dataVars, callVars, thrown>>
    BY <1>1, <2>2 DEF TypeOK, dataVars, callVars
  <2> QED
    BY <1>2, <2>1, <2>2 DEF CallStep
<1>3. CASE TakeAction
  BY <1>1, <1>3, TakeActionTypes DEF TypeOK
<1>4. CASE OtherStep
  BY <1>1, <1>4, OtherTypes DEF TypeOK
<1> QED
  BY <1>2, <1>3, <1>4, Steps DEF TypeOK

-----------------------------------------------------------------------------
(* The invariant.                                                           *)

LEMMA SameConditions ==
  ASSUME chain' = chain, Index' = Index
  PROVE  /\ AcceptsUnalteredObs' = AcceptsUnalteredObs
         /\ SettledBeforeHofX' = SettledBeforeHofX
         /\ NoInflation' = NoInflation
         /\ ThresholdsUsable' = ThresholdsUsable
         /\ (\E i \in Index : Has(i, "accept"))' = (\E i \in Index : Has(i, "accept"))
  BY DEF AcceptsUnalteredObs, SettledBeforeHofX, NoInflation, ThresholdsUsable, Has, Writes,
         Sched!Due, Sched!WaitsForHofX, Sched!Needs

(* The action taken is one of the running filter, which flags something.    *)
LEMMA TakenAction ==
  ASSUME TypeOK, FiltersOK, RunningInv, TakeAction
  PROVE  /\ phase \in {"pre", "prior", "post"} /\ phase' = phase /\ hofx' = hofx
         /\ present' = present
         /\ Running \in Index /\ Has(Running, Head(pending).name)
         /\ Sched!Due(Running) = phase
         /\ chain[Running].qcFlag \in FilterQCFlag \ {pass}
<1>1. pending # << >> /\ UNCHANGED <<schedVars, hofx, present>>
  BY DEF TakeAction, Take, Reject, Accept, Passivate, FlagProfiles, Inflate, Assign, Set
<1>2. Has(Running, Head(pending).name)
  BY <1>1 DEF TypeOK, RunningInv
<1>3. IsFilter(chain[Running])
  BY <1>1 DEF RunningInv, FiltersOK
<1>4. chain[Running].actions # << >>
  BY <1>2 DEF Has
<1>5. chain[Running].qcFlag \in FilterQCFlag \ {pass}
  BY <1>3, <1>4 DEF IsFilter
<1> QED
  BY <1>1, <1>2, <1>5 DEF RunningInv, schedVars

LEMMA NextValueInv ==
  ASSUME TypeOK, FiltersOK, RunningInv, ValueInv, [Next]_vars
  PROVE  ValueInv'
<1>0. chain' = chain /\ Index' = Index
  BY ChainConstant DEF TypeOK
<1> SUFFICES ASSUME AcceptsUnalteredObs, phase' # "create", NEW o \in Obs \ present'
             PROVE  /\ flags'[o] # pass
                    /\ phase' # "done" /\ (\E i \in Index : Has(i, "accept"))
                         => isDefective(flags'[o])
  BY <1>0, SameConditions DEF ValueInv, isDefective
<1> USE DEF isDefective, pass, missing, preQC, Hfailed, processed
<1>1. CASE CallStep
  <2>0. phase' = phase /\ phase # "create" /\ phase # "done" /\ next \in Index
    BY <1>1 DEF CallStep
  <2>1. CASE UNCHANGED <<flags, present>>
    BY <2>0, <2>1 DEF ValueInv
  <2>2. ASSUME NEW variables, NEW kept, NEW new \in SUBSET (variables \X Locs), Writes(next),
               present' = {p \in present : p[1] \notin variables \/ p \in kept} \cup new,
               flags' = UpdateQCFlags(flags, variables, present')
        PROVE  flags'[o] # pass /\ ~(\E i \in Index : Has(i, "accept"))
    <3>1. ~(\E i \in Index : Has(i, "accept"))
      BY <2>0, <2>2 DEF AcceptsUnalteredObs
    <3>2. o[1] \notin variables => o \notin present
      BY <2>2
    <3>3. o[1] \notin variables => flags[o] # pass
      BY <2>0, <3>2 DEF ValueInv
    <3>4. flags'[o] # pass
      BY <2>2, <3>3 DEF UpdateQCFlags, TypeOK
    <3> QED
      BY <3>1, <3>4
  <2>3. CASE TransformVariables(next)
    <3>1. PICK computed \in SUBSET (chain[next].vars \X Locs) :
            /\ present' = {p \in present : p[1] \notin chain[next].vars} \cup computed
            /\ flags' = UpdateQCFlags(flags, chain[next].vars, present')
      BY <2>3 DEF TransformVariables
    <3>2. Writes(next)
      BY <2>3 DEF TransformVariables, Writes
    <3>3. present' = {p \in present : p[1] \notin chain[next].vars \/ p \in {}} \cup computed
      BY <3>1
    <3> QED
      BY <2>2, <3>1, <3>2, <3>3
  <2>4. CASE AssignVariables(next)
    <3>1. PICK apply \in SUBSET Locs : \E assigned \in SUBSET (chain[next].vars \X apply) :
            /\ present' = {p \in present : \/ p[1] \notin chain[next].vars
                                           \/ p[1] \in derived /\ p[2] \notin apply} \cup assigned
            /\ flags' = UpdateQCFlags(flags, chain[next].vars, present')
      BY <2>4 DEF AssignVariables
    <3>2. PICK assigned \in SUBSET (chain[next].vars \X apply) :
            /\ present' = {p \in present : \/ p[1] \notin chain[next].vars
                                           \/ p[1] \in derived /\ p[2] \notin apply} \cup assigned
            /\ flags' = UpdateQCFlags(flags, chain[next].vars, present')
      BY <3>1
    <3>3. Writes(next)
      BY <2>4 DEF AssignVariables, Writes
    <3> DEFINE kept == {p \in present : p[1] \in derived /\ p[2] \notin apply}
    <3>4. assigned \in SUBSET (chain[next].vars \X Locs)
      BY <3>2
    <3>5. present' = {p \in present : p[1] \notin chain[next].vars \/ p \in kept} \cup assigned
      BY <3>2
    <3> HIDE DEF kept
    <3> QED
      BY <2>2, <3>2, <3>3, <3>4, <3>5
  <2> QED
    BY <1>1, <2>1, <2>3, <2>4
       DEF CallStep, DoFilter, ApplyFilter, CreateDiagnosticFlags, dataVars
<1>2. CASE TakeAction
  <2>0. phase' = phase /\ phase # "create" /\ phase # "done" /\ o \in Obs \ present
    BY <1>2, TakenAction
  <2>1. flags[o] # pass /\ ((\E i \in Index : Has(i, "accept")) => isDefective(flags[o]))
    BY <2>0 DEF ValueInv
  <2>2. Running \in Index /\ Has(Running, Head(pending).name)
        /\ chain[Running].qcFlag \in FilterQCFlag \ {pass}
    BY <1>2, TakenAction
  <2>3. CASE Reject
    BY <2>1, <2>3 DEF Reject, RejectObs, TypeOK
  <2>4. CASE Accept
    <3>1. Has(Running, "accept")
      BY <2>2, <2>4 DEF Accept, Take
    <3>2. isDefective(flags[o])
      BY <2>1, <2>2, <3>1
    <3> QED
      BY <2>4, <3>2, <2>1 DEF Accept, AcceptObs, TypeOK
  <2>5. CASE Passivate
    BY <2>1, <2>5 DEF Passivate, PassivateObs, TypeOK
  <2>6. CASE FlagProfiles
    <3>1. Has(Running, "flag original and averaged profiles")
      BY <2>2, <2>6 DEF FlagProfiles, Take
    <3>2. ~(\E i \in Index : Has(i, "accept"))
      BY <2>2, <3>1 DEF AcceptsUnalteredObs
    <3> QED
      BY <2>1, <2>2, <2>6, <3>2 DEF FlagProfiles, FlagOriginalAndAveragedProfiles, TypeOK
  <2>7. CASE UNCHANGED flags
    BY <2>0, <2>1, <2>7
  <2> QED
    BY <1>2, <2>3, <2>4, <2>5, <2>6, <2>7 DEF TakeAction, Inflate, Assign, Set
<1>3. CASE OtherStep
  <2>1. CASE CreateQCmanager
    BY <2>1 DEF CreateQCmanager, TypeOK
  <2>2. CASE QCmanagerPostFilter
    BY <2>2 DEF QCmanagerPostFilter, Sched!QCmanagerPostFilter, ValueInv, TypeOK
  <2>3. CASE FinalCheck
    BY <2>3 DEF FinalCheck, Sched!FinalCheck, Sched!MoveTo, ValueInv, TypeOK
  <2>4. CASE Construct \/ SimulateObs \/ EndLoop \/ Throw \/ UNCHANGED vars
    <3>1. UNCHANGED <<flags, present>>
      BY <2>4 DEF Construct, SimulateObs, EndLoop, Throw, dataVars, vars
    <3>2. CASE Throw
      <4>1. phase # "create"
        BY <3>2 DEF Throw, InvalidConfiguration, InvalidFilterVariable, NoDiagnosticFlag,
                    NoProfiles, BackgroundCheckAssert, Runs, RunningInv
      <4> QED
        BY <3>1, <3>2, <4>1 DEF ValueInv, Throw, Sched!Throw, Sched!Ended
    <3>3. CASE ~Throw
      <4>1. phase # "create" /\ (phase' = "done" <=> phase = "done")
        BY <2>4, <3>3 DEF Construct, SimulateObs, EndLoop, vars, schedVars,
                Sched!Construct, Sched!SimulateObs, Sched!EndConstruct, Sched!EndPreProcess,
                Sched!EndPriorFilter, Sched!EndPostFilter, Sched!LoopEnded, Sched!MoveTo
      <4> QED
        BY <3>1, <4>1 DEF ValueInv
    <3> QED
      BY <3>2, <3>3
  <2> QED
    BY <1>3, <2>1, <2>2, <2>3, <2>4 DEF OtherStep
<1> QED
  BY <1>1, <1>2, <1>3, Steps DEF TypeOK

(* An action that does not accept lets nothing pass that did not before.    *)
LEMMA OnlyAcceptAdmits ==
  ASSUME TypeOK, FiltersOK, RunningInv, TakeAction, ~Accept, NEW o \in Obs, flags'[o] = pass
  PROVE  flags[o] = pass
<1>1. chain[Running].qcFlag # pass
  BY TakenAction
<1>2. CASE Reject
  BY <1>1, <1>2 DEF Reject, RejectObs, TypeOK
<1>3. CASE Passivate
  BY <1>3 DEF Passivate, PassivateObs, TypeOK, passive, pass
<1>4. CASE FlagProfiles
  BY <1>1, <1>4 DEF FlagProfiles, FlagOriginalAndAveragedProfiles, TypeOK
<1>5. CASE UNCHANGED flags
  BY <1>5
<1> QED
  BY <1>2, <1>3, <1>4, <1>5 DEF TakeAction, Inflate, Assign, Set

LEMMA NextHofXInv ==
  ASSUME TypeOK, Sched!ScheduleInv, FiltersOK, RunningInv, HofXInv, [Next]_vars
  PROVE  HofXInv'
<1>0. /\ chain' = chain /\ driver' = driver /\ Index' = Index
      /\ Sched!TypeOK /\ AssimObs \subseteq Obs
  BY ChainConstant, VarsAssumption DEF TypeOK, AssimObs, Obs
<1> SUFFICES ASSUME SettledBeforeHofX, driver # "none", NEW o \in AssimObs
             PROVE  /\ phase' \in {"manager", "post", "final", "done"} => hofx'[o] # "none"
                    /\ phase' \in {"post", "final", "done"} /\ flags'[o] = pass
                         => hofx'[o] = "valid"
  BY <1>0, SameConditions DEF HofXInv
<1>1. CASE CallStep
  <2>1. CASE UNCHANGED <<flags, hofx>>
    BY <1>1, <2>1 DEF CallStep, HofXInv
  <2>2. CASE Runs(next) /\ Writes(next)
    BY <1>0, <1>1, <2>2, RunsWhenDue
       DEF CallStep, SettledBeforeHofX, DoFilter, ApplyFilter, TransformVariables, AssignVariables,
           CreateDiagnosticFlags, dataVars
  <2> QED
    BY <1>1, <2>1, <2>2
       DEF CallStep, DoFilter, ApplyFilter, TransformVariables, AssignVariables,
           CreateDiagnosticFlags, dataVars, Writes
<1>2. CASE TakeAction
  <2>1. /\ phase \in {"pre", "prior", "post"} /\ phase' = phase /\ hofx' = hofx
        /\ Running \in Index /\ Has(Running, Head(pending).name) /\ Sched!Due(Running) = phase
    BY <1>2, TakenAction
  <2>2. CASE phase = "post"
    <3>1. ~Accept
      BY <2>1, <2>2 DEF Accept, Take, SettledBeforeHofX
    <3>2. flags'[o] = pass => flags[o] = pass
      BY <1>0, <1>2, <3>1, OnlyAcceptAdmits
    <3> QED
      BY <2>1, <3>2 DEF HofXInv
  <2> QED
    BY <2>1, <2>2
<1>3. CASE OtherStep
  <2>1. CASE SimulateObs
    BY <2>1 DEF SimulateObs, Sched!SimulateObs, Sched!MoveTo
  <2>2. CASE QCmanagerPostFilter
    <3>1. hofx'[o] # "none" /\ hofx'[o] \in {"none", "valid", "missing"}
      BY <2>2 DEF QCmanagerPostFilter, Sched!QCmanagerPostFilter, HofXInv, TypeOK
    <3>2. flags'[o] = IF flags[o] = pass /\ hofx[o] = "missing" THEN Hfailed ELSE flags[o]
      BY <1>0, <2>2 DEF QCmanagerPostFilter
    <3> QED
      BY <2>2, <3>1, <3>2 DEF QCmanagerPostFilter, pass, Hfailed
  <2>3. CASE FinalCheck
    <3>1. phase = "final" /\ hofx' = hofx
      BY <2>3 DEF FinalCheck, Sched!FinalCheck
    <3>2. flags'[o] = pass => flags[o] = pass
      BY <1>0, <2>3 DEF FinalCheck, pass, processed, missing
    <3> QED
      BY <3>1, <3>2 DEF HofXInv
  <2>4. CASE CreateQCmanager \/ Construct
    BY <2>4 DEF CreateQCmanager, Construct, Sched!CreateQCmanager, Sched!Construct, Sched!MoveTo
  <2>5. CASE EndLoop
    <3>1. UNCHANGED <<flags, hofx>>
      BY <2>5 DEF EndLoop, dataVars
    <3>2. /\ phase' \in {"pre", "prior", "simulate", "final"}
          /\ phase' = "final" => phase = "post"
      BY <2>5 DEF EndLoop, Sched!EndConstruct, Sched!EndPreProcess, Sched!EndPriorFilter,
                  Sched!EndPostFilter, Sched!LoopEnded, Sched!MoveTo
    <3> QED
      BY <3>1, <3>2 DEF HofXInv
  <2>6. CASE Throw
    BY <2>6 DEF Throw, Sched!Throw
  <2>7. CASE UNCHANGED vars
    BY <2>7 DEF HofXInv, vars, schedVars, dataVars
  <2> QED
    BY <1>3, <2>1, <2>2, <2>3, <2>4, <2>5, <2>6, <2>7 DEF OtherStep
<1> QED
  BY <1>0, <1>1, <1>2, <1>3, Steps

LEMMA NextBiasInv ==
  ASSUME TypeOK, FiltersOK, RunningInv, BiasInv, [Next]_vars
  PROVE  BiasInv'
<1>1. CASE CallStep
  <2>1. bias' = bias
    BY <1>1, DoFilterTypes DEF CallStep, dataVars
  <2> QED
    BY <2>1 DEF BiasInv
<1>2. CASE TakeAction
  BY <1>2, TakeActionTypes DEF BiasInv
<1>3. CASE OtherStep
  <2>1. CASE SimulateObs
    BY <2>1 DEF SimulateObs, AddBiasTerm, BiasInv
  <2>2. CASE ~SimulateObs
    <3>1. bias' = bias
      BY <1>3, <2>2 DEF OtherStep, CreateQCmanager, Construct, QCmanagerPostFilter, EndLoop,
                        FinalCheck, Throw, dataVars, vars
    <3> QED
      BY <3>1 DEF BiasInv
  <2> QED
    BY <2>1, <2>2
<1> QED
  BY <1>1, <1>2, <1>3, Steps DEF TypeOK

LEMMA NextErrorInv ==
  ASSUME TypeOK, FiltersOK, RunningInv, ErrorInv, [Next]_vars
  PROVE  ErrorInv'
<1>0. chain' = chain /\ Index' = Index
  BY ChainConstant DEF TypeOK
<1> SUFFICES ASSUME NoInflation, NEW o \in Obs
             PROVE  /\ obserr'[o] # "spurious"
                    /\ phase' = "done" /\ flags'[o] = pass => o \in AssimObs /\ obserr'[o] = "valid"
  BY <1>0, SameConditions DEF ErrorInv
<1>1. CASE CallStep
  <2>1. obserr' = obserr
    BY <1>1 DEF CallStep, DoFilter, ApplyFilter, TransformVariables, AssignVariables,
                CreateDiagnosticFlags, dataVars
  <2> QED
    BY <1>1, <2>1 DEF CallStep, ErrorInv
<1>2. CASE TakeAction
  <2>1. phase' # "done" /\ Running \in Index /\ Has(Running, Head(pending).name)
    BY <1>2, TakenAction
  <2>2. ~Inflate
    BY <2>1 DEF Inflate, Take, NoInflation
  <2>3. CASE Assign
    <3>1. PICK undefined : obserr' = AssignError(obserr, flags, flagged, undefined)
      BY <2>3 DEF Assign
    <3> QED
      BY <2>1, <3>1 DEF AssignError, ErrorInv, TypeOK
  <2>4. CASE UNCHANGED obserr
    BY <2>1, <2>4 DEF ErrorInv
  <2> QED
    BY <1>2, <2>2, <2>3, <2>4 DEF TakeAction, Reject, Accept, Passivate, FlagProfiles, Set
<1>3. CASE OtherStep
  <2>1. CASE FinalCheck
    BY <2>1 DEF FinalCheck, ErrorInv, TypeOK, ObsErrState, pass, missing, processed
  <2>2. CASE ~FinalCheck
    <3>1. obserr' = obserr
      BY <1>3, <2>2 DEF OtherStep, CreateQCmanager, Construct, SimulateObs, QCmanagerPostFilter,
                        EndLoop, Throw, dataVars, vars
    <3>2. phase' = "done" => phase = "done" /\ flags' = flags
      BY <1>3, <2>2
         DEF OtherStep, CreateQCmanager, Construct, SimulateObs, QCmanagerPostFilter, EndLoop,
             Throw, vars, schedVars, dataVars, Sched!CreateQCmanager, Sched!Construct,
             Sched!SimulateObs, Sched!QCmanagerPostFilter, Sched!EndConstruct,
             Sched!EndPreProcess, Sched!EndPriorFilter, Sched!EndPostFilter, Sched!LoopEnded,
             Sched!MoveTo, Sched!Throw
    <3> QED
      BY <3>1, <3>2 DEF ErrorInv
  <2> QED
    BY <2>1, <2>2
<1> QED
  BY <1>1, <1>2, <1>3, Steps DEF TypeOK

-----------------------------------------------------------------------------
(* Diagnostic flags and averaged profiles.                                  *)

(* A filter that is called in the stage it is meant for runs.               *)
LEMMA DueRuns ==
  ASSUME Sched!TypeOK, Sched!ScheduleInv, next \in Index,
         phase \in {"pre", "prior", "post"}, Sched!Due(next) = phase
  PROVE  Runs(next)
<1> DEFINE i == next
<1>0. i \in Sched!Index /\ chain[i].list \in Sched!Lists
  BY DEF Sched!TypeOK, Sched!IsChain, Index, Sched!Index
<1>1. Sched!StageFlagsSet(i) /\ Sched!Passed("construct", i)
  BY <1>0 DEF Sched!ScheduleInv, Sched!Passed, Sched!PhaseNumber
<1>2. CASE phase = "pre"
  BY <1>0, <1>1, <1>2
     DEF Runs, Sched!RunsInPre, Sched!Due, Sched!Called, Sched!Lists, Sched!StageFlagsSet,
         Sched!DataAvailable, Sched!WaitsForHofX, Sched!Needs, Sched!Groups, Sched!HofXGroups
<1>3. CASE phase = "prior"
  <2>1. chain[i].list \in {"AUTO", "PRIOR"}
    BY <1>0, <1>3 DEF Sched!Due, Sched!Lists
  <2>2. chain[i].list = "AUTO" => Sched!Passed("pre", i)
    BY <1>3 DEF Sched!Passed, Sched!PhaseNumber
  <2>3. prior[i]
    BY <1>1, <1>3, <2>1, <2>2 DEF Sched!StageFlagsSet, Sched!Staged
  <2> QED
    BY <1>3, <2>1, <2>3 DEF Runs, Sched!RunsInPrior, Sched!Called
<1>4. CASE phase = "post"
  <2>1. chain[i].list \in {"AUTO", "POST"}
    BY <1>0, <1>4 DEF Sched!Due, Sched!Lists
  <2>2. chain[i].list = "AUTO" => Sched!Passed("pre", i)
    BY <1>4 DEF Sched!Passed, Sched!PhaseNumber
  <2>3. post[i]
    BY <1>1, <1>4, <2>1, <2>2 DEF Sched!StageFlagsSet, Sched!Staged
  <2> QED
    BY <1>4, <2>1, <2>3 DEF Runs, Sched!RunsInPost, Sched!Called
<1> QED
  BY <1>2, <1>3, <1>4

Stages == {"construct", "pre", "prior", "post", "never"}

LEMMA DueIsStage ==
  ASSUME Sched!TypeOK, NEW i \in Index
  PROVE  Sched!Due(i) \in Stages \ {"construct"}
  BY DEF Sched!Due, Stages

(* A loop gets past a filter by constructing or calling it.  With the       *)
(* observation operator no loop is left out.                               *)
LEMMA PassedGrows ==
  ASSUME Sched!TypeOK, RunningInv, [Next]_vars, phase' # "threw",
         NEW p \in Stages, driver = "operator" \/ p = "construct",
         NEW i \in Index, Sched!Passed(p, i)'
  PROVE  /\ phase # "threw"
         /\ \/ Sched!Passed(p, i)
            \/ i = next /\ phase = p /\ (Construct \/ CallStep)
<1> USE DEF Stages, Sched!Passed, Sched!PhaseNumber
<1>0. i \in 1 .. Len(chain) /\ Len(chain) \in Nat /\ next \in Int
  BY DEF Index, Sched!Index, Sched!TypeOK, Sched!IsChain
<1>1. CASE CallStep
  BY <1>0, <1>1 DEF CallStep
<1>2. CASE TakeAction
  <2>1. pending # << >> /\ phase' = phase /\ next' = next
    BY <1>2 DEF TakeAction, Take, Reject, Accept, Passivate, FlagProfiles, Inflate, Assign, Set,
                schedVars
  <2> QED
    BY <2>1 DEF RunningInv
<1>3. CASE Construct
  BY <1>0, <1>3 DEF Construct, Sched!Construct
<1>4. CASE CreateQCmanager
  BY <1>0, <1>4 DEF CreateQCmanager, Sched!CreateQCmanager, Sched!MoveTo
<1>5. CASE SimulateObs
  BY <1>0, <1>5 DEF SimulateObs, Sched!SimulateObs, Sched!MoveTo
<1>6. CASE QCmanagerPostFilter
  BY <1>0, <1>6 DEF QCmanagerPostFilter, Sched!QCmanagerPostFilter, Sched!MoveTo
<1>7. CASE EndLoop
  <2> USE DEF Sched!MoveTo, Sched!LoopEnded
  <2>1. CASE Sched!EndConstruct
    BY <1>0, <2>1 DEF Sched!EndConstruct
  <2>2. CASE Sched!EndPreProcess
    BY <1>0, <2>2 DEF Sched!EndPreProcess
  <2>3. CASE Sched!EndPriorFilter
    BY <1>0, <2>3 DEF Sched!EndPriorFilter
  <2>4. CASE Sched!EndPostFilter
    BY <1>0, <2>4 DEF Sched!EndPostFilter
  <2> QED
    BY <1>7, <2>1, <2>2, <2>3, <2>4 DEF EndLoop
<1>8. CASE FinalCheck
  BY <1>0, <1>8 DEF FinalCheck, Sched!FinalCheck, Sched!MoveTo
<1>9. CASE Throw
  BY <1>9 DEF Throw, Sched!Throw
<1>10. CASE UNCHANGED vars
  BY <1>10 DEF vars, schedVars
<1> QED
  BY <1>1, <1>2, <1>3, <1>4, <1>5, <1>6, <1>7, <1>8, <1>9, <1>10, Steps DEF OtherStep

LEMMA DiagVarsGrow ==
  ASSUME Sched!TypeOK, [Next]_vars
  PROVE  diagVars \subseteq diagVars'
<1>1. CASE CallStep
  BY <1>1 DEF CallStep, DoFilter, ApplyFilter, TransformVariables, AssignVariables,
              CreateDiagnosticFlags, dataVars
<1>2. CASE TakeAction
  BY <1>2 DEF TakeAction, Take, Reject, Accept, Passivate, FlagProfiles, Inflate, Assign, Set
<1>3. CASE OtherStep
  BY <1>3 DEF OtherStep, CreateQCmanager, Construct, SimulateObs, QCmanagerPostFilter, EndLoop,
              FinalCheck, Throw, dataVars, vars
<1> QED
  BY <1>1, <1>2, <1>3, Steps

LEMMA NextCreatedInv ==
  ASSUME TypeOK, Sched!ScheduleInv, RunningInv, CreatedInv, [Next]_vars
  PROVE  CreatedInv'
<1>0. Sched!TypeOK /\ chain' = chain /\ driver' = driver /\ Index' = Index
  BY ChainConstant DEF TypeOK
<1> SUFFICES ASSUME driver = "operator", phase' # "threw", NEW i \in Index, NEW v \in ObsVars,
                    Creates(i, v), Sched!Passed(Sched!Due(i), i)'
             PROVE  v \in diagVars'
  BY <1>0 DEF CreatedInv, Creates
<1>2. PICK p \in Stages : p = Sched!Due(i) /\ p # "construct"
  BY <1>0, DueIsStage
<1>1. Sched!Due(i)' = p
  BY <1>0, <1>2 DEF Sched!Due, Sched!WaitsForHofX, Sched!Needs
<1>3. Sched!Passed(p, i)'
  BY <1>1 DEF Sched!Passed
<1>4. /\ phase # "threw"
      /\ \/ Sched!Passed(p, i)
         \/ i = next /\ phase = p /\ CallStep
  <2>1. /\ phase # "threw"
        /\ \/ Sched!Passed(p, i)
           \/ i = next /\ phase = p /\ (Construct \/ CallStep)
    BY <1>0, <1>2, <1>3, PassedGrows
  <2>2. Construct => phase = "construct"
    BY DEF Construct, Sched!Construct
  <2> QED
    BY <1>2, <2>1, <2>2
<1>5. CASE Sched!Passed(p, i)
  BY <1>0, <1>2, <1>4, <1>5, DiagVarsGrow DEF CreatedInv
<1>6. CASE i = next /\ phase = p /\ CallStep
  <2>1. Runs(next)
    BY <1>0, <1>2, <1>6, DueRuns DEF CallStep
  <2>2. DoFilter(next) /\ chain[next].kind = "CreateDiagnosticFlags"
    BY <1>6, <2>1 DEF CallStep, Creates
  <2>3. CreateDiagnosticFlags(next)
    BY <2>2 DEF DoFilter, ApplyFilter, TransformVariables, AssignVariables, FlaggingKinds
  <2> QED
    BY <1>6, <2>3 DEF CreateDiagnosticFlags, Creates
<1> QED
  BY <1>4, <1>5, <1>6

(* The flag a filter gives to what it flags is one of its own.              *)
LEMMA FlagOfFilter ==
  ASSUME FiltersOK, NEW i \in Index, NEW name, Has(i, name)
  PROVE  /\ chain[i].qcFlag \in FilterQCFlag \ {pass}
         /\ chain[i].qcFlag \notin {passive, missing, Hfailed, processed}
         /\ chain[i].actions \in Seq(Action)
<1>1. IsFilter(chain[i]) /\ chain[i].actions # << >>
  BY DEF FiltersOK, Has
<1> QED
  BY <1>1 DEF IsFilter, FilterQCFlag

LEMMA FlagsProfilesConstant ==
  ASSUME chain' = chain, Index' = Index, NEW i
  PROVE  FlagsProfiles(i)' = FlagsProfiles(i)
  BY DEF FlagsProfiles, Has

(* If a filter flags profiles, no other action of its gives its flag.       *)
LEMMA ProfileActionIsLast ==
  ASSUME FiltersOK, NEW i \in Index, ActionsInOrder(chain[i]),
         NEW a \in FlagChangingActions, NEW b \in FlagChangingActions, Has(i, a), Has(i, b)
  PROVE  a = b
<1>1. chain[i].actions \in Seq(Action)
  BY FlagOfFilter
<1> DEFINE n == Len(chain[i].actions)
<1>2. \A k \in 1 .. n : chain[i].actions[k].name \in FlagChangingActions => k = n
  BY <1>1 DEF ActionsInOrder
<1> QED
  BY <1>2 DEF Has

(* The part of the invariant about one observation: only `flag original and *)
(* averaged profiles' gives the flag of a filter that has it, and what is   *)
(* excluded but not missing stays so.                                       *)
FlagKept(i, o) ==
  /\ flags'[o] = chain[i].qcFlag =>
       flags[o] = chain[i].qcFlag \/ (FlagProfiles /\ Running = i)
  /\ flags[o] \notin {pass, missing} => flags'[o] \notin {pass, missing}

LEMMA CallKeepsFlag ==
  ASSUME TypeOK, FiltersOK, CallStep, NEW i \in Index, FlagsProfiles(i), NEW o \in Obs
  PROVE  FlagKept(i, o)
<1>1. chain[i].qcFlag \notin {pass, missing}
  BY FlagOfFilter DEF FlagsProfiles
<1>2. CASE UNCHANGED flags
  BY <1>2 DEF FlagKept
<1>3. ASSUME NEW variables, flags' = UpdateQCFlags(flags, variables, present')
      PROVE  FlagKept(i, o)
  BY <1>1, <1>3 DEF UpdateQCFlags, FlagKept, TypeOK
<1>4. CASE TransformVariables(next)
  BY <1>3, <1>4 DEF TransformVariables
<1>5. CASE AssignVariables(next)
  BY <1>3, <1>5 DEF AssignVariables
<1> QED
  BY <1>2, <1>4, <1>5 DEF CallStep, DoFilter, ApplyFilter, CreateDiagnosticFlags, dataVars

LEMMA ActionKeepsFlag ==
  ASSUME TypeOK, FiltersOK, RunningInv, ProfileInv, TakeAction,
         NEW i \in Index, FlagsProfiles(i), NEW o \in Obs
  PROVE  FlagKept(i, o)
<1> DEFINE r == Running
<1>1. /\ r \in Index /\ Has(r, Head(pending).name) /\ phase \in {"pre", "prior", "post"}
      /\ chain[r].qcFlag \in FilterQCFlag \ {pass}
  BY TakenAction
<1>2. chain[i].qcFlag \notin {pass, missing, passive}
  BY FlagOfFilter DEF FlagsProfiles
<1>3. chain[r].qcFlag \notin {pass, missing}
  BY <1>1 DEF FilterQCFlag
<1>4. r # i => chain[r].qcFlag # chain[i].qcFlag
  BY <1>1 DEF FlagsProfiles
<1>5. CASE Reject
  <2>1. r # i
    <3> SUFFICES ASSUME r = i PROVE FALSE
      OBVIOUS
    <3>0. Sched!Passed("construct", i)
      BY <1>1 DEF Sched!Passed, Sched!PhaseNumber
    <3>1. ActionsInOrder(chain[i])
      BY <1>1, <3>0 DEF ProfileInv
    <3>2. Has(i, "reject") /\ Has(i, "flag original and averaged profiles")
      BY <1>1, <1>5 DEF Reject, Take, FlagsProfiles
    <3> QED
      BY <3>1, <3>2, ProfileActionIsLast DEF FlagChangingActions
  <2> QED
    BY <1>3, <1>4, <1>5, <2>1 DEF Reject, RejectObs, FlagKept, TypeOK
<1>6. CASE Accept
  BY <1>1, <1>6 DEF Accept, Take, FlagsProfiles
<1>7. CASE Passivate
  BY <1>2, <1>7 DEF Passivate, PassivateObs, FlagKept, TypeOK, pass, passive, missing
<1>8. CASE FlagProfiles
  BY <1>3, <1>4, <1>8 DEF FlagProfiles, FlagOriginalAndAveragedProfiles, FlagKept, TypeOK
<1>9. CASE UNCHANGED flags
  BY <1>9 DEF FlagKept
<1> QED
  BY <1>5, <1>6, <1>7, <1>8, <1>9 DEF TakeAction, Inflate, Assign, Set

LEMMA OtherKeepsFlag ==
  ASSUME TypeOK, FiltersOK, ProfileInv, OtherStep,
         NEW i \in Index, FlagsProfiles(i), NEW o \in Obs
  PROVE  FlagKept(i, o)
<1> USE DEF FlagKept, TypeOK
<1>1. chain[i].qcFlag \notin {pass, missing, Hfailed, processed}
  BY FlagOfFilter DEF FlagsProfiles
<1>2. CASE CreateQCmanager
  BY <1>1, <1>2 DEF CreateQCmanager, Sched!CreateQCmanager, ProfileInv
<1>3. CASE QCmanagerPostFilter
  BY <1>1, <1>3 DEF QCmanagerPostFilter, pass, missing, Hfailed
<1>4. CASE FinalCheck
  BY <1>1, <1>4 DEF FinalCheck, pass, missing, processed
<1>5. CASE UNCHANGED flags
  BY <1>5
<1> QED
  BY <1>2, <1>3, <1>4, <1>5 DEF OtherStep, Construct, SimulateObs, EndLoop, Throw, dataVars, vars

(* An observation of an original profile is rejected together with those of *)
(* its averaged profile.                                                    *)
LEMMA ProfilesFlaggedTogether ==
  ASSUME TypeOK, FlagProfiles, NEW p \in Profiles, NEW v \in ObsVars,
         NEW k \in p.original, flags'[v, k] # flags[v, k], NEW l \in p.averaged
  PROVE  flags'[v, l] = chain[Running].qcFlag
<1> DEFINE new == NewlyRejected(flags, flagged, Profiles)
<1>1. /\ <<v, k>> \in Obs /\ <<v, l>> \in Obs /\ DOMAIN flags = Obs
      /\ \A r \in Profiles : k \notin r.averaged
  BY ProfilesAssumption DEF Obs, TypeOK
<1>2. flags' = [o \in Obs |-> IF o \in new \cup AveragedOf(new, flags, Profiles)
                               THEN chain[Running].qcFlag ELSE flags[o]]
  BY <1>1 DEF FlagProfiles, FlagOriginalAndAveragedProfiles
<1>3. <<v, k>> \in new
  <2>1. <<v, k>> \notin AveragedOf(new, flags, Profiles)
    BY <1>1 DEF AveragedOf
  <2> QED
    BY <1>1, <1>2, <2>1
<1>4. <<v, l>> \in AveragedOf(new, flags, Profiles)
  <2> HIDE DEF new
  <2> QED
    BY <1>1, <1>3 DEF AveragedOf
<1> QED
  BY <1>1, <1>2, <1>4

(* No flag is given before the QC manager is created.                       *)
LEMMA NextUntouched ==
  ASSUME TypeOK, FiltersOK, RunningInv, [Next]_vars, phase' = "create"
  PROVE  phase = "create" /\ flags' = flags
<1>1. CASE CallStep
  BY <1>1 DEF CallStep
<1>2. CASE TakeAction
  BY <1>2, TakenAction
<1>3. CASE OtherStep
  BY <1>3 DEF OtherStep, CreateQCmanager, Construct, SimulateObs, QCmanagerPostFilter,
       EndLoop, FinalCheck, Throw, vars, schedVars, dataVars, Sched!CreateQCmanager,
       Sched!Construct, Sched!SimulateObs, Sched!QCmanagerPostFilter, Sched!EndConstruct,
       Sched!EndPreProcess, Sched!EndPriorFilter, Sched!EndPostFilter, Sched!FinalCheck,
       Sched!LoopEnded, Sched!MoveTo, Sched!Throw
<1> QED
  BY <1>1, <1>2, <1>3, Steps DEF TypeOK

LEMMA NextProfileInv ==
  ASSUME TypeOK, FiltersOK, RunningInv, ProfileInv, [Next]_vars
  PROVE  ProfileInv'
<1>0. Sched!TypeOK /\ chain' = chain /\ Index' = Index
  BY ChainConstant DEF TypeOK
<1>1. (phase = "create" => flags = [o \in Obs |-> pass])'
  BY NextUntouched DEF ProfileInv
<1>2. ASSUME phase' # "threw", NEW i \in Index, Sched!Passed("construct", i)'
      PROVE  ActionsInOrder(chain[i])
  <2>1. /\ phase # "threw"
        /\ \/ Sched!Passed("construct", i)
           \/ i = next /\ phase = "construct" /\ (Construct \/ CallStep)
    BY <1>0, <1>2, PassedGrows DEF Stages
  <2> QED
    BY <2>1 DEF ProfileInv, Construct, CallStep
<1>3. ASSUME NEW i \in Index, NEW p \in Profiles, NEW v \in ObsVars,
             FlagsProfiles(i), OriginalFlagged(i, p, v)', NEW l \in p.averaged
      PROVE  flags'[v, l] \notin {pass, missing}
  <2>1. PICK k \in p.original : flags'[v, k] = chain[i].qcFlag
    BY <1>0, <1>3 DEF OriginalFlagged
  <2>2. <<v, k>> \in Obs /\ <<v, l>> \in Obs
    BY ProfilesAssumption DEF Obs
  <2>3. FlagKept(i, <<v, k>>) /\ FlagKept(i, <<v, l>>)
    BY <1>0, <1>3, <2>2, CallKeepsFlag, ActionKeepsFlag, OtherKeepsFlag, Steps
  <2>4. CASE flags[v, k] = chain[i].qcFlag
    <3>1. flags[v, l] \notin {pass, missing}
      BY <1>3, <2>4 DEF ProfileInv, OriginalFlagged
    <3> QED
      BY <2>3, <3>1 DEF FlagKept
  <2>5. CASE flags[v, k] # chain[i].qcFlag
    <3>1. FlagProfiles /\ Running = i
      BY <2>1, <2>3, <2>5 DEF FlagKept
    <3>2. flags'[v, l] = chain[i].qcFlag
      BY <2>1, <2>5, <3>1, ProfilesFlaggedTogether
    <3> QED
      BY <1>3, <3>2, FlagOfFilter DEF FlagsProfiles
  <2> QED
    BY <2>4, <2>5
<1>4. \A i : FlagsProfiles(i)' = FlagsProfiles(i)
  BY <1>0, FlagsProfilesConstant
<1> QED
  BY <1>0, <1>1, <1>2, <1>3, <1>4 DEF ProfileInv, ActionsInOrder

LEMMA InitChainInv == Init => ChainInv
<1> SUFFICES ASSUME Init PROVE ChainInv
  OBVIOUS
<1>1. RunningInv /\ ValueInv /\ HofXInv /\ BiasInv /\ ErrorInv
  BY DEF Init, Sched!Init, RunningInv, ValueInv, HofXInv, BiasInv, ErrorInv
<1>2. phase = "create" /\ Sched!TypeOK /\ FiltersOK /\ flags = [o \in Obs |-> pass]
  BY InitSchedule, InitFiltersOK DEF Init, Sched!Init
<1>3. \A i \in Index : ~Sched!Passed(Sched!Due(i), i) /\ ~Sched!Passed("construct", i)
  BY <1>2, DueIsStage DEF Sched!Passed, Sched!PhaseNumber, Stages
<1>4. ASSUME NEW i \in Index, NEW p \in Profiles, NEW v \in ObsVars, FlagsProfiles(i)
      PROVE  ~OriginalFlagged(i, p, v)
  <2>1. \A k \in p.original : flags[v, k] = pass
    BY <1>2, ProfilesAssumption DEF Obs
  <2> QED
    BY <1>2, <1>4, <2>1, FlagOfFilter DEF OriginalFlagged, FlagsProfiles
<1> QED
  BY <1>1, <1>2, <1>3, <1>4 DEF ChainInv, CreatedInv, ProfileInv

-----------------------------------------------------------------------------
(* The theorems.                                                            *)

IInv == TypeOK /\ Sched!ScheduleInv /\ FiltersOK /\ ChainInv

LEMMA InitIInv == Init => IInv
  BY InitTypeOK, InitSchedule, InitFiltersOK, InitChainInv DEF IInv

LEMMA NextIInv == IInv /\ [Next]_vars => IInv'
<1> SUFFICES ASSUME IInv, [Next]_vars PROVE IInv'
  OBVIOUS
<1> USE DEF IInv, ChainInv
<1>1. TypeOK' /\ Sched!ScheduleInv' /\ FiltersOK'
  BY NextTypeOK, NextSchedule, NextFiltersOK DEF TypeOK
<1>2. RunningInv' /\ ValueInv' /\ HofXInv' /\ BiasInv' /\ ErrorInv'
  BY NextRunningInv, NextValueInv, NextHofXInv, NextBiasInv, NextErrorInv
<1>3. CreatedInv' /\ ProfileInv'
  BY NextCreatedInv, NextProfileInv
<1> QED
  BY <1>1, <1>2, <1>3

(* The types, the schedule, and the seven parts of the invariant hold in     *)
(* every state, for all chains of filters.                                  *)
THEOREM ChainInvariant == Spec => []IInv
  BY InitIInv, NextIInv, PTL DEF Spec

(* What the pending actions, the flags, values, H(x) and errors have to do  *)
(* with each other, whatever the filters of the chain are.                 *)
THEOREM ChainStaysConsistent == Spec => []ChainInv
<1>1. IInv => ChainInv
  BY DEF IInv
<1> QED
  BY <1>1, ChainInvariant, PTL

(* Flags, errors, values and pending actions keep their types: no sequence  *)
(* of filters leaves a flag that the QC manager cannot account for.         *)
THEOREM TypeCorrect == Spec => []TypeOK
<1>1. IInv => TypeOK
  BY DEF IInv
<1> QED
  BY <1>1, ChainInvariant, PTL

(* What passes has a value, if no filter accepts observations whose value   *)
(* another filter may have taken away.                                      *)
THEOREM PassingHaveValue == Spec => []PassingObsHaveValue
<1>1. IInv => PassingObsHaveValue
  BY DEF IInv, ChainInv, ValueInv, PassingObsHaveValue
<1> QED
  BY <1>1, ChainInvariant, PTL

(* What passes after the QC manager has looked at H(x) has an H(x), if no   *)
(* filter that runs later accepts or supplies values.                       *)
THEOREM PassingHaveHofX == Spec => []PassingObsHaveHofX
<1>1. IInv => PassingObsHaveHofX
  BY DEF IInv, ChainInv, HofXInv, PassingObsHaveHofX
<1> QED
  BY <1>1, ChainInvariant, PTL

(* What passes in the end is simulated and has an error estimate, if no     *)
(* filter inflates errors.                                                  *)
THEOREM PassingHaveError == Spec => []PassingObsHaveError
<1>1. IInv => PassingObsHaveError
  BY DEF IInv, ChainInv, ErrorInv, PassingObsHaveError
<1> QED
  BY <1>1, ChainInvariant, PTL

(* A background check needs H(x) and therefore runs after the operator.     *)
LEMMA BackgroundCheckRunsInPost ==
  ASSUME IInv, NEW i \in Index, i = next, Runs(i), chain[i].kind = "BackgroundCheck"
  PROVE  phase = "post" /\ post[i] /\ driver # "none"
<1>0. Sched!TypeOK /\ Sched!ScheduleInv /\ i \in Sched!Index
  BY DEF IInv, TypeOK, Index
<1>1. "HofX" \in chain[i].groups
  BY DEF IInv, FiltersOK, IsFilter
<1>2. Sched!WaitsForHofX(i) /\ Sched!Needs(i, Sched!HofXGroups) /\ Sched!Needs(i, Sched!Groups)
  BY <1>1 DEF Sched!WaitsForHofX, Sched!Needs, Sched!HofXGroups, Sched!Groups
<1>3. Sched!Due(i) = phase /\ phase \in {"pre", "prior", "post"}
  BY <1>0, RunsWhenDue DEF Runs
<1>4. Sched!StageFlagsSet(i) /\ Sched!Passed("construct", i)
  BY <1>0, <1>3 DEF Sched!ScheduleInv, Sched!Passed, Sched!PhaseNumber
<1>5. chain[i].list \in Sched!Lists
  BY <1>0 DEF Sched!TypeOK, Sched!IsChain, Sched!Index
<1>6. chain[i].list \in {"AUTO", "POST"}
  BY <1>2, <1>4, <1>5 DEF Sched!StageFlagsSet, Sched!DataAvailable, Sched!Lists
<1>7. phase = "post"
  BY <1>2, <1>3, <1>6 DEF Sched!Due
<1> QED
  BY <1>0, <1>7 DEF Runs, Sched!RunsInPost, Sched!ScheduleInv, Sched!Visited

(* No other step ends the program with an exception.                        *)
LEMMA ThrowsOnlyThere ==
  ASSUME TypeOK, FiltersOK, RunningInv, [Next]_vars, ~Throw
  PROVE  thrown' = thrown
<1>1. CASE CallStep
  BY <1>1, DoFilterTypes DEF CallStep
<1>2. CASE TakeAction
  BY <1>2, TakeActionTypes
<1>3. CASE OtherStep
  BY <1>3 DEF OtherStep, CreateQCmanager, Construct, SimulateObs, QCmanagerPostFilter, EndLoop,
              FinalCheck, vars
<1> QED
  BY <1>1, <1>2, <1>3, Steps DEF TypeOK

(* The assertions of the background check, on the value, H(x), the bias and *)
(* the threshold, cannot fail under the three conditions, whatever the      *)
(* filters before it have done.                                             *)
THEOREM BackgroundCheckNeverAborts == Spec => []BackgroundCheckSafe
<1>1. Init => BackgroundCheckSafe
  BY DEF Init, BackgroundCheckSafe
<1>2. IInv /\ BackgroundCheckSafe /\ [Next]_vars => BackgroundCheckSafe'
  <2> SUFFICES ASSUME IInv, BackgroundCheckSafe, [Next]_vars PROVE BackgroundCheckSafe'
    OBVIOUS
  <2>0. chain' = chain /\ Index' = Index /\ TypeOK /\ FiltersOK /\ ChainInv
    BY ChainConstant DEF IInv, TypeOK
  <2> SUFFICES ASSUME SettledBeforeHofX, AcceptsUnalteredObs, ThresholdsUsable
               PROVE  thrown' # "BackgroundCheckAssert"
    BY <2>0, SameConditions DEF BackgroundCheckSafe
  <2>1. ~BackgroundCheckAssert
    <3> SUFFICES ASSUME BackgroundCheckAssert PROVE FALSE
      OBVIOUS
    <3>1. /\ next \in Index /\ Runs(next) /\ chain[next].kind = "BackgroundCheck"
          /\ ~VarsWithoutHofX(next)
      BY DEF BackgroundCheckAssert, BackgroundCheckAborts
    <3>2. phase = "post" /\ post[next] /\ driver # "none"
      BY <3>1, BackgroundCheckRunsInPost
    <3>3. FilterVars(next) \subseteq AssimVars
      <4>1. Sched!Needs(next, {"HofX"})
        BY <3>1 DEF IInv, FiltersOK, IsFilter, Sched!Needs
      <4> QED
        BY <3>1, <3>2, <4>1 DEF VarsWithoutHofX
    <3>4. PICK unusable \in UnusableThresholds(next, Locs) :
            BackgroundCheckAborts(next, Locs, unusable)
      BY DEF BackgroundCheckAssert
    <3>5. PICK o \in Compared(next, Locs) : AssertionFails(next, o, unusable)
      BY <3>4 DEF BackgroundCheckAborts
    <3>6. o \in AssimObs /\ o \in Obs /\ flags[o] = pass
      BY <3>3, <3>5, VarsAssumption DEF Compared, AssimObs, Obs
    <3>7. o \in present /\ hofx[o] = "valid" /\ bias[o] = "valid"
      BY <2>0, <3>2, <3>6 DEF ChainInv, ValueInv, HofXInv, BiasInv
    <3>8. o \notin unusable
      <4>1. chain[next].threshold # "data"
        BY <3>1 DEF ThresholdsUsable
      <4>2. CASE chain[next].threshold = "error"
        <5>1. obserr[o] # "spurious"
          BY <2>0, <3>1, <3>6, <4>2 DEF ThresholdsUsable, ChainInv, ErrorInv
        <5> QED
          BY <3>4, <4>2, <5>1 DEF UnusableThresholds
      <4>3. CASE chain[next].threshold # "error"
        BY <3>4, <4>1, <4>3 DEF UnusableThresholds
      <4> QED
        BY <4>2, <4>3
    <3> QED
      BY <3>5, <3>7, <3>8 DEF AssertionFails
  <2>2. CASE Throw
    BY <2>1, <2>2 DEF Throw
  <2>3. CASE ~Throw
    <3>1. thrown' = thrown
      BY <2>0, <2>3, ThrowsOnlyThere DEF ChainInv
    <3> QED
      BY <3>1 DEF BackgroundCheckSafe
  <2> QED
    BY <2>2, <2>3
<1> QED
  BY <1>1, <1>2, ChainInvariant, PTL DEF Spec

(* A filter finds the diagnostic flag it sets or unsets if each variable    *)
(* has a filter that creates it and is due earlier: no order of stages and  *)
(* of filters within them makes the filter that creates it come too late.   *)
THEOREM DiagnosticFlagsAreFound == Spec => []DiagnosticFlagsFound
<1>1. Init => DiagnosticFlagsFound
  BY DEF Init, DiagnosticFlagsFound
<1>2. IInv /\ DiagnosticFlagsFound /\ [Next]_vars => DiagnosticFlagsFound'
  <2> SUFFICES ASSUME IInv, DiagnosticFlagsFound, [Next]_vars PROVE DiagnosticFlagsFound'
    OBVIOUS
  <2>0. /\ chain' = chain /\ driver' = driver /\ Index' = Index
        /\ TypeOK /\ Sched!TypeOK /\ FiltersOK /\ RunningInv /\ CreatedInv
    BY ChainConstant DEF IInv, TypeOK, ChainInv
  <2>1. FlagsCreatedInTime' = FlagsCreatedInTime
    BY <2>0 DEF FlagsCreatedInTime, Has, Creates, RunsBefore, Sched!Due, Sched!WaitsForHofX,
                Sched!Needs
  <2> SUFFICES ASSUME FlagsCreatedInTime, driver = "operator"
               PROVE  thrown' # "NoDiagnosticFlag"
    BY <2>0, <2>1 DEF DiagnosticFlagsFound
  <2>2. ~NoDiagnosticFlag
    <3> SUFFICES ASSUME NoDiagnosticFlag PROVE FALSE
      OBVIOUS
    <3>1. /\ phase \in {"pre", "prior", "post"} /\ Running \in Index
          /\ Sched!Due(Running) = phase /\ Has(Running, Head(pending).name)
          /\ Head(pending).name \in DiagActions
      BY <2>0 DEF NoDiagnosticFlag, RunningInv, TypeOK
    <3>2. Has(Running, "set") \/ Has(Running, "unset")
      BY <3>1 DEF DiagActions
    <3>3. PICK v \in FilterVars(Running) : v \notin diagVars
      BY DEF NoDiagnosticFlag
    <3>4. v \in ObsVars
      BY <2>0, <3>1, <3>3, FilterVarsAreVars
    <3>5. chain[Running].vars = {} \/ v \in chain[Running].vars
      BY <3>3 DEF FilterVars
    <3>6. PICK j \in Index : Creates(j, v) /\ RunsBefore(j, Running)
      BY <3>1, <3>2, <3>4, <3>5 DEF FlagsCreatedInTime
    <3>7. Sched!Due(j) \in Stages \ {"construct"}
      BY <2>0, DueIsStage
    <3>8. Sched!Passed(Sched!Due(j), j)
      <4>1. next \in Int /\ j \in Int
        BY <2>0 DEF Sched!TypeOK, Index, Sched!Index, Sched!IsChain
      <4> QED
        BY <3>1, <3>6, <3>7, <4>1
           DEF RunsBefore, Stages, Sched!Passed, Sched!PhaseNumber, Running
    <3> QED
      BY <2>0, <3>1, <3>3, <3>4, <3>6, <3>8 DEF CreatedInv
  <2>3. CASE Throw
    BY <2>2, <2>3 DEF Throw
  <2>4. CASE ~Throw
    BY <2>0, <2>4, ThrowsOnlyThere DEF DiagnosticFlagsFound
  <2> QED
    BY <2>3, <2>4
<1> QED
  BY <1>1, <1>2, ChainInvariant, PTL DEF Spec

(* An averaged profile stays rejected once an observation of the original   *)
(* profile has been flagged by a filter with `flag original and averaged    *)
(* profiles', whatever assignments and checks come later.                   *)
THEOREM AveragedStayRejected == Spec => []AveragedFollowsOriginal
<1>1. IInv => AveragedFollowsOriginal
  BY DEF IInv, ChainInv, ProfileInv, AveragedFollowsOriginal
<1> QED
  BY <1>1, ChainInvariant, PTL

-----------------------------------------------------------------------------
(* The chain obeys the rules of ObsVerdict.                                 *)

NoProfileActions == \A i \in Index : ~Has(i, "flag original and averaged profiles")

VerdictInv == IInv /\ NoProfileActions

LEMMA NextVerdictInv == VerdictInv /\ [Next]_vars => VerdictInv'
<1> SUFFICES ASSUME VerdictInv, [Next]_vars PROVE VerdictInv'
  OBVIOUS
<1> USE DEF VerdictInv
<1>1. IInv'
  BY NextIInv
<1>2. NoProfileActions'
  BY ChainConstant DEF IInv, TypeOK, NoProfileActions, Has
<1> QED
  BY <1>1, <1>2

(* What a step of the chain may do to the flag of an observation.           *)
FlagRevised(o) ==
  \/ flags'[o] = flags[o]
  \/ flags[o] = pass
  \/ flags'[o] = pass /\ flags[o] \notin {preQC, Hfailed}

LEMMA CallRevises ==
  ASSUME TypeOK, CallStep, NEW o \in Obs
  PROVE  FlagRevised(o)
<1> USE DEF FlagRevised
<1>1. CASE UNCHANGED flags
  BY <1>1
<1>2. ASSUME NEW variables, flags' = UpdateQCFlags(flags, variables, present')
      PROVE  FlagRevised(o)
  BY <1>2 DEF UpdateQCFlags, TypeOK, missing, preQC, Hfailed
<1>3. CASE TransformVariables(next)
  BY <1>2, <1>3 DEF TransformVariables
<1>4. CASE AssignVariables(next)
  BY <1>2, <1>4 DEF AssignVariables
<1> QED
  BY <1>1, <1>3, <1>4
     DEF CallStep, DoFilter, ApplyFilter, CreateDiagnosticFlags, dataVars

LEMMA ActionRevises ==
  ASSUME VerdictInv, TakeAction, NEW o \in Obs
  PROVE  FlagRevised(o)
<1> USE DEF FlagRevised, VerdictInv, IInv, TypeOK
<1>1. CASE Reject
  BY <1>1 DEF Reject, RejectObs
<1>2. CASE Accept
  BY <1>2 DEF Accept, AcceptObs, isDefective
<1>3. CASE Passivate
  BY <1>3 DEF Passivate, PassivateObs
<1>4. CASE FlagProfiles
  <2>1. Running \in Index /\ Has(Running, Head(pending).name)
    BY TakenAction DEF ChainInv
  <2> QED
    BY <1>4, <2>1 DEF FlagProfiles, Take, NoProfileActions
<1>5. CASE UNCHANGED flags
  BY <1>5
<1> QED
  BY <1>1, <1>2, <1>3, <1>4, <1>5 DEF TakeAction, Inflate, Assign, Set

LEMMA OtherRevises ==
  ASSUME VerdictInv, OtherStep, ~FinalCheck, NEW o \in Obs
  PROVE  FlagRevised(o)
<1> USE DEF FlagRevised, VerdictInv, IInv, TypeOK
<1>1. CASE CreateQCmanager
  BY <1>1 DEF CreateQCmanager, Sched!CreateQCmanager, ChainInv, ProfileInv
<1>2. CASE QCmanagerPostFilter
  BY <1>2 DEF QCmanagerPostFilter
<1>3. CASE UNCHANGED flags
  BY <1>3
<1> QED
  BY <1>1, <1>2, <1>3 DEF OtherStep, Construct, SimulateObs, EndLoop, Throw, dataVars, vars

LEMMA StepOfVerdict == VerdictInv /\ [Next]_vars => [Verdict!Next]_(Verdict!vars)
<1> SUFFICES ASSUME VerdictInv, [Next]_vars PROVE [Verdict!Next]_(Verdict!vars)
  OBVIOUS
<1>0. TypeOK /\ Sched!TypeOK
  BY DEF VerdictInv, IInv, TypeOK
<1>1. flags' \in [Obs -> Verdict!Verdicts] /\ flags \in [Obs -> QCFlag]
  <2>1. QCFlag \subseteq Verdict!Verdicts
    BY DEF Verdict!Verdicts
  <2>2. flags' \in [Obs -> QCFlag]
    BY NextVerdictInv DEF VerdictInv, IInv, TypeOK
  <2> QED
    BY <1>0, <2>1, <2>2 DEF TypeOK
<1>2. CASE UNCHANGED vars
  BY <1>2 DEF Verdict!vars, vars, dataVars, schedVars
<1>3. CASE FinalCheck
  <2>1. phase = "final" /\ phase' = "done"
    BY <1>3 DEF FinalCheck, Sched!FinalCheck, Sched!MoveTo
  <2>2. \A o \in Obs : \/ flags'[o] = flags[o]
                       \/ flags[o] = pass /\ flags'[o] = missing
                       \/ flags'[o] = processed
    BY <1>3 DEF FinalCheck
  <2> QED
    BY <1>1, <2>1, <2>2 DEF Verdict!Next, Verdict!Close
<1>4. CASE ~FinalCheck /\ ~(UNCHANGED vars)
  <2>1. CallStep \/ TakeAction \/ OtherStep
    BY <1>0, Steps
  <2>2. \A o \in Obs : FlagRevised(o)
    BY <1>0, <1>4, <2>1, CallRevises, ActionRevises, OtherRevises
  <2>3. \A o \in Obs : Verdict!Revised(flags[o], flags'[o])
    BY <2>2 DEF FlagRevised, Verdict!Revised
  <2>4. phase # "done" /\ phase' # "done"
    <3>1. CASE CallStep
      BY <3>1 DEF CallStep
    <3>2. CASE TakeAction
      BY <3>2, TakenAction DEF VerdictInv, IInv, ChainInv
    <3>3. CASE OtherStep
      BY <1>4, <3>3 DEF OtherStep, CreateQCmanager, Construct, SimulateObs, QCmanagerPostFilter,
           EndLoop, Throw, vars, schedVars, dataVars, Sched!CreateQCmanager,
           Sched!Construct, Sched!SimulateObs, Sched!QCmanagerPostFilter, Sched!EndConstruct,
           Sched!EndPreProcess, Sched!EndPriorFilter, Sched!EndPostFilter, Sched!Ended,
           Sched!LoopEnded, Sched!MoveTo, Sched!Throw
    <3> QED
      BY <2>1, <3>1, <3>2, <3>3
  <2> QED
    BY <1>1, <2>3, <2>4 DEF Verdict!Next, Verdict!Judge
<1> QED
  BY <1>2, <1>3, <1>4

(* The chain implements ObsVerdict: whatever filters it has, if none of     *)
(* them has the action that overwrites averaged profiles, the reason for    *)
(* which an observation is excluded is the first that applied and stays so, *)
(* a defective observation never comes back and the final check admits none.*)
THEOREM ChainKeepsVerdicts == Spec /\ NoProfileActions => ImplementsVerdict
<1>1. Init /\ NoProfileActions => VerdictInv
  BY InitIInv DEF VerdictInv
<1>2. Init => Verdict!Init
  BY DEF Init, Sched!Init, Verdict!Init
<1> QED
  BY <1>1, <1>2, NextVerdictInv, StepOfVerdict, PTL DEF Spec, ImplementsVerdict, Verdict!Spec

=============================================================================
