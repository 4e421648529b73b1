---------------------------- MODULE ObsFilterChain ----------------------------
(***************************************************************************)
(* The quality control of one observation type: the chain of filters       *)
(* scheduled as in FilterSchedule, and what each doFilter and each filter  *)
(* action does to the QC flags, the error estimates, the observed values   *)
(* and the diagnostic flags.  The QC manager comes first, FinalCheck last. *)
(*                                                                         *)
(* What a filter thinks of an observation is not modelled: the locations   *)
(* its where clause selects and, for the filters that look at data, the    *)
(* observations it flags among them are chosen arbitrarily.                *)
(***************************************************************************)
EXTENDS FilterActions, Sequences

CONSTANTS
  Chains,        \* the filter lists that may be configured
  Locs,          \* the locations
  InitialVars,   \* observed variables with an ObsValue in the input file
  DerivedVars,   \* observed variables without: a filter, or an earlier program,
                 \* has to put them into DerivedObsValue
  AssimVars,     \* the simulated variables
  Profiles       \* records [original, averaged]: the locations of a profile
                 \* and of its companion in the extended obs space

ObsVars  == InitialVars \cup DerivedVars
Obs      == ObsVars \X Locs
AssimObs == AssimVars \X Locs

(* The filters, by what their applyFilter (or doFilter) does.  PreQC       *)
(* stands for every filter that looks at its own data and flags any of the *)
(* selected observations, PerformAction also for BlackList and AcceptList. *)
FlaggingKinds == {"PerformAction", "ObsDomainCheck", "PreQC", "BackgroundCheck"}
Kinds == FlaggingKinds \cup
         {"VariableTransforms", "VariableAssignment", "CreateDiagnosticFlags"}

FlagChangingActions == {"reject", "accept", "passivate",
                        "flag original and averaged profiles"}
ErrorActions == {"inflate error", "assign error"}
DiagActions  == {"set", "unset"}
ActionNames  == FlagChangingActions \cup ErrorActions \cup DiagActions

IgnoreOptions == {"none", "rejected observations", "defective observations"}

(* name is that of the action; varying tells an inflation variable or an   *)
(* error function from a constant; ignore is the option of `set', `unset'. *)
Action == [name : ActionNames, varying : BOOLEAN, ignore : IgnoreOptions]

(* Where the threshold of a background check comes from: a positive number, *)
(* a positive multiple of the error estimate (alone or with a number), the  *)
(* data (a variable, the background error, a number that need not be        *)
(* positive), or the function absolute threshold.                          *)
Thresholds == {"number", "error", "data", "function"}

(* vars are the filter variables, {} when none are specified.  For an      *)
(* assignment or a transform, vars are the DerivedObsValue variables that  *)
(* it writes.  threshold and removeBias belong to a background check, force *)
(* and initial to CreateDiagnosticFlags.  The default action is reject.    *)
IsFilter(f) ==
  /\ f.kind \in Kinds
  /\ f.vars \subseteq ObsVars
  /\ f.qcFlag \in FilterQCFlag
  /\ f.actions \in Seq(Action)
  /\ f.kind \in FlaggingKinds <=> f.actions # << >>
  /\ f.kind \in FlaggingKinds => f.qcFlag # pass
  /\ f.kind = "BackgroundCheck" =>
       "HofX" \in f.groups /\ (f.removeBias => "ObsBiasData" \in f.groups)
  /\ f.threshold \in Thresholds /\ f.removeBias \in BOOLEAN
  /\ f.force \in BOOLEAN /\ f.initial \in BOOLEAN

ASSUME FiltersAssumption ==
  \A c \in Chains : \A i \in 1 .. Len(c) : IsFilter(c[i])

ASSUME VarsAssumption == /\ AssimVars \subseteq ObsVars
                         /\ InitialVars \cap DerivedVars = {}

(* The original profiles are the records of the first half, the averaged   *)
(* ones those of the second, and no location is in two records.            *)
ASSUME ProfilesAssumption ==
  /\ \A p \in Profiles : p.original \subseteq Locs /\ p.averaged \subseteq Locs
  /\ \A p, r \in Profiles : p.original \cap r.averaged = {}

VARIABLES
  chain, driver, phase, next, prior, post, associated, ran, \* FilterSchedule
  flags,      \* the QC flag of every observation
  obserr,     \* its error estimate
  present,    \* the observations whose (Derived)ObsValue is not missing
  derived,    \* the variables in the DerivedObsValue group
  hofx,       \* H(x) of the simulated observations
  bias,       \* their bias
  diagVars,   \* the variables that have the diagnostic flag
  diag,       \* the observations whose diagnostic flag is true
  flagged,    \* what the running filter has flagged
  pending,    \* the actions it has still to take
  thrown      \* the exception that ended the program

Sched == INSTANCE FilterSchedule

ASSUME ChainsAssumption == \A c \in Chains : Sched!IsChain(c)

schedVars == <<chain, driver, phase, next, prior, post, associated, ran>>
dataVars  == <<flags, obserr, present, derived, hofx, bias, diagVars, diag>>
callVars  == <<flagged, pending>>
vars      == <<schedVars, dataVars, callVars, thrown>>

Index == Sched!Index

-----------------------------------------------------------------------------

Init ==
  /\ Sched!Init
  /\ flags = [o \in Obs |-> pass]
  /\ obserr \in [Obs -> {"valid", "missing"}]
  /\ derived \in SUBSET ObsVars
  /\ present \in SUBSET ((InitialVars \cup derived) \X Locs)
  /\ hofx = [o \in AssimObs |-> "none"]
  /\ bias = [o \in AssimObs |-> "valid"]
  /\ diagVars = {} /\ diag = {}
  /\ flagged = {} /\ pending = << >>
  /\ thrown = "none"

(* The constructor of QCmanager: a variable that does not exist yet is     *)
(* missing everywhere.                                                     *)
CreateQCmanager ==
  /\ Sched!CreateQCmanager
  /\ flags' = [o \in Obs |-> IF o \in present THEN flags[o] ELSE missing]
  /\ UNCHANGED <<obserr, present, derived, hofx, bias, diagVars, diag, callVars, thrown>>

(* The rule checked by the constructor of FilterBase.                      *)
ActionsInOrder(f) ==
  \A k \in 1 .. Len(f.actions) - 1 : f.actions[k].name \notin FlagChangingActions

Construct ==
  /\ Sched!Construct
  /\ ActionsInOrder(chain[next])
  /\ UNCHANGED <<dataVars, callVars, thrown>>

(* The variables doFilter works on.  post_ decides, not the stage: it is   *)
(* also set for the filters of the pre and prior lists.                    *)
FilterVars(i) ==
  IF chain[i].vars # {} THEN chain[i].vars
  ELSE IF post[i] THEN AssimVars ELSE ObsVars

(* doFilter refuses to compare a variable that has no H(x).  BackgroundCheck *)
(* adds the H(x) of the filter variables to what it needs itself.            *)
VarsWithoutHofX(i) ==
  post[i] /\ Sched!Needs(i, {"HofX"}) /\ ~(FilterVars(i) \subseteq AssimVars)

(* The observations a background check compares with H(x).                 *)
Compared(i, apply) ==
  {o \in FilterVars(i) \X apply : flags[o] = pass /\ obserr[o] # "missing"}

(* The observations whose threshold is not a positive number.  A spurious  *)
(* estimate makes it negative or infinite, and the data may be anything.   *)
UnusableThresholds(i, apply) ==
  CASE chain[i].threshold = "error" ->
         {{o \in FilterVars(i) \X apply : obserr[o] = "spurious"}}
    [] chain[i].threshold = "data"  -> SUBSET (FilterVars(i) \X apply)
    [] OTHER                        -> {{}}

(* The assertions about an observation that is compared.  Bias and         *)
(* threshold are not looked at with a function absolute threshold.         *)
AssertionFails(i, o, unusable) ==
  \/ o \notin present
  \/ hofx[o] # "valid"
  \/ /\ chain[i].threshold # "function"
     /\ (chain[i].removeBias /\ bias[o] # "valid") \/ o \in unusable

BackgroundCheckAborts(i, apply, unusable) ==
  /\ chain[i].kind = "BackgroundCheck"
  /\ \E o \in Compared(i, apply) : AssertionFails(i, o, unusable)

(* What applyFilter may flag when the where clause has selected apply.     *)
MayFlag(i, apply) ==
  CASE chain[i].kind = "PerformAction"   -> {FilterVars(i) \X apply}
    [] chain[i].kind = "ObsDomainCheck"  -> {FilterVars(i) \X (Locs \ apply)}
    [] chain[i].kind = "PreQC"           -> SUBSET (FilterVars(i) \X apply)
    [] chain[i].kind = "BackgroundCheck" -> SUBSET Compared(i, apply)

ApplyFilter(i) ==
  /\ chain[i].kind \in FlaggingKinds
  /\ ~VarsWithoutHofX(i)
  /\ \E apply \in SUBSET Locs :
       /\ \E unusable \in UnusableThresholds(i, apply) :
            ~BackgroundCheckAborts(i, apply, unusable)
       /\ flagged' \in MayFlag(i, apply)
  /\ pending' = chain[i].actions
  /\ UNCHANGED <<dataVars, thrown>>

(* TransformBase::putObservation stores the computed values of a variable, *)
(* any of which may be missing.                                            *)
TransformVariables(i) ==
  /\ chain[i].kind = "VariableTransforms"
  /\ \E computed \in SUBSET (chain[i].vars \X Locs) :
       /\ present' = {o \in present : o[1] \notin chain[i].vars} \cup computed
       /\ flags' = UpdateQCFlags(flags, chain[i].vars, present')
  /\ derived' = derived \cup chain[i].vars
  /\ UNCHANGED <<obserr, hofx, bias, diagVars, diag, callVars, thrown>>

(* VariableAssignment::doFilter assigns at the selected locations, and     *)
(* what it assigns may be missing.  At the others the variable keeps the   *)
(* value it had in DerivedObsValue; a variable that was not in that group  *)
(* starts out missing, even if it has an ObsValue.                         *)
AssignVariables(i) ==
  /\ chain[i].kind = "VariableAssignment"
  /\ \E apply \in SUBSET Locs :
     \E assigned \in SUBSET (chain[i].vars \X apply) :
       /\ present' =
            {o \in present : \/ o[1] \notin chain[i].vars
                             \/ o[1] \in derived /\ o[2] \notin apply} \cup assigned
       /\ flags' = UpdateQCFlags(flags, chain[i].vars, present')
  /\ derived' = derived \cup chain[i].vars
  /\ UNCHANGED <<obserr, hofx, bias, diagVars, diag, callVars, thrown>>

(* Mutant: the flag is only created where it exists already.               *)
CreateDiagnosticFlagsForced(i) ==
  /\ chain[i].kind = "CreateDiagnosticFlags"
  /\ LET asked   == IF chain[i].vars # {} THEN chain[i].vars ELSE ObsVars
         created == IF chain[i].force THEN asked ELSE asked \cap diagVars
     IN /\ diagVars' = diagVars \cup created
        /\ diag' = {o \in diag : o[1] \notin created}
                     \cup IF chain[i].initial THEN created \X Locs ELSE {}
  /\ UNCHANGED <<flags, obserr, present, derived, hofx, bias, callVars, thrown>>

CreateDiagnosticFlags(i) ==
  /\ chain[i].kind = "CreateDiagnosticFlags"
  /\ LET asked   == IF chain[i].vars # {} THEN chain[i].vars ELSE ObsVars
         created == IF chain[i].force THEN asked ELSE asked \ diagVars
     IN /\ diagVars' = diagVars \cup created
        /\ diag' = {o \in diag : o[1] \notin created}
                     \cup IF chain[i].initial THEN created \X Locs ELSE {}
  /\ UNCHANGED <<flags, obserr, present, derived, hofx, bias, callVars, thrown>>

(* doFilter of the filter whose turn it is.                                *)
DoFilter(i) == \/ ApplyFilter(i)
               \/ TransformVariables(i)
               \/ AssignVariables(i)
               \/ CreateDiagnosticFlags(i)

(* A call by oops runs doFilter or returns at once.                        *)
Call(runs) == IF runs THEN DoFilter(next) ELSE UNCHANGED <<dataVars, callVars, thrown>>

PreProcess  == pending = << >> /\ Sched!PreProcess  /\ Call(Sched!RunsInPre(next))
PriorFilter == pending = << >> /\ Sched!PriorFilter /\ Call(Sched!RunsInPrior(next))
PostFilter  == pending = << >> /\ Sched!PostFilter  /\ Call(Sched!RunsInPost(next))

-----------------------------------------------------------------------------
(* The actions a filter takes on what it has flagged, one after the other. *)

Running == next - 1    \* the filter that was called last

Take(names) ==
  /\ pending # << >>
  /\ Head(pending).name \in names
  /\ pending' = Tail(pending)
  /\ flagged' = IF Tail(pending) = << >> THEN {} ELSE flagged
  /\ UNCHANGED <<schedVars, present, derived, hofx, bias, diagVars, thrown>>

Reject ==
  /\ Take({"reject"})
  /\ flags' = RejectObs(flags, flagged, chain[Running].qcFlag)
  /\ UNCHANGED <<obserr, diag>>

Accept ==
  /\ Take({"accept"})
  /\ flags' = AcceptObs(flags, flagged)
  /\ UNCHANGED <<obserr, diag>>

Passivate ==
  /\ Take({"passivate"})
  /\ flags' = PassivateObs(flags, flagged)
  /\ UNCHANGED <<obserr, diag>>

FlagProfiles ==
  /\ Profiles # {}
  /\ Take({"flag original and averaged profiles"})
  /\ flags' = FlagOriginalAndAveragedProfiles(flags, flagged, chain[Running].qcFlag, Profiles)
  /\ UNCHANGED <<obserr, diag>>

(* The observations at which an inflation variable or an error function    *)
(* may be missing.                                                         *)
Undefined == IF Head(pending).varying THEN SUBSET flagged ELSE {{}}

Inflate ==
  /\ Take({"inflate error"})
  /\ \E undefined \in Undefined :
       obserr' = InflateError(obserr, flags, flagged, undefined)
  /\ UNCHANGED <<flags, diag>>

Assign ==
  /\ Take({"assign error"})
  /\ \E undefined \in Undefined :
       obserr' = AssignError(obserr, flags, flagged, undefined)
  /\ UNCHANGED <<flags, diag>>

Set ==
  /\ Take({"set", "unset"})
  /\ FilterVars(Running) \subseteq diagVars
  /\ diag' = SetFlag(diag, flags, flagged, Head(pending).name = "set", Head(pending).ignore)
  /\ UNCHANGED <<flags, obserr>>

TakeAction == Reject \/ Accept \/ Passivate \/ FlagProfiles \/ Inflate \/ Assign \/ Set

-----------------------------------------------------------------------------
(* Between and after the loops.                                            *)

(* Mutant: a predictor is used where it is missing.                        *)
AddBiasTermUnchecked(sum, predictor) ==
  IF predictor = "missing" THEN "missing" ELSE sum

(* The bias is a sum of predictors times coefficients, from which a        *)
(* predictor is left out where it is missing.                              *)
AddBiasTerm(sum, predictor) == IF predictor = "missing" THEN sum ELSE "valid"

SimulateObs ==
  /\ Sched!SimulateObs
  /\ hofx' \in [AssimObs -> {"valid", "missing"}]
  /\ \E predictor \in [AssimObs -> {"valid", "missing"}] :
       bias' = [o \in AssimObs |-> AddBiasTerm("valid", predictor[o])]
  /\ UNCHANGED <<flags, obserr, present, derived, diagVars, diag, callVars, thrown>>

(* Mutant: H(x) is only looked at where the error estimate is valid.       *)
QCmanagerPostFilterValidErrors ==
  /\ Sched!QCmanagerPostFilter
  /\ flags' = [o \in Obs |-> IF /\ o \in AssimObs /\ flags[o] = pass
                                /\ hofx[o] = "missing" /\ obserr[o] = "valid"
                               THEN Hfailed ELSE flags[o]]
  /\ UNCHANGED <<obserr, present, derived, hofx, bias, diagVars, diag, callVars, thrown>>

QCmanagerPostFilter ==
  /\ Sched!QCmanagerPostFilter
  /\ flags' = [o \in Obs |-> IF o \in AssimObs /\ flags[o] = pass /\ hofx[o] = "missing"
                               THEN Hfailed ELSE flags[o]]
  /\ UNCHANGED <<obserr, present, derived, hofx, bias, diagVars, diag, callVars, thrown>>

EndLoop ==
  /\ pending = << >>
  /\ \/ Sched!EndConstruct \/ Sched!EndPreProcess
     \/ Sched!EndPriorFilter \/ Sched!EndPostFilter
  /\ UNCHANGED <<dataVars, callVars, thrown>>

DerivedVarsExist == DerivedVars \subseteq derived

(* Mutant: the error estimates are not looked at.                          *)
FinalCheckNoErrors ==
  /\ Sched!FinalCheck
  /\ DerivedVarsExist
  /\ flags' = [o \in Obs |-> IF o \notin AssimObs THEN processed ELSE flags[o]]
  /\ obserr' = [o \in Obs |-> IF flags'[o] = pass THEN obserr[o] ELSE "missing"]
  /\ UNCHANGED <<present, derived, hofx, bias, diagVars, diag, callVars, thrown>>

(* FinalCheck, and the mask that the caller then puts on the errors.       *)
FinalCheck ==
  /\ Sched!FinalCheck
  /\ DerivedVarsExist
  /\ flags' = [o \in Obs |-> IF o \notin AssimObs THEN processed
                             ELSE IF flags[o] = pass /\ obserr[o] = "missing" THEN missing
                             ELSE flags[o]]
  /\ obserr' = [o \in Obs |-> IF flags'[o] = pass THEN obserr[o] ELSE "missing"]
  /\ UNCHANGED <<present, derived, hofx, bias, diagVars, diag, callVars, thrown>>

(* The exceptions.                                                         *)

Runs(i) == \/ phase = "pre"   /\ Sched!RunsInPre(i)
           \/ phase = "prior" /\ Sched!RunsInPrior(i)
           \/ phase = "post"  /\ Sched!RunsInPost(i)

InvalidConfiguration ==
  phase = "construct" /\ next \in Index
    /\ ~(Sched!DataAvailable(next) /\ ActionsInOrder(chain[next]))

InvalidFilterVariable ==
  /\ pending = << >> /\ next \in Index /\ Runs(next)
  /\ chain[next].kind \in FlaggingKinds
  /\ VarsWithoutHofX(next)

NoDiagnosticFlag ==
  /\ pending # << >> /\ Head(pending).name \in DiagActions
  /\ ~(FilterVars(Running) \subseteq diagVars)

NoProfiles ==
  /\ pending # << >> /\ Head(pending).name = "flag original and averaged profiles"
  /\ Profiles = {}

BackgroundCheckAssert ==
  /\ pending = << >> /\ next \in Index /\ Runs(next)
  /\ ~VarsWithoutHofX(next)
  /\ \E unusable \in UnusableThresholds(next, Locs) :
       BackgroundCheckAborts(next, Locs, unusable)

Throw ==
  /\ Sched!Throw
  /\ \/ InvalidConfiguration    /\ thrown' = "InvalidConfiguration"
     \/ InvalidFilterVariable   /\ thrown' = "InvalidFilterVariable"
     \/ NoDiagnosticFlag        /\ thrown' = "NoDiagnosticFlag"
     \/ NoProfiles              /\ thrown' = "NoProfiles"
     \/ BackgroundCheckAssert   /\ thrown' = "BackgroundCheckAssert"
     \/ phase = "final" /\ ~DerivedVarsExist /\ thrown' = "NoDerivedVariable"
  /\ flagged' = {} /\ pending' = << >>
  /\ UNCHANGED dataVars

Stopped == Sched!Stopped /\ UNCHANGED vars

Next == \/ CreateQCmanager \/ Construct
        \/ PreProcess \/ PriorFilter \/ PostFilter
        \/ TakeAction
        \/ SimulateObs \/ QCmanagerPostFilter
        \/ EndLoop \/ FinalCheck
        \/ Throw \/ Stopped

Spec == Init /\ [][Next]_vars

-----------------------------------------------------------------------------
(* Properties.                                                             *)

Exceptions == {"none", "InvalidConfiguration", "InvalidFilterVariable",
               "NoDiagnosticFlag", "NoProfiles", "BackgroundCheckAssert",
               "NoDerivedVariable"}

TypeOK ==
  /\ Sched!TypeOK
  /\ flags \in [Obs -> QCFlag]
  /\ obserr \in [Obs -> ObsErrState]
  /\ present \in SUBSET Obs
  /\ derived \in SUBSET ObsVars
  /\ hofx \in [AssimObs -> {"none", "valid", "missing"}]
  /\ bias \in [AssimObs -> {"valid", "missing"}]
  /\ diagVars \in SUBSET ObsVars
  /\ diag \in SUBSET (diagVars \X Locs)
  /\ flagged \in SUBSET Obs
  /\ pending \in Seq(Action)
  /\ thrown \in Exceptions

(* The data a filter that runs in postFilter works on were settled before   *)
(* H(x) was computed: nothing gives an observation a value, or another      *)
(* chance, after the QC manager has looked for missing H(x).                *)
Has(i, name) == \E k \in 1 .. Len(chain[i].actions) : chain[i].actions[k].name = name
Writes(i)    == chain[i].kind \in {"VariableAssignment", "VariableTransforms"}

SettledBeforeHofX ==
  \A i \in Index : Has(i, "accept") \/ Writes(i) => Sched!Due(i) # "post"

(* Nothing that is accepted can have lost its value, or the flag that says  *)
(* so, while it was rejected.                                               *)
AcceptsUnalteredObs ==
  \A i, j \in Index :
    Has(i, "accept") => ~Writes(j) /\ ~Has(j, "flag original and averaged profiles")

NoInflation == \A i \in Index : ~Has(i, "inflate error")

(* Thresholds are positive numbers, and multiples of error estimates only   *)
(* in a chain in which no missing estimate can be inflated.                 *)
ThresholdsUsable ==
  \A i \in Index : chain[i].kind = "BackgroundCheck" =>
    chain[i].threshold # "data" /\ (chain[i].threshold = "error" => NoInflation)

(* An observation that passes has a value, at every moment after the QC     *)
(* manager has been created: assignments, transforms, rejections and        *)
(* acceptances keep the flags in step with the values.                      *)
PassingObsHaveValue ==
  AcceptsUnalteredObs /\ phase # "create" =>
    \A o \in Obs : flags[o] = pass => o \in present

(* Once the QC manager has looked at H(x), no simulated observation passes  *)
(* without a valid H(x): none comes back from a rejection that hid it.      *)
PassingObsHaveHofX ==
  SettledBeforeHofX /\ phase \in {"post", "final", "done"} /\ driver # "none" =>
    \A o \in AssimObs : flags[o] = pass => hofx[o] = "valid"

(* What the assimilation finally uses are simulated observations with a     *)
(* meaningful error estimate.                                               *)
PassingObsHaveError ==
  NoInflation /\ phase = "done" =>
    \A o \in Obs : flags[o] = pass => o \in AssimObs /\ obserr[o] = "valid"

(* Under these conditions no assertion of BackgroundCheck, on the value,    *)
(* H(x), the bias or the threshold, can fail, whatever filters stand before *)
(* it.  Without the last one an assertion on the threshold may fail; that   *)
(* on the bias still does not.                                              *)
BackgroundCheckSafe ==
  SettledBeforeHofX /\ AcceptsUnalteredObs /\ ThresholdsUsable =>
    thrown # "BackgroundCheckAssert"

(* The inductive invariant behind these properties.  The actions that are   *)
(* pending belong to the filter called last, which is where it should be,   *)
(* and concern its own variables.                                           *)
RunningInv ==
  pending # << >> =>
    /\ phase \in {"pre", "prior", "post"} /\ Running \in Index
    /\ Sched!Due(Running) = phase
    /\ flagged \subseteq FilterVars(Running) \X Locs
    /\ \A k \in 1 .. Len(pending) : Has(Running, pending[k].name)

(* What has no value is not only kept from passing but, if anything may be  *)
(* accepted later, marked as defective.                                     *)
ValueInv ==
  AcceptsUnalteredObs /\ phase # "create" =>
    \A o \in Obs \ present :
      /\ flags[o] # pass
      /\ phase # "done" /\ (\E i \in Index : Has(i, "accept")) => isDefective(flags[o])

HofXInv ==
  SettledBeforeHofX /\ driver # "none" =>
    /\ phase \in {"manager", "post", "final", "done"} =>
         \A o \in AssimObs : hofx[o] # "none"
    /\ phase \in {"post", "final", "done"} =>
         \A o \in AssimObs : flags[o] = pass => hofx[o] = "valid"

(* A missing predictor does not make the bias missing.                      *)
BiasInv == \A o \in AssimObs : bias[o] = "valid"

ErrorInv ==
  NoInflation =>
    /\ \A o \in Obs : obserr[o] # "spurious"
    /\ phase = "done" => \A o \in Obs : flags[o] = pass => o \in AssimObs /\ obserr[o] = "valid"

(* `set' and `unset' find the diagnostic flag if a filter that creates it   *)
(* for the variable runs earlier, by stage first and by position second.    *)
RunsBefore(i, j) ==
  LET stage(k) == Sched!PhaseNumber[Sched!Due(k)] IN
  stage(i) < stage(j) \/ (stage(i) = stage(j) /\ i < j)

Creates(i, v) == chain[i].kind = "CreateDiagnosticFlags" /\ (chain[i].vars = {} \/ v \in chain[i].vars)

FlagsCreatedInTime ==
  \A i \in Index : \A v \in ObsVars :
    (Has(i, "set") \/ Has(i, "unset")) /\ (chain[i].vars = {} \/ v \in chain[i].vars)
      => \E j \in Index : Creates(j, v) /\ RunsBefore(j, i)

DiagnosticFlagsFound ==
  FlagsCreatedInTime /\ driver = "operator" => thrown # "NoDiagnosticFlag"

(* The reason is that the flag stays once the loop of its stage has got     *)
(* past a filter that creates it.                                          *)
CreatedInv ==
  driver = "operator" /\ phase # "threw" =>
    \A i \in Index, v \in ObsVars :
      Creates(i, v) /\ Sched!Passed(Sched!Due(i), i) => v \in diagVars

(* The flag of an observation as the users of the QC flags see it (module   *)
(* ObsVerdict): passive and the flags of the filters are reasons.           *)
Verdict == INSTANCE ObsVerdict WITH
             verdict   <- flags,
             closed    <- phase = "done",
             Candidate <- pass,
             Absent    <- missing,
             Defects   <- {preQC, Hfailed},
             Unused    <- processed,
             Reasons   <- QCFlag \ {pass, missing, preQC, Hfailed, processed}

(* Every chain without `flag original and averaged profiles' obeys the      *)
(* rules of ObsVerdict.                                                     *)
ImplementsVerdict == Verdict!Spec

(* Once a filter with `flag original and averaged profiles' has rejected   *)
(* part of a profile, no later filter brings the averaged profile back.     *)
(* Its flag is taken to be used by no other filter of the chain.            *)
FlagsProfiles(i) ==
  /\ Has(i, "flag original and averaged profiles")
  /\ \A j \in Index \ {i} : chain[j].qcFlag # chain[i].qcFlag
  /\ \A j \in Index : ~Has(j, "accept")

OriginalFlagged(i, p, v) == \E k \in p.original : flags[v, k] = chain[i].qcFlag

AveragedFollowsOriginal ==
  \A i \in Index, p \in Profiles, v \in ObsVars :
    FlagsProfiles(i) /\ OriginalFlagged(i, p, v) =>
      \A l \in p.averaged : flags[v, l] # pass

(* The reason is that the averaged profile is not even marked as missing,   *)
(* from which an assignment could bring it back.  As the actions that change *)
(* flags come last, the flag of a filter with `flag original and averaged   *)
(* profiles' is given by that action alone.                                *)
ProfileInv ==
  /\ phase = "create" => flags = [o \in Obs |-> pass]
  /\ phase # "threw" => \A i \in Index : Sched!Passed("construct", i) => ActionsInOrder(chain[i])
  /\ \A i \in Index, p \in Profiles, v \in ObsVars :
       FlagsProfiles(i) /\ OriginalFlagged(i, p, v) =>
         \A l \in p.averaged : flags[v, l] \notin {pass, missing}

ChainInv == /\ RunningInv /\ ValueInv /\ HofXInv /\ BiasInv
            /\ ErrorInv /\ CreatedInv /\ ProfileInv

-----------------------------------------------------------------------------
(* Statements of the sources that the chain does not keep in general.       *)

(* The assertions of BackgroundCheck::applyFilter.                          *)
BackgroundCheckAssertsHold == thrown # "BackgroundCheckAssert"

(* FinalCheck.h: the QC flag of all observations with missing error         *)
(* estimates is set to missing; so what passes has an error estimate.       *)
MissingErrorsExcluded ==
  phase = "done" => \A o \in AssimObs : flags[o] = pass => obserr[o] = "valid"

(* QCflags.h: missing values prevent use of observation.                    *)
MissingValuesExcluded ==
  phase = "done" => \A o \in AssimObs : flags[o] = pass => o \in present

(* FilterParametersBase.h: the filter variables, which default to all       *)
(* simulated variables, are the only ones whose QC flags or error estimates *)
(* may be modified.                                                         *)
OnlyFilterVariablesModified ==
  [][pending # << >> =>
       LET declared == IF chain[Running].vars # {} THEN chain[Running].vars ELSE AssimVars IN
       \A o \in Obs : o[1] \notin declared => flags'[o] = flags[o] /\ obserr'[o] = obserr[o]]_vars

(* FlagOriginalAndAveragedProfiles.h: all observations in any averaged      *)
(* profile whose original profile contains a flagged observation are        *)
(* rejected.                                                                *)
AveragedProfilesRejected ==
  [][FlagProfiles =>
       \A p \in Profiles, o \in flagged :
         o[2] \in p.original => \A l \in p.averaged : flags'[o[1], l] # pass]_vars

=============================================================================
