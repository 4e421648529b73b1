--------------------------- MODULE MCObsFilterChain ---------------------------
(* Building blocks for the chains of the runs: one simulated variable t     *)
(* with values in the input file and one variable d that filters derive.    *)
EXTENDS ObsFilterChain, TLC

CONSTANTS t, d, l1, l2

Act(name) == [name |-> name, varying |-> FALSE, ignore |-> "none"]

Filter(kind, vs, act) ==
  [kind |-> kind, list |-> "AUTO", groups |-> {}, defer |-> FALSE, vars |-> vs,
   actions |-> act, qcFlag |-> black, threshold |-> "number", removeBias |-> FALSE,
   force |-> FALSE, initial |-> FALSE]

Check(act)      == Filter("PerformAction", {}, <<Act(act)>>)
Deferred(f)     == [f EXCEPT !.defer = TRUE]
In(l, f)        == [f EXCEPT !.list = l]
WithGeoVaLs(f)  == [f EXCEPT !.groups = {"GeoVaLs"}]

PreQCFilter     == [Filter("PreQC", {t}, <<Act("reject")>>) EXCEPT !.qcFlag = preQC]
DomainCheck     == Filter("ObsDomainCheck", {t, d}, <<Act("passivate")>>)
BgCheck         == [Filter("BackgroundCheck", {t}, <<Act("reject")>>)
                      EXCEPT !.groups = {"HofX"}, !.qcFlag = fguess]
UnbiasedBgCheck == [BgCheck EXCEPT !.groups = @ \cup {"ObsBiasData"}, !.removeBias = TRUE,
                                   !.threshold = "error"]
DataBgCheck     == [BgCheck EXCEPT !.threshold = "data"]
FunctionBgCheck == [BgCheck EXCEPT !.threshold = "function"]
Assignment      == Filter("VariableAssignment", {d}, << >>)
Reassignment    == Filter("VariableAssignment", {t}, << >>)
Transform       == Filter("VariableTransforms", {t, d}, << >>)
Create          == Filter("CreateDiagnosticFlags", {}, << >>)
SetAll          == Filter("PreQC", {}, <<[Act("set") EXCEPT !.ignore = "defective observations"],
                                         Act("reject")>>)
Unset           == [Check("unset") EXCEPT !.vars = {t}]
InflateByVar    == [Check("inflate error") EXCEPT !.actions[1].varying = TRUE]
AssignByFun     == [Check("assign error") EXCEPT !.actions[1].varying = TRUE]

MCVars == {t}
MCDerived == {d}
MCTwoVars == {t, d}
MCOneLoc == {l1}
MCTwoLocs == {l1, l2}
MCNone == {}
MCProfiles == {[original |-> {l1}, averaged |-> {l2}]}

Chain(n, fs) == UNION {[1 .. k -> fs] : k \in 1 .. n}

(* Run pipeline: any two filters of one list, d being an observed variable  *)
(* that is not simulated.                                                   *)
PipelineFilters ==
  {Check("reject"), Check("accept"), Deferred(Check("reject")), Deferred(Check("accept")),
   WithGeoVaLs(Check("reject")), PreQCFilter, DomainCheck, BgCheck, UnbiasedBgCheck,
   DataBgCheck, FunctionBgCheck,
   Reassignment, Transform, Deferred(Transform),
   Check("inflate error"), InflateByVar, AssignByFun}

ListOfTwo == Chain(2, PipelineFilters)

(* And filters of the pre, prior and post lists.                           *)
PreList   == {In("PRE", f) : f \in {Check("reject"), Check("accept"), Deferred(Check("reject"))}}
PriorList == {In("PRIOR", f) : f \in {WithGeoVaLs(Check("reject")), Transform, Check("accept")}}
PostList  == {In("POST", f) : f \in {BgCheck, Check("reject"), Check("accept"), Reassignment}}

StagedChains == {<<f, g, h>> : f \in PreList, g \in PriorList, h \in PostList}
                  \cup {<<g, h>> : g \in PriorList, h \in PostList}

PipelineChains == ListOfTwo \cup StagedChains

(* Run derived: d is simulated and does not exist until a filter writes it; *)
(* what is set and unset is the diagnostic flag.                            *)
DerivedFilters ==
  {Assignment, Deferred(Assignment), Create, WithGeoVaLs(Create), Deferred(Create),
   SetAll, Deferred(SetAll), Unset}

DerivedChains == {<<Assignment>> \o c : c \in Chain(2, DerivedFilters)}
                   \cup Chain(2, DerivedFilters)

(* Run profiles: l1 is a profile and l2 its average over model levels.      *)
ProfileCheck == [Filter("PreQC", {t}, <<Act("flag original and averaged profiles")>>)
                   EXCEPT !.qcFlag = 24]

ProfileChains == {<<f, g, h>> : f \in {PreQCFilter, ProfileCheck, Reassignment},
                                g \in {ProfileCheck, Deferred(ProfileCheck), Check("reject")},
                                h \in {BgCheck, Deferred(Check("accept")), Reassignment}}

(* Chains of a single purpose, one for each of the runs that show where a   *)
(* statement of the sources is not kept.                                    *)
AcceptAfterHofX  == {<<Check("reject"), Deferred(Check("accept")), BgCheck>>}
InflatedErrors   == {<<Check("inflate error"), Check("reject")>>}
AcceptedProfiles == {<<ProfileCheck, Check("accept"), Check("reject")>>}
DefaultVariables == {<<Check("reject"), BgCheck>>}
RejectedProfiles == {<<Check("reject"), ProfileCheck>>}

=============================================================================
