---------------------------- MODULE FilterSchedule ----------------------------
(***************************************************************************)
(* When each filter of a chain runs.                                       *)
(*                                                                         *)
(* oops::ObsFilters holds the filters of one observation type and calls    *)
(* preProcess, priorFilter and postFilter on them: before the model state  *)
(* is interpolated, after it is, and after H(x) is computed.  Each filter  *)
(* decides in ObsProcessorBase, from the data it needs, in which of the    *)
(* three calls its doFilter() runs (AUTO), or is told so by the list of    *)
(* the configuration it stands in (PRE, PRIOR, POST).  What doFilter()     *)
(* does is left out here: it returns or throws.                            *)
(***************************************************************************)
EXTENDS Integers, Sequences

CONSTANT Chains   \* the filter lists that may be configured

(* The groups of variables that the program does not have from the start.  *)
HofXGroups == {"HofX", "ObsDiag", "ObsBiasData"}
Groups     == HofXGroups \cup {"GeoVaLs"}
Lists      == {"AUTO", "PRE", "PRIOR", "POST"}

(* A chain is one `obs filters' list, or the concatenation of the `obs pre  *)
(* filters', `obs prior filters' and `obs post filters' lists; oops refuses *)
(* a mix (the "incompatible filter stages" case of filter_stage.yaml).      *)
IsChain(c) ==
  /\ Len(c) \in Nat
  /\ \A i \in 1 .. Len(c) : /\ c[i].groups \subseteq Groups
                            /\ c[i].defer \in BOOLEAN
                            /\ c[i].list \in Lists
  /\ \A i, j \in 1 .. Len(c) : c[i].list = "AUTO" => c[j].list = "AUTO"

ASSUME ChainsAssumption == \A c \in Chains : IsChain(c)

(* Where H(x) comes from: a file, the observation operator, or nowhere.    *)
Drivers == {"file", "operator", "none"}

Phases == {"create", "construct", "pre", "prior", "simulate", "manager",
           "post", "final", "done", "threw"}

VARIABLES
  chain,       \* the configured filters, in the order they are called
  driver,      \* the source of H(x)
  phase,       \* where the driver is
  next,        \* the filter the current loop over the chain is about to call
  prior,       \* prior_ of each filter: run in priorFilter
  post,        \* post_ of each filter: run in postFilter
  associated,  \* the groups each filter's data_ has been associated with
  ran          \* how often doFilter of each filter has run (history)

schedVars == <<chain, driver, phase, next, prior, post, associated, ran>>

Index == 1 .. Len(chain)

Needs(i, groups) == chain[i].groups \cap groups # {}

(* Mutant: the bias data are forgotten among the groups that come with H(x). *)
WaitsForHofXNoBias(i) == Needs(i, {"HofX", "ObsDiag"}) \/ chain[i].defer

(* The condition preProcess tests first.                                   *)
WaitsForHofX(i) == Needs(i, HofXGroups) \/ chain[i].defer

(* oops calls an AUTO filter in each of the three loops and any other one  *)
(* only in the loop its list is named after.                               *)
Called(i, list) == chain[i].list \in {"AUTO", list}

(* ObsFilters::requiredVars, which collects what the filters ask for.      *)
GeoVaLsRequired == \E i \in Index : Needs(i, {"GeoVaLs"})

-----------------------------------------------------------------------------

Init ==
  /\ chain \in Chains
  /\ driver \in Drivers
  /\ phase = "create"
  /\ next = 1
  /\ prior = [i \in Index |-> FALSE]
  /\ post  = [i \in Index |-> FALSE]
  /\ associated = [i \in Index |-> {}]
  /\ ran = [i \in Index |-> 0]

(* checkFilterData throws when a staged filter asks for data that its      *)
(* stage does not have.                                                    *)
DataAvailable(i) ==
  CASE chain[i].list = "PRE"   -> ~Needs(i, Groups)
    [] chain[i].list = "PRIOR" -> ~Needs(i, HofXGroups)
    [] OTHER                   -> TRUE

(* A filter is constructed and its list is made known to it.               *)
Construct ==
  /\ phase = "construct" /\ next \in Index
  /\ DataAvailable(next)
  /\ IF chain[next].list = "AUTO"
       THEN UNCHANGED <<prior, post>>
       ELSE /\ prior' = [prior EXCEPT ![next] = TRUE]
            /\ post'  = [post  EXCEPT ![next] = TRUE]
  /\ next' = next + 1
  /\ UNCHANGED <<chain, driver, phase, associated, ran>>

RunsInPre(i) ==
  Called(i, "PRE") /\ ~WaitsForHofX(i) /\ ~Needs(i, {"GeoVaLs"})

(* Mutant: the test for GeoVaLs is not in the else branch.                 *)
PreProcessBothStages ==
  /\ phase = "pre" /\ next \in Index
  /\ post'  = [post EXCEPT ![next] =
                 @ \/ (Called(next, "PRE") /\ WaitsForHofX(next))]
  /\ prior' = [prior EXCEPT ![next] =
                 @ \/ (Called(next, "PRE") /\ Needs(next, {"GeoVaLs"}))]
  /\ ran'   = [ran EXCEPT ![next] = IF RunsInPre(next) THEN @ + 1 ELSE @]
  /\ next'  = next + 1
  /\ UNCHANGED <<chain, driver, phase, associated>>

(* Mutant: the option `defer to post' keeps a filter from running at once   *)
(* but does not make it run later.                                         *)
PreProcessLosesDeferred ==
  /\ phase = "pre" /\ next \in Index
  /\ post'  = [post EXCEPT ![next] =
                 @ \/ (Called(next, "PRE") /\ Needs(next, HofXGroups))]
  /\ prior' = [prior EXCEPT ![next] =
                 @ \/ (/\ Called(next, "PRE")
                       /\ ~WaitsForHofX(next)
                       /\ Needs(next, {"GeoVaLs"}))]
  /\ ran'   = [ran EXCEPT ![next] = IF RunsInPre(next) THEN @ + 1 ELSE @]
  /\ next'  = next + 1
  /\ UNCHANGED <<chain, driver, phase, associated>>

PreProcess ==
  /\ phase = "pre" /\ next \in Index
  /\ post'  = [post EXCEPT ![next] =
                 @ \/ (Called(next, "PRE") /\ WaitsForHofX(next))]
  /\ prior' = [prior EXCEPT ![next] =
                 @ \/ (/\ Called(next, "PRE")
                       /\ ~WaitsForHofX(next)
                       /\ Needs(next, {"GeoVaLs"}))]
  /\ ran'   = [ran EXCEPT ![next] = IF RunsInPre(next) THEN @ + 1 ELSE @]
  /\ next'  = next + 1
  /\ UNCHANGED <<chain, driver, phase, associated>>

RunsInPrior(i) == Called(i, "PRIOR") /\ prior[i]

PriorFilter ==
  /\ phase = "prior" /\ next \in Index
  /\ associated' = [associated EXCEPT ![next] =
                      IF Called(next, "PRIOR") /\ (prior[next] \/ post[next])
                        THEN @ \cup {"GeoVaLs"} ELSE @]
  /\ ran'  = [ran EXCEPT ![next] = IF RunsInPrior(next) THEN @ + 1 ELSE @]
  /\ next' = next + 1
  /\ UNCHANGED <<chain, driver, phase, prior, post>>

RunsInPost(i) == Called(i, "POST") /\ post[i]

PostFilter ==
  /\ phase = "post" /\ next \in Index
  /\ associated' = [associated EXCEPT ![next] =
                      IF RunsInPost(next) THEN Groups ELSE @]
  /\ ran'  = [ran EXCEPT ![next] = IF RunsInPost(next) THEN @ + 1 ELSE @]
  /\ next' = next + 1
  /\ UNCHANGED <<chain, driver, phase, prior, post>>

-----------------------------------------------------------------------------
(* The driver moves on when the loop over the filters has ended.           *)

MoveTo(p) ==
  /\ phase' = p
  /\ next' = 1
  /\ UNCHANGED <<chain, driver, prior, post, associated, ran>>

(* The QC manager is created before any filter of the chain.               *)
CreateQCmanager == phase = "create" /\ MoveTo("construct")

LoopEnded(p) == phase = p /\ next = Len(chain) + 1

EndConstruct == LoopEnded("construct") /\ MoveTo("pre")

(* With H(x) read from a file, or with none, priorFilter is only called    *)
(* when a filter asks for a GeoVaL.                                        *)
EndPreProcess ==
  /\ LoopEnded("pre")
  /\ \/ (driver = "operator" \/ GeoVaLsRequired) /\ MoveTo("prior")
     \/ driver = "file" /\ ~GeoVaLsRequired /\ MoveTo("simulate")
     \/ driver = "none" /\ ~GeoVaLsRequired /\ MoveTo("final")

EndPriorFilter ==
  /\ LoopEnded("prior")
  /\ MoveTo(IF driver = "none" THEN "final" ELSE "simulate")

SimulateObs == phase = "simulate" /\ MoveTo("manager")

(* The QC manager stands first, so its postFilter is the first call.       *)
QCmanagerPostFilter == phase = "manager" /\ MoveTo("post")

EndPostFilter == LoopEnded("post") /\ MoveTo("final")

FinalCheck == phase = "final" /\ MoveTo("done")

Ended == phase \in {"done", "threw"}

(* A constructor, checkFilterData or a doFilter throws; nobody catches it. *)
Throw ==
  /\ ~Ended
  /\ phase' = "threw"
  /\ UNCHANGED <<chain, driver, next, prior, post, associated, ran>>

(* The program has ended.                                                  *)
Stopped == Ended /\ UNCHANGED schedVars

Next == \/ CreateQCmanager
        \/ Construct \/ EndConstruct
        \/ PreProcess \/ EndPreProcess
        \/ PriorFilter \/ EndPriorFilter
        \/ SimulateObs \/ QCmanagerPostFilter
        \/ PostFilter \/ EndPostFilter
        \/ FinalCheck
        \/ Throw \/ Stopped

(* One thread executes the chain and does not stop between two calls.      *)
Fairness == WF_schedVars(Next)

Spec == Init /\ [][Next]_schedVars /\ Fairness

-----------------------------------------------------------------------------
(* Properties.                                                             *)

TypeOK ==
  /\ IsChain(chain)
  /\ driver \in Drivers
  /\ phase \in Phases
  /\ next \in 1 .. Len(chain) + 1
  /\ prior \in [Index -> BOOLEAN]
  /\ post \in [Index -> BOOLEAN]
  /\ associated \in [Index -> SUBSET Groups]
  /\ ran \in [Index -> Nat]

(* The stage a filter is meant for: that of its list or, for the filters   *)
(* of `obs filters', the first stage that has everything it asks for.      *)
(* `defer to post' excludes every stage but the last, so a filter of the   *)
(* pre list that carries it has none (checkFilterData takes no notice).    *)
Due(i) ==
  LET f == chain[i] IN
  CASE f.list = "POST"                                  -> "post"
    [] f.list = "PRIOR"                                 -> "prior"
    [] f.list = "PRE" /\ f.defer                        -> "never"
    [] f.list = "PRE" /\ ~f.defer                       -> "pre"
    [] f.list = "AUTO" /\ WaitsForHofX(i)               -> "post"
    [] f.list = "AUTO" /\ ~WaitsForHofX(i) /\ Needs(i, {"GeoVaLs"}) -> "prior"
    [] OTHER                                            -> "pre"

PhaseNumber == [create |-> 0, construct |-> 1, pre |-> 2, prior |-> 3,
                simulate |-> 4, manager |-> 5, post |-> 6, final |-> 7,
                done |-> 8, never |-> 9]

(* The loop of stage p has got past filter i.                              *)
Passed(p, i) == \/ PhaseNumber[phase] > PhaseNumber[p]
                \/ phase = p /\ next > i

(* No filter runs twice although prior_ and post_ of a staged filter are   *)
(* both set and every AUTO filter is called in all three loops; and none   *)
(* runs in another stage than the one it is meant for, or out of turn.     *)
RunsOnceWhenDue ==
  \A i \in Index :
    /\ ran[i] \in {0, 1}
    /\ phase # "threw" /\ ran[i] = 1 => Passed(Due(i), i)
    /\ phase # "threw" /\ Passed(Due(i), i) /\ driver = "operator" => ran[i] = 1

(* Whether the driver calls the filters of stage p at all.                 *)
Visited(p) == /\ p = "prior" => driver = "operator" \/ GeoVaLsRequired
              /\ p = "post"  => driver # "none"

Staged(i) == chain[i].list # "AUTO"

(* prior_ and post_ of a filter are what its list and the data it waits for *)
(* make them.                                                               *)
StageFlagsSet(i) ==
  /\ Passed("construct", i) => DataAvailable(i)
  /\ prior[i] <=> \/ Staged(i) /\ Passed("construct", i)
                  \/ ~Staged(i) /\ Due(i) = "prior" /\ Passed("pre", i)
  /\ post[i] <=> \/ Staged(i) /\ Passed("construct", i)
                 \/ ~Staged(i) /\ Due(i) = "post" /\ Passed("pre", i)

(* At any moment this holds of every filter, and it has run if and only if  *)
(* the loop of its stage has got past it.  The invariant is inductive and   *)
(* implies the other safety properties.                                     *)
ScheduleInv ==
  /\ \A i \in Index : ran[i] \in {0, 1}
  /\ phase = "prior" => Visited("prior")
  /\ phase \in {"simulate", "manager", "post"} => Visited("post")
  /\ phase # "threw" => \A i \in Index :
       /\ StageFlagsSet(i)
       /\ ran[i] = IF Passed(Due(i), i) /\ Visited(Due(i)) THEN 1 ELSE 0

(* When doFilter runs, everything the filter's where clause, parameters    *)
(* and actions refer to has been associated with its data_: no doFilter    *)
(* can find a GeoVaL, H(x), a bias or a diagnostic missing.                *)
RunsWithItsData ==
  [][\A i \in Index : ran'[i] # ran[i] => chain[i].groups \subseteq associated'[i]]_schedVars

(* A filter which has its data in some stage is executed, unless an        *)
(* exception ends the program: no combination of flags loses a filter.     *)
EveryFilterRuns ==
  (phase = "create" /\ driver = "operator") ~>
    (phase = "threw" \/ \A i \in Index : Due(i) # "never" => ran[i] = 1)

(* FilterParametersBase.h says of `defer to post': the filter will be      *)
(* executed only after the obs operator.                                   *)
DeferredRunsAfterOperator ==
  [][\A i \in Index : ran'[i] # ran[i] /\ chain[i].defer => phase = "post"]_schedVars

(* The same option promises that the filter will be executed.              *)
DeferredFilterRuns ==
  phase = "done" /\ driver = "operator" =>
    \A i \in Index : chain[i].defer => ran[i] = 1

=============================================================================
