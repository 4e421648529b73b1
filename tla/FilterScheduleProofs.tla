-------------------------- MODULE FilterScheduleProofs --------------------------
(***************************************************************************)
(* Proofs about FilterSchedule: in any chain of filters, each of them runs *)
(* at most once, in the stage it is meant for and with its data.           *)
(***************************************************************************)
EXTENDS FilterSchedule, TLAPS

(* The types of the variables are preserved.                               *)
LEMMA InitTypeOK == Init => TypeOK
  BY ChainsAssumption DEF Init, TypeOK, IsChain, Index, Phases, Drivers

LEMMA NextTypeOK == TypeOK /\ [Next]_schedVars => TypeOK'
<1> SUFFICES ASSUME TypeOK, [Next]_schedVars PROVE TypeOK'
  OBVIOUS
<1>0. chain' = chain /\ driver' = driver /\ Index' = Index /\ Len(chain) \in Nat
  BY DEF TypeOK, IsChain, Next, schedVars, Index, CreateQCmanager, Construct, PreProcess,
         PriorFilter, PostFilter, MoveTo, EndConstruct, EndPreProcess, EndPriorFilter,
         SimulateObs, QCmanagerPostFilter, EndPostFilter, FinalCheck, Throw, Stopped
<1>1. IsChain(chain')
  BY <1>0 DEF TypeOK
<1> USE <1>0, <1>1
<1>b. CASE Construct
  <2>1. prior' \in [Index -> BOOLEAN] /\ post' \in [Index -> BOOLEAN]
    BY <1>b DEF TypeOK, Construct
  <2> QED
    BY <1>b, <2>1 DEF TypeOK, Construct, Index
<1>c. CASE PreProcess
  <2>1. /\ prior' \in [Index -> BOOLEAN] /\ post' \in [Index -> BOOLEAN]
        /\ ran' \in [Index -> Nat]
    BY <1>c DEF TypeOK, PreProcess
  <2>2. next' \in 1 .. Len(chain) + 1
    BY <1>c DEF TypeOK, PreProcess, Index
  <2> QED
    BY <1>c, <2>1, <2>2 DEF TypeOK, PreProcess
<1>d. CASE PriorFilter
  <2>1. associated' \in [Index -> SUBSET Groups] /\ ran' \in [Index -> Nat]
    BY <1>d DEF TypeOK, PriorFilter, Groups
  <2> QED
    BY <1>d, <2>1 DEF TypeOK, PriorFilter, Index
<1>e. CASE PostFilter
  <2>1. associated' \in [Index -> SUBSET Groups] /\ ran' \in [Index -> Nat]
    BY <1>e DEF TypeOK, PostFilter
  <2> QED
    BY <1>e, <2>1 DEF TypeOK, PostFilter, Index
<1>f. CASE \E p \in Phases : MoveTo(p)
  BY <1>f DEF TypeOK, MoveTo, Phases
<1>g. CASE Throw
  BY <1>g DEF TypeOK, Throw, Phases
<1>h. CASE UNCHANGED schedVars
  BY <1>h DEF TypeOK, schedVars
<1> QED
  BY <1>b, <1>c, <1>d, <1>e, <1>f, <1>g, <1>h
     DEF Next, CreateQCmanager, EndConstruct, EndPreProcess, EndPriorFilter, SimulateObs,
         QCmanagerPostFilter, EndPostFilter, FinalCheck, Stopped, Phases

(* The flags, counters and positions of the schedule keep their types,     *)
(* whatever filters are configured and however they are interleaved.       *)
THEOREM TypeCorrect == Spec => []TypeOK
<1>1. Init => TypeOK
  BY InitTypeOK
<1>2. TypeOK /\ [Next]_schedVars => TypeOK'
  BY NextTypeOK
<1> QED
  BY <1>1, <1>2, PTL DEF Spec

-----------------------------------------------------------------------------
(* The stage of a filter never changes, and it is one of the three loops.  *)

LEMMA DueValue == ASSUME NEW i PROVE Due(i) \in {"pre", "prior", "post", "never"}
  BY DEF Due

LEMMA SameDue ==
  ASSUME chain' = chain, NEW i
  PROVE /\ Due(i)' = Due(i) /\ DataAvailable(i)' = DataAvailable(i)
        /\ Staged(i)' = Staged(i)
  BY DEF Due, DataAvailable, Staged, WaitsForHofX, Needs

LEMMA SameVisited ==
  ASSUME chain' = chain, driver' = driver, NEW p
  PROVE Visited(p)' = Visited(p)
  BY DEF Visited, GeoVaLsRequired, Needs, Index

(* A step that neither passes a filter nor changes what is stored about it  *)
(* keeps the filter as it is.                                               *)
LEMMA KeepsFilter ==
  ASSUME ScheduleInv, phase # "threw", phase' # "threw",
         chain' = chain, driver' = driver,
         NEW i \in Index,
         prior'[i] = prior[i], post'[i] = post[i], ran'[i] = ran[i],
         Passed("construct", i)' = Passed("construct", i),
         Passed("pre", i)' = Passed("pre", i),
         Visited(Due(i)) => Passed(Due(i), i)' = Passed(Due(i), i)
  PROVE StageFlagsSet(i)'
        /\ ran'[i] = (IF Passed(Due(i), i)' /\ Visited(Due(i))' THEN 1 ELSE 0)
<1>1. Due(i)' = Due(i) /\ DataAvailable(i)' = DataAvailable(i) /\ Staged(i)' = Staged(i)
  BY SameDue
<1>2. Visited(Due(i))' = Visited(Due(i))
  BY <1>1, SameVisited
<1> QED
  BY <1>1, <1>2 DEF ScheduleInv, StageFlagsSet

(* In a loop only the filter that is called is passed.                     *)
LEMMA LoopStepPassed ==
  ASSUME phase \in {"construct", "pre", "prior", "post"}, phase' = phase,
         Len(chain) \in Nat, next \in Index, next' = next + 1,
         NEW i \in Index, NEW p \in {"construct", "pre", "prior", "post", "never"}
  PROVE /\ i # next => Passed(p, i)' = Passed(p, i)
        /\ p # phase => Passed(p, i)' = Passed(p, i)
        /\ i = next => Passed(phase, i)' /\ ~Passed(phase, i)
  BY DEF Passed, PhaseNumber, Index

(* When the driver moves on, it has passed every filter in the loop that   *)
(* has ended, and none in the one that starts; a loop that is skipped is   *)
(* not visited.                                                            *)
LEMMA MovePassed ==
  ASSUME TypeOK, ScheduleInv, NEW i \in Index, NEW p \in {"construct", "pre", "prior", "post", "never"},
         \/ CreateQCmanager
         \/ EndConstruct \/ EndPreProcess \/ EndPriorFilter \/ SimulateObs
         \/ QCmanagerPostFilter \/ EndPostFilter \/ FinalCheck
  PROVE Visited(p) => Passed(p, i)' = Passed(p, i)
<1> USE DEF Passed, PhaseNumber, Index, TypeOK, IsChain, MoveTo, LoopEnded
<1>1. CASE CreateQCmanager
  BY <1>1 DEF CreateQCmanager
<1>2. CASE EndConstruct
  BY <1>2 DEF EndConstruct
<1>5. CASE SimulateObs \/ QCmanagerPostFilter
  BY <1>5 DEF SimulateObs, QCmanagerPostFilter
<1>6. CASE EndPostFilter \/ FinalCheck
  BY <1>6 DEF EndPostFilter, FinalCheck
<1>3. CASE EndPreProcess
  <2> USE DEF EndPreProcess, Visited, Drivers
  <2>1. CASE phase' = "prior"
    BY <1>3, <2>1
  <2>2. CASE phase' = "simulate"
    BY <1>3, <2>2
  <2>3. CASE phase' = "final"
    BY <1>3, <2>3
  <2> QED BY <1>3, <2>1, <2>2, <2>3
<1>4. CASE EndPriorFilter
  BY <1>4 DEF EndPriorFilter, Visited, Drivers
<1> QED
  BY <1>1, <1>2, <1>3, <1>4, <1>5, <1>6

-----------------------------------------------------------------------------
(* The invariant.                                                          *)

LEMMA InitScheduleInv == Init => ScheduleInv
<1> SUFFICES ASSUME Init PROVE ScheduleInv
  OBVIOUS
<1>1. \A i \in Index : ~Passed("construct", i) /\ ~Passed("pre", i) /\ ~Passed(Due(i), i)
  BY DueValue DEF Init, Passed, PhaseNumber
<1> QED
  BY <1>1 DEF Init, ScheduleInv, StageFlagsSet

(* What the call of a filter in a loop has to establish about that filter, *)
(* every other one keeping what it has.                                    *)
LEMMA LoopStep ==
  ASSUME TypeOK, ScheduleInv, phase \in {"construct", "pre", "prior", "post"}, phase' = phase,
         chain' = chain, driver' = driver, next \in Index, next' = next + 1,
         \A i \in Index : i # next =>
            prior'[i] = prior[i] /\ post'[i] = post[i] /\ ran'[i] = ran[i],
         ran'[next] \in {0, 1},
         \A i \in Index : i = next =>
            /\ StageFlagsSet(i)'
            /\ ran'[i] = IF Passed(Due(i), i)' /\ Visited(Due(i))' THEN 1 ELSE 0
  PROVE  ScheduleInv'
<1>1. Index' = Index /\ Len(chain) \in Nat /\ phase # "threw"
  BY DEF Index, TypeOK, IsChain
<1>2. ASSUME NEW i \in Index, i # next
      PROVE  /\ StageFlagsSet(i)'
             /\ ran'[i] = IF Passed(Due(i), i)' /\ Visited(Due(i))' THEN 1 ELSE 0
  <2>1. /\ Passed("construct", i)' = Passed("construct", i)
        /\ Passed("pre", i)' = Passed("pre", i)
        /\ Passed(Due(i), i)' = Passed(Due(i), i)
    BY <1>1, <1>2, LoopStepPassed, DueValue, SameDue
  <2> QED
    BY <1>1, <1>2, <2>1, KeepsFilter
<1>3. Visited("prior")' = Visited("prior") /\ Visited("post")' = Visited("post")
  BY SameVisited
<1> QED
  BY <1>1, <1>2, <1>3 DEF ScheduleInv

LEMMA NextScheduleInv == TypeOK /\ ScheduleInv /\ [Next]_schedVars => ScheduleInv'
<1> SUFFICES ASSUME TypeOK, ScheduleInv, [Next]_schedVars PROVE ScheduleInv'
  OBVIOUS
<1>0. Index' = Index /\ Len(chain) \in Nat
  BY DEF TypeOK, IsChain, Next, schedVars, Index, CreateQCmanager, Construct, PreProcess,
         PriorFilter, PostFilter, MoveTo, EndConstruct, EndPreProcess, EndPriorFilter,
         SimulateObs, QCmanagerPostFilter, EndPostFilter, FinalCheck, Throw, Stopped
<1>b. CASE Construct
  <2> USE <1>b DEF Construct
  <2>1. ASSUME NEW i \in Index, i = next
        PROVE  /\ StageFlagsSet(i)'
               /\ ran'[i] = IF Passed(Due(i), i)' /\ Visited(Due(i))' THEN 1 ELSE 0
    <3>1. /\ Due(i)' = Due(i) /\ DataAvailable(i)' = DataAvailable(i)
          /\ Staged(i)' = Staged(i) /\ Visited(Due(i))' = Visited(Due(i))
      BY SameDue, SameVisited
    <3>2. /\ Passed("construct", i)' /\ ~Passed("construct", i)
          /\ ~Passed("pre", i) /\ ~Passed("pre", i)'
          /\ Passed(Due(i), i)' = Passed(Due(i), i)
      BY <2>1, LoopStepPassed, DueValue, <1>0, <3>1 DEF Passed, PhaseNumber
    <3>3. ran'[i] = ran[i] /\ StageFlagsSet(i)
          /\ ran[i] = IF Passed(Due(i), i) /\ Visited(Due(i)) THEN 1 ELSE 0
      BY DEF ScheduleInv
    <3>4. prior'[i] = Staged(i) /\ post'[i] = Staged(i)
      BY <2>1, <3>2, <3>3 DEF TypeOK, StageFlagsSet, Staged
    <3> QED
      BY <2>1, <3>1, <3>2, <3>3, <3>4 DEF StageFlagsSet
  <2> QED
    BY <2>1, <1>0, LoopStep DEF TypeOK, ScheduleInv
<1>c. CASE PreProcess
  <2> USE <1>c DEF PreProcess
  <2>1. ASSUME NEW i \in Index, i = next
        PROVE  /\ StageFlagsSet(i)'
               /\ ran'[i] = IF Passed(Due(i), i)' /\ Visited(Due(i))' THEN 1 ELSE 0
    <3>1. /\ Due(i)' = Due(i) /\ DataAvailable(i)' = DataAvailable(i)
          /\ Staged(i)' = Staged(i) /\ Visited(Due(i))' = Visited(Due(i))
      BY SameDue, SameVisited
    <3>2. /\ Passed("construct", i)' = Passed("construct", i) /\ Passed("construct", i)
          /\ ~Passed("pre", i) /\ Passed("pre", i)'
          /\ Due(i) # "pre" => ~Passed(Due(i), i) /\ ~Passed(Due(i), i)'
      BY <2>1, LoopStepPassed, DueValue, <1>0, <3>1 DEF Passed, PhaseNumber
    <3>3. StageFlagsSet(i)
          /\ ran[i] = IF Passed(Due(i), i) /\ Visited(Due(i)) THEN 1 ELSE 0
      BY DEF ScheduleInv
    <3>4. /\ prior'[i] = (prior[i] \/ (Called(i, "PRE") /\ ~WaitsForHofX(i) /\ Needs(i, {"GeoVaLs"})))
          /\ post'[i] = (post[i] \/ (Called(i, "PRE") /\ WaitsForHofX(i)))
          /\ ran'[i] = IF RunsInPre(i) THEN 1 ELSE 0
      BY <2>1, <3>2, <3>3, DueValue DEF TypeOK
    <3>5. RunsInPre(i) <=> Due(i) = "pre"
      BY <3>2, <3>3
         DEF RunsInPre, Due, Called, TypeOK, IsChain, Lists, Index, StageFlagsSet,
             DataAvailable, WaitsForHofX, Needs, Groups, HofXGroups
    <3>6. /\ prior'[i] <=> Staged(i) \/ Due(i) = "prior"
          /\ post'[i] <=> Staged(i) \/ Due(i) = "post"
      BY <3>2, <3>3, <3>4 DEF StageFlagsSet, Due, Called, Staged
    <3>7. Visited("pre")
      BY DEF Visited
    <3> QED
      BY <3>1, <3>2, <3>3, <3>4, <3>5, <3>6, <3>7 DEF StageFlagsSet
  <2> QED
    BY <2>1, <1>0, LoopStep DEF TypeOK, ScheduleInv
<1>d. CASE PriorFilter
  <2> USE <1>d DEF PriorFilter
  <2>1. ASSUME NEW i \in Index, i = next
        PROVE  /\ StageFlagsSet(i)'
               /\ ran'[i] = IF Passed(Due(i), i)' /\ Visited(Due(i))' THEN 1 ELSE 0
    <3>1. /\ Due(i)' = Due(i) /\ DataAvailable(i)' = DataAvailable(i)
          /\ Staged(i)' = Staged(i) /\ Visited(Due(i))' = Visited(Due(i))
      BY SameDue, SameVisited
    <3>2. /\ Passed("construct", i)' = Passed("construct", i) /\ Passed("construct", i)
          /\ Passed("pre", i)' = Passed("pre", i) /\ Passed("pre", i)
          /\ ~Passed("prior", i) /\ Passed("prior", i)'
          /\ Due(i) # "prior" => Passed(Due(i), i) = Passed(Due(i), i)'
      BY <2>1, LoopStepPassed, DueValue, <1>0, <3>1 DEF Passed, PhaseNumber
    <3>3. StageFlagsSet(i)
          /\ ran[i] = IF Passed(Due(i), i) /\ Visited(Due(i)) THEN 1 ELSE 0
      BY DEF ScheduleInv
    <3>4. StageFlagsSet(i)'
      BY <3>1, <3>2, <3>3 DEF StageFlagsSet
    <3>5. RunsInPrior(i) <=> Due(i) = "prior"
      BY <3>2, <3>3
         DEF RunsInPrior, Due, Called, TypeOK, IsChain, Lists, Index, StageFlagsSet, Staged
    <3>6. ran'[i] = IF RunsInPrior(i) THEN 1 ELSE ran[i]
      BY <2>1, <3>2, <3>3, <3>5 DEF TypeOK
    <3>7. Visited("prior")
      BY DEF ScheduleInv
    <3> QED
      BY <3>1, <3>2, <3>3, <3>4, <3>5, <3>6, <3>7
  <2> QED
    BY <2>1, <1>0, LoopStep DEF TypeOK, ScheduleInv
<1>e. CASE PostFilter
  <2> USE <1>e DEF PostFilter
  <2>1. ASSUME NEW i \in Index, i = next
        PROVE  /\ StageFlagsSet(i)'
               /\ ran'[i] = IF Passed(Due(i), i)' /\ Visited(Due(i))' THEN 1 ELSE 0
    <3>1. /\ Due(i)' = Due(i) /\ DataAvailable(i)' = DataAvailable(i)
          /\ Staged(i)' = Staged(i) /\ Visited(Due(i))' = Visited(Due(i))
      BY SameDue, SameVisited
    <3>2. /\ Passed("construct", i)' = Passed("construct", i) /\ Passed("construct", i)
          /\ Passed("pre", i)' = Passed("pre", i) /\ Passed("pre", i)
          /\ ~Passed("post", i) /\ Passed("post", i)'
          /\ Due(i) # "post" => Passed(Due(i), i) = Passed(Due(i), i)'
      BY <2>1, LoopStepPassed, DueValue, <1>0, <3>1 DEF Passed, PhaseNumber
    <3>3. StageFlagsSet(i)
          /\ ran[i] = IF Passed(Due(i), i) /\ Visited(Due(i)) THEN 1 ELSE 0
      BY DEF ScheduleInv
    <3>4. StageFlagsSet(i)'
      BY <3>1, <3>2, <3>3 DEF StageFlagsSet
    <3>5. RunsInPost(i) <=> Due(i) = "post"
      BY <3>2, <3>3
         DEF RunsInPost, Due, Called, TypeOK, IsChain, Lists, Index, StageFlagsSet, Staged
    <3>6. ran'[i] = IF RunsInPost(i) THEN 1 ELSE ran[i]
      BY <2>1, <3>2, <3>3, <3>5 DEF TypeOK
    <3>7. Visited("post")
      BY DEF ScheduleInv
    <3> QED
      BY <3>1, <3>2, <3>3, <3>4, <3>5, <3>6, <3>7
  <2> QED
    BY <2>1, <1>0, LoopStep DEF TypeOK, ScheduleInv
<1>f. CASE CreateQCmanager \/ EndConstruct \/ EndPreProcess \/ EndPriorFilter
           \/ SimulateObs \/ QCmanagerPostFilter \/ EndPostFilter \/ FinalCheck
  <2>1. UNCHANGED <<chain, driver, prior, post, ran>> /\ phase # "threw" /\ phase' # "threw"
    BY <1>f DEF CreateQCmanager, EndConstruct, EndPreProcess, EndPriorFilter, SimulateObs,
                QCmanagerPostFilter, EndPostFilter, FinalCheck, MoveTo, LoopEnded
  <2>2. ASSUME NEW i \in Index
        PROVE  /\ StageFlagsSet(i)'
               /\ ran'[i] = IF Passed(Due(i), i)' /\ Visited(Due(i))' THEN 1 ELSE 0
    <3>1. Visited("construct") /\ Visited("pre")
      BY DEF Visited
    <3>2. /\ Passed("construct", i)' = Passed("construct", i)
          /\ Passed("pre", i)' = Passed("pre", i)
          /\ Visited(Due(i)) => Passed(Due(i), i)' = Passed(Due(i), i)
      <4>1. ASSUME NEW p \in {"construct", "pre", "prior", "post", "never"}
            PROVE  Visited(p) => Passed(p, i)' = Passed(p, i)
        BY <1>f, MovePassed
      <4>2. Due(i)' = Due(i)
        BY <2>1, SameDue
      <4>3. Visited(Due(i)) => Passed(Due(i), i)' = Passed(Due(i), i)
        BY <4>1, <4>2, DueValue
      <4> QED
        BY <3>1, <4>1, <4>3
    <3> QED
      BY <2>1, <3>2, KeepsFilter
  <2>3. Visited("prior")' = Visited("prior") /\ Visited("post")' = Visited("post")
    BY <2>1, SameVisited
  <2>4. phase' = "prior" => Visited("prior")
    BY <1>f DEF CreateQCmanager, EndConstruct, EndPreProcess, EndPriorFilter, SimulateObs,
                QCmanagerPostFilter, EndPostFilter, FinalCheck, MoveTo, Visited
  <2>5. phase' \in {"simulate", "manager", "post"} => Visited("post")
    BY <1>f DEF CreateQCmanager, EndConstruct, EndPreProcess, EndPriorFilter, SimulateObs,
                QCmanagerPostFilter, EndPostFilter, FinalCheck, MoveTo, Visited, ScheduleInv
  <2> QED
    BY <1>0, <2>1, <2>2, <2>3, <2>4, <2>5 DEF ScheduleInv
<1>g. CASE Throw
  BY <1>0, <1>g DEF Throw, ScheduleInv
<1>h. CASE UNCHANGED schedVars
  <2>1. ASSUME NEW i \in Index
        PROVE  Due(i)' = Due(i) /\ Visited(Due(i))' = Visited(Due(i))
    BY <1>h, SameDue, SameVisited DEF schedVars
  <2>2. Visited("prior")' = Visited("prior") /\ Visited("post")' = Visited("post")
    BY <1>h, SameVisited DEF schedVars
  <2>3. ASSUME NEW i \in Index, NEW p
        PROVE  Passed(p, i)' = Passed(p, i)
    BY <1>h DEF schedVars, Passed
  <2> QED
    BY <1>0, <1>h, <2>1, <2>2, <2>3, KeepsFilter DEF schedVars, ScheduleInv
<1> QED
  BY <1>b, <1>c, <1>d, <1>e, <1>f, <1>g, <1>h DEF Next, Stopped

-----------------------------------------------------------------------------

(* prior_ and post_, the counters and the position in the chain agree with *)
(* the stage each filter is meant for, at every moment of every execution. *)
THEOREM ScheduleInvariant == Spec => []ScheduleInv
<1>1. Init => ScheduleInv
  BY InitScheduleInv
<1>2. TypeOK /\ ScheduleInv /\ [Next]_schedVars => ScheduleInv'
  BY NextScheduleInv
<1> QED
  BY <1>1, <1>2, TypeCorrect, PTL DEF Spec

(* Each filter runs at most once, not before its stage has come, and (the   *)
(* operator supplying H(x)) it has run when its stage is over, for all      *)
(* chains of all lengths.                                                   *)
THEOREM FiltersRunOnceWhenDue == Spec => []RunsOnceWhenDue
<1>1. ScheduleInv => RunsOnceWhenDue
  BY DEF ScheduleInv, RunsOnceWhenDue, Visited
<1> QED
  BY <1>1, ScheduleInvariant, PTL

(* The filter that a call of oops executes has been associated with all     *)
(* groups of variables it refers to, whatever its list and its needs.       *)
THEOREM FiltersRunWithTheirData == Spec => RunsWithItsData
<1> DEFINE Associated ==
      \A i \in Index : ran'[i] # ran[i] => chain[i].groups \subseteq associated'[i]
<1>1. TypeOK /\ ScheduleInv /\ [Next]_schedVars => [Associated]_schedVars
  <2> SUFFICES ASSUME TypeOK, ScheduleInv, Next,
                      NEW i \in Index, ran'[i] # ran[i]
               PROVE  chain[i].groups \subseteq associated'[i]
    BY DEF schedVars
  <2>0. chain[i].groups \subseteq Groups /\ chain[i].list \in Lists
    BY DEF TypeOK, IsChain, Index
  <2>1. \/ PreProcess /\ i = next /\ RunsInPre(i)
        \/ PriorFilter /\ i = next /\ RunsInPrior(i)
        \/ PostFilter /\ i = next /\ RunsInPost(i)
    BY DEF Next, TypeOK, CreateQCmanager, Construct, PreProcess, PriorFilter, PostFilter, MoveTo,
           EndConstruct, EndPreProcess, EndPriorFilter, SimulateObs, QCmanagerPostFilter,
           EndPostFilter, FinalCheck, Throw, Stopped, schedVars
  <2>2. phase # "threw" => StageFlagsSet(i)
    BY DEF ScheduleInv
  <2>3. CASE PreProcess /\ i = next /\ RunsInPre(i)
    BY <2>0, <2>3 DEF RunsInPre, WaitsForHofX, Needs, Groups, HofXGroups
  <2>4. CASE PriorFilter /\ i = next /\ RunsInPrior(i)
    <3>1. ~Needs(i, HofXGroups)
      <4>1. Passed("construct", i)
        BY <2>4 DEF PriorFilter, Passed, PhaseNumber
      <4>2. CASE Staged(i)
        BY <2>0, <2>2, <2>4, <4>1, <4>2
           DEF PriorFilter, StageFlagsSet, DataAvailable, RunsInPrior, Called, Staged
      <4>3. CASE ~Staged(i)
        BY <2>2, <2>4, <4>3
           DEF PriorFilter, StageFlagsSet, RunsInPrior, Staged, Due, WaitsForHofX
      <4> QED BY <4>2, <4>3
    <3>2. associated'[i] = associated[i] \cup {"GeoVaLs"}
      BY <2>4 DEF PriorFilter, RunsInPrior, TypeOK
    <3> QED
      BY <2>0, <3>1, <3>2 DEF Needs, Groups
  <2>5. CASE PostFilter /\ i = next /\ RunsInPost(i)
    BY <2>0, <2>5 DEF PostFilter, TypeOK
  <2> QED
    BY <2>1, <2>3, <2>4, <2>5
<1>2. RunsWithItsData <=> [][Associated]_schedVars
  BY DEF RunsWithItsData
<1> QED
  BY <1>1, <1>2, TypeCorrect, ScheduleInvariant, PTL DEF Spec

=============================================================================
