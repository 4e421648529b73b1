------------------------------ MODULE ObsVerdict ------------------------------
(***************************************************************************)
(* What the QC promises about the life of an observation, without saying   *)
(* how filters are scheduled or what they look at.  An observation is a    *)
(* candidate for assimilation, absent (it has no value), defective         *)
(* (rejected by its producer, or without H(x)), or rejected for one of the *)
(* Reasons a check may give.  In the end some are unused, whatever they    *)
(* were.                                                                   *)
(***************************************************************************)
CONSTANTS Obs, Candidate, Absent, Defects, Reasons, Unused

Verdicts == {Candidate, Absent, Unused} \cup Defects \cup Reasons

VARIABLES verdict, closed

vars == <<verdict, closed>>

Init == verdict = [o \in Obs |-> Candidate] /\ closed = FALSE

(* Only a candidate is judged.  A rejection can be taken back and a missing *)
(* value can be supplied; either makes the observation a candidate again.   *)
(* There is no way back for a defective one, and no verdict replaces        *)
(* another directly: the reason given is the first that applied.            *)
Revised(old, new) == \/ new = old
                     \/ old = Candidate
                     \/ old \notin Defects /\ new = Candidate

Judge ==
  /\ ~closed /\ UNCHANGED closed
  /\ verdict' \in [Obs -> Verdicts]
  /\ \A o \in Obs : Revised(verdict[o], verdict'[o])

(* The final check may still find a candidate absent and leave observations *)
(* unused.  It admits none, and changes no other verdict.                   *)
Close ==
  /\ ~closed /\ closed' = TRUE
  /\ verdict' \in [Obs -> Verdicts]
  /\ \A o \in Obs :
       \/ verdict'[o] = verdict[o]
       \/ verdict[o] = Candidate /\ verdict'[o] = Absent
       \/ verdict'[o] = Unused

Next == Judge \/ Close

Spec == Init /\ [][Next]_vars

=============================================================================
