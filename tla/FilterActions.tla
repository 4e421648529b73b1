---------------------------- MODULE FilterActions ----------------------------
(***************************************************************************)
(* The actions of ufo/filters/actions and the other places that write QC   *)
(* flags, as operators.  An observation is a pair <<variable, location>>.  *)
(* flags maps observations to QC flags and obserr maps them to the state   *)
(* of their error estimate; flagged is the set of the observations of the  *)
(* filter variables that the filter has flagged.                           *)
(***************************************************************************)
EXTENDS QCFlags

(* An error estimate is a number, the missing value indicator, or what is  *)
(* left of that indicator (or of an estimate scaled by it) after a         *)
(* multiplication: a float that means nothing and equals no indicator.     *)
ObsErrState == {"valid", "missing", "spurious"}

(* Mutant: an earlier rejection is overwritten.                            *)
RejectObsAlways(flags, flagged, filterQCflag) ==
  [o \in DOMAIN flags |-> IF o \in flagged THEN filterQCflag ELSE flags[o]]

RejectObs(flags, flagged, filterQCflag) ==
  [o \in DOMAIN flags |->
     IF o \in flagged /\ flags[o] = pass THEN filterQCflag ELSE flags[o]]

(* Mutant: the defective observations are accepted as well.                *)
AcceptObsAll(flags, flagged) ==
  [o \in DOMAIN flags |-> IF o \in flagged THEN pass ELSE flags[o]]

AcceptObs(flags, flagged) ==
  [o \in DOMAIN flags |->
     IF o \in flagged /\ ~isDefective(flags[o]) THEN pass ELSE flags[o]]

PassivateObs(flags, flagged) ==
  [o \in DOMAIN flags |->
     IF o \in flagged /\ flags[o] = pass THEN passive ELSE flags[o]]

(* `inflate error': undefined is the set of observations at which the      *)
(* inflation variable is missing, empty for a constant inflation factor.   *)
(* The product is formed whatever the factors are.                         *)
InflateError(obserr, flags, flagged, undefined) ==
  [o \in DOMAIN obserr |->
     IF o \in flagged /\ flags[o] = pass /\ (obserr[o] # "valid" \/ o \in undefined)
       THEN "spurious" ELSE obserr[o]]

(* `assign error': undefined is the set of observations at which the error *)
(* function is missing, empty for an error parameter.                      *)
AssignError(obserr, flags, flagged, undefined) ==
  [o \in DOMAIN obserr |->
     IF o \in flagged /\ flags[o] = pass /\ o \notin undefined
       THEN "valid" ELSE obserr[o]]

Ignored(flag, ignore) == \/ ignore = "rejected observations" /\ isRejected(flag)
                         \/ ignore = "defective observations" /\ isDefective(flag)

(* `set' and `unset': diag is the set of observations whose diagnostic     *)
(* flag is true.                                                           *)
SetFlag(diag, flags, flagged, value, ignore) ==
  LET changed == {o \in flagged : ~Ignored(flags[o], ignore)} IN
  IF value THEN diag \cup changed ELSE diag \ changed

(* The observations `flag original and averaged profiles' rejects in the   *)
(* original profiles, and all those of a variable in the averaged profile  *)
(* of a profile in which it rejects one.                                   *)
NewlyRejected(flags, flagged, profiles) ==
  {o \in flagged \cap DOMAIN flags :
     flags[o] = pass /\ \E p \in profiles : o[2] \in p.original}

AveragedOf(rejected, flags, profiles) ==
  {o \in DOMAIN flags :
     \E p \in profiles : o[2] \in p.averaged
                         /\ \E k \in p.original : <<o[1], k>> \in rejected}

(* Mutant: the averaged profile is flagged where the filter has flagged it. *)
FlagOriginalOnly(flags, flagged, filterQCflag, profiles) ==
  LET rejected == NewlyRejected(flags, flagged, profiles) IN
  [o \in DOMAIN flags |->
     IF o \in rejected \cup (AveragedOf(rejected, flags, profiles) \cap flagged)
       THEN filterQCflag ELSE flags[o]]

FlagOriginalAndAveragedProfiles(flags, flagged, filterQCflag, profiles) ==
  LET rejected == NewlyRejected(flags, flagged, profiles) IN
  [o \in DOMAIN flags |->
     IF o \in rejected \cup AveragedOf(rejected, flags, profiles)
       THEN filterQCflag ELSE flags[o]]

(* What VariableAssignment and the variable transforms do after storing    *)
(* new values of the variables vars: present is the set of observations    *)
(* that now have a value.                                                  *)
(* Mutant: every missing flag is lifted.                                   *)
UpdateQCFlagsBlindly(flags, vars, present) ==
  [o \in DOMAIN flags |->
     IF o[1] \in vars /\ flags[o] = missing THEN pass ELSE flags[o]]

UpdateQCFlags(flags, vars, present) ==
  [o \in DOMAIN flags |->
     IF o[1] \notin vars                            THEN flags[o]
     ELSE IF flags[o] = missing /\ o \in present    THEN pass
     ELSE IF flags[o] = pass    /\ o \notin present THEN missing
     ELSE flags[o]]

=============================================================================
