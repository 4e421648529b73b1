------------------------------- MODULE QCFlags -------------------------------
(***************************************************************************)
(* The QC flags of ufo/filters/QCflags.h.  A flag says why an observation  *)
(* of one variable at one location is not assimilated; pass says that      *)
(* nothing speaks against it so far.                                       *)
(***************************************************************************)
EXTENDS Integers

pass      == 0
passive   == 1
missing   == 10
preQC     == 11
black     == 14
Hfailed   == 15
fguess    == 19
processed == 29

(* 76 and 77 are the flags of the GNSSRO check; with 0, 1 and 10..29 they  *)
(* are the flags the destructor of QCmanager can account for.              *)
QCFlag == {pass, passive, 76, 77} \cup 10 .. 29

(* What qcFlag() of a filter may return: the filters that only compute     *)
(* something return pass; none returns passive, missing, Hfailed or         *)
(* processed, which the action `passivate', QCmanager, the assignments and *)
(* FinalCheck keep for themselves.                                         *)
FilterQCFlag == QCFlag \ {passive, missing, Hfailed, processed}

isRejected(flag) == flag # pass

isDefective(flag) == flag \in {missing, preQC, Hfailed}

=============================================================================
