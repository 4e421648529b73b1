------------------------- MODULE MCProfileDataHandler -------------------------
(* Two records of two observations each, or of one and three: contiguous    *)
(* and sorted or not, selected entirely or in part.  Groups of checks of    *)
(* one profile, of the sample and of one profile again, or two filters.     *)
(* Three observations show QC flags that do not exist, and records that are *)
(* neither contiguous nor validated.                                       *)
EXTENDS ProfileDataHandler

Sample(nums, sort, apply, groups, inObsdb, nErrorsFail, errorsPerProfile) ==
  [profileNums |-> nums, sort |-> sort, ValidateTotalNumProf |-> TRUE,
   apply |-> apply, groups |-> groups, inObsdb |-> inObsdb,
   nErrorsFail |-> nErrorsFail, errorsPerProfile |-> errorsPerProfile,
   holdsReport |-> inObsdb = {"flags", "report"}]

Alternating == <<"profile", "sample", "profile">>
TwoFilters  == <<"profile", "filter", "profile", "sample">>
Both        == {"flags", "report"}

MCSamples ==
  {Sample(n[1], n[2], n[3], g, Both, e[1], e[2]) :
     n \in {<< <<0, 0, 1, 1>>, "none", 1 .. 4>>, << <<0, 0, 1, 1>>, "none", {2, 3}>>,
           << <<0, 0, 1, 1>>, "descending", 1 .. 4>>, << <<2, 5, 5, 5>>, "descending", 2 .. 4>>,
           << <<0, 1, 1, 0>>, "none", 1 .. 4>>, << <<0, 1, 1, 0>>, "descending", 1 .. 4>>,
           << <<0, 0, 1, 1>>, "ascending", 1 .. 4>>, << <<0, 0, 1, 1>>, "descending", {1, 3, 4}>>},
     g \in {Alternating, TwoFilters}, e \in {<<0, TRUE>>, <<1, FALSE>>}}
  \cup
  {Sample(<<0, 0, 1>>, "none", 1 .. 3, Alternating, db, 1, FALSE) : db \in {{}, {"report"}}}
  \cup
  {[Sample(n, "none", 1 .. Len(n), Alternating, Both, 0, e) EXCEPT !.ValidateTotalNumProf = FALSE] :
     n \in {<<0, 0, 1, 1>>, <<0, 1, 0>>}, e \in BOOLEAN}

ASSUME ProfilesAssumption

=============================================================================
