---------------------------------- MODULE Where ----------------------------------
(***************************************************************************)
(* processWhere: the `where' clause of a filter, which selects the         *)
(* locations the filter applies to.  The clause is a list of items, each   *)
(* with a variable, which may have several channels, and some tests; the   *)
(* results of all tests at a location are joined by one operator.          *)
(*                                                                         *)
(* Values of all types are integers, those of diagnostic flags 0 and 1; the *)
(* patterns of matches_regex, matches_wildcard and matches_any_wildcard are *)
(* the sets of values that match them.                                     *)
(***************************************************************************)
EXTENDS Integers, SequencesExt

CONSTANTS
  Clauses,      \* clauses with the data they are applied to, see WhereAssumption
  MissingBits   \* the bits that are set in the missing value of integers

MissingValue == -100   \* of every type

(* The order in which the tests of an item are made.                       *)
Tests == << "min_max", "is_defined", "is_not_defined", "is_in", "is_close_to_any_of",
            "is_not_in", "is_not_close_to_any_of", "is_true", "is_false",
            "any_bit_set_of", "any_bit_unset_of", "matches" >>

IsSequence(s) == Len(s) \in Nat /\ DOMAIN s = 1 .. Len(s)

(* The values of variables are sequences over the locations.  An item maps  *)
(* the names of its tests to their arguments; a bound that is not given is  *)
(* an empty set.                                                           *)
ASSUME WhereAssumption ==
  \A x \in Clauses :
    /\ x.operator \in {"and", "or"}
    /\ x.nlocs \in Nat
    /\ IsSequence(x.params)
    /\ \A p \in DOMAIN x.params :
         /\ DOMAIN x.params[p].tests \subseteq ToSet(Tests)
         /\ "min_max" \in DOMAIN x.params[p].tests =>
              LET bounds == x.params[p].tests["min_max"] IN
              /\ bounds.min \subseteq Int /\ bounds.max \subseteq Int
              /\ \A b, c \in bounds.min : b = c
              /\ \A b, c \in bounds.max : b = c
         /\ IsSequence(x.params[p].variables)
         /\ \A v \in DOMAIN x.params[p].variables :
              LET var == x.params[p].variables[v] IN
              /\ var.dtype \in {"Integer", "Float", "String", "DateTime", "Flag", "None"}
              /\ var.values \in [1 .. x.nlocs -> Int]

VARIABLES clause,
          selection   \* the mask of the locations selected

whereVars == <<clause, selection>>

NotYet  == <<"not yet">>
Thrown  == <<"thrown">>

WhereInit == clause \in Clauses /\ selection = NotYet

-----------------------------------------------------------------------------
Exists(var) == var.dtype # "None"

(* A test asks for a type it can handle.                                   *)
Accepts(test, arg, var) ==
  CASE test = "min_max" -> var.dtype \in {"Integer", "Float", "DateTime"}
    [] test = "is_defined" -> var.dtype \in {"Integer", "Float", "String", "None"}
    [] test = "is_not_defined" -> var.dtype \in {"Integer", "Float", "String"}
    [] test \in {"is_in", "is_not_in", "matches"} -> var.dtype \in {"Integer", "String"}
    [] test \in {"is_close_to_any_of", "is_not_close_to_any_of"} ->
         var.dtype = "Float" /\ arg.kind \in {"absolute", "relative"}
    [] test = "is_true" -> var.dtype \in {"Flag", "None"}
    [] test = "is_false" -> var.dtype = "Flag"
    [] OTHER -> var.dtype = "Integer"

(* is_approximately_equal, of a library: a negative tolerance needs equality. *)
Approximately(x, y, tolerance) ==
  x = y \/ LET d == IF x < y THEN y - x ELSE x - y IN d <= tolerance

(* A relative tolerance is a percentage of the value compared with.         *)
Close(arg, x) ==
  \E t \in arg.values :
    IF arg.kind = "absolute" THEN Approximately(x, t, arg.tolerance)
    ELSE Approximately(100 * x, 100 * t, t * arg.tolerance)

BitsOf(x) == IF x = MissingValue THEN MissingBits
             ELSE {b \in 0 .. 31 : b < 8 /\ (x \div 2 ^ b) % 2 = 1}

(* A value that is missing passes the tests of bounds, but not is_not_in    *)
(* unless it is a string, nor is_not_close_to_any_of if there is a value to *)
(* compare with.                                                           *)
PassesTest(test, arg, var, x) ==
  CASE test = "min_max" ->
         \/ x = MissingValue
         \/ (\A b \in arg.min : x >= b) /\ (\A b \in arg.max : x <= b)
    [] test = "is_defined"     -> Exists(var) /\ x # MissingValue
    [] test = "is_not_defined" -> x = MissingValue
    [] test = "is_in"          -> x \in arg
    [] test = "is_not_in"      -> x \notin arg /\ (var.dtype = "Integer" => x # MissingValue)
    [] test = "is_close_to_any_of"     -> Close(arg, x)
    [] test = "is_not_close_to_any_of" ->
         ~ Close(arg, x) /\ (arg.values # {} => x # MissingValue)
    [] test = "is_true"  -> Exists(var) /\ x = 1
    [] test = "is_false" -> x # 1
    [] test = "any_bit_set_of"   -> BitsOf(x) \cap arg # {}
    [] test = "any_bit_unset_of" -> ~ arg \subseteq BitsOf(x)
    [] test = "matches" -> x \in arg

-----------------------------------------------------------------------------
Locations(x) == 1 .. x.nlocs
Everywhere(x, value) == [l \in Locations(x) |-> value]

(* The tests of the values of a variable, in order.                        *)
TestsOf(item, variable) ==
  FlattenSeq([k \in DOMAIN Tests |->
    IF Tests[k] \in DOMAIN item.tests
      THEN <<[test |-> Tests[k], arg |-> item.tests[Tests[k]], var |-> variable]>>
      ELSE <<>>])

(* All those of a clause; metadata of variables are left out.              *)
Comparisons(x) ==
  FlattenSeq([p \in DOMAIN x.params |->
    LET item == x.params[p] IN
    FlattenSeq([v \in DOMAIN item.variables |->
      IF item.variables[v].group = "VarMetaData" THEN <<>>
      ELSE TestsOf(item, item.variables[v])])])

(* A test clears the mask of the locations that fail.                      *)
Clear(mask, c) ==
  [l \in DOMAIN mask |-> mask[l] /\ PassesTest(c.test, c.arg, c.var, c.var.values[l])]

ApplyWhereOperator(operator, whereTest, where) ==
  [l \in DOMAIN where |-> IF operator = "and" THEN where[l] /\ whereTest[l]
                                              ELSE where[l] \/ whereTest[l]]

(* Mutant: the mask of the previous test is not set to true again.         *)
CompareStale(x, s, c) ==
  LET whereTest == Clear(s.whereTest, c) IN
  [whereTest |-> whereTest, where |-> ApplyWhereOperator(x.operator, whereTest, s.where)]

(* s holds the mask of the last test and that of all tests so far.          *)
Compare(x, s, c) ==
  LET whereTest == Clear(Everywhere(x, TRUE), c) IN
  [whereTest |-> whereTest, where |-> ApplyWhereOperator(x.operator, whereTest, s.where)]

Start(x) == [whereTest |-> Everywhere(x, TRUE),
             where     |-> Everywhere(x, x.operator = "and" \/ x.params = <<>>)]

Selection(x) ==
  LET made == Comparisons(x)
      after[k \in 0 .. Len(made)] ==
        IF k = 0 THEN Start(x) ELSE Compare(x, after[k - 1], made[k])
  IN after[Len(made)].where

Throws(x) == \E k \in DOMAIN Comparisons(x) :
               LET c == Comparisons(x)[k] IN ~ Accepts(c.test, c.arg, c.var)

ProcessWhere ==
  /\ selection = NotYet
  /\ selection' = IF Throws(clause) THEN Thrown ELSE Selection(clause)
  /\ UNCHANGED clause

WhereDone == selection # NotYet /\ UNCHANGED whereVars

WhereNext == ProcessWhere \/ WhereDone

WhereSpec == WhereInit /\ [][WhereNext]_whereVars

-----------------------------------------------------------------------------
(* Properties.  A clause and its opposite.                                 *)

HasOpposite(test, arg) ==
  CASE test = "min_max" -> (arg.min = {}) # (arg.max = {})
    [] test \in {"any_bit_set_of", "any_bit_unset_of"} -> \E b \in arg : arg = {b}
    [] OTHER -> test # "matches"

OppositeTest ==
  [min_max |-> "min_max", is_defined |-> "is_not_defined", is_not_defined |-> "is_defined",
   is_in |-> "is_not_in", is_not_in |-> "is_in",
   is_close_to_any_of |-> "is_not_close_to_any_of",
   is_not_close_to_any_of |-> "is_close_to_any_of",
   is_true |-> "is_false", is_false |-> "is_true",
   any_bit_set_of |-> "any_bit_unset_of", any_bit_unset_of |-> "any_bit_set_of"]

OppositeArgument(test, arg) ==
  IF test # "min_max" THEN arg
  ELSE [min |-> {b + 1 : b \in arg.max}, max |-> {b - 1 : b \in arg.min}]

OppositeItem(item) ==
  [variables |-> item.variables,
   tests |-> [t \in {OppositeTest[u] : u \in DOMAIN item.tests} |->
                LET u == CHOOSE u \in DOMAIN item.tests : OppositeTest[u] = t
                IN OppositeArgument(u, item.tests[u])]]

Opposite(x) ==
  [operator |-> IF x.operator = "and" THEN "or" ELSE "and",
   nlocs    |-> x.nlocs,
   params   |-> [p \in DOMAIN x.params |-> OppositeItem(x.params[p])]]

Opposable(x) ==
  /\ Comparisons(x) # <<>>
  /\ \A k \in DOMAIN Comparisons(x) :
       HasOpposite(Comparisons(x)[k].test, Comparisons(x)[k].arg)

HasAllValues(x, l) ==
  \A k \in DOMAIN Comparisons(x) : Comparisons(x)[k].var.values[l] # MissingValue

(* Two filters, one with the opposite tests of the other joined by the      *)
(* other operator, share out the locations between them, wherever no value  *)
(* is missing: none is processed twice or left out.                        *)
OppositesShareLocations ==
  selection \notin {NotYet, Thrown} /\ Opposable(clause) /\ ~ Throws(Opposite(clause)) =>
    \A l \in Locations(clause) :
      HasAllValues(clause, l) => selection[l] # Selection(Opposite(clause))[l]

=============================================================================
