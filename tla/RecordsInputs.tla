----------------------------- MODULE RecordsInputs -----------------------------
(* The tables and the where clauses of MCRecords.                            *)
EXTENDS Integers, Sequences

-----------------------------------------------------------------------------
(* Tables of three rows and two columns.  The rows are indexed by a         *)
(* categorical coordinate, which may be missing, and by one of floats, which *)
(* needs sorting, has ties and gaps; the columns by floats.                  *)

LookedUp == 0 .. 2

NoCategory == -1

Categorical(a) == [dim |-> 1, isFloat |-> FALSE, values |-> a]
Floats(d, b) == [dim |-> d, isFloat |-> TRUE, values |-> b]

Instruct(coord, method, extrap, choice) ==
  [coord |-> coord, method |-> method, extrapMode |-> extrap, choice |-> choice]

Exactly == Instruct("category", "exact", "error", "first")
Column  == Instruct("column", "nearest", "nearest", "last")
Row(m, e) == Instruct("row", m, e, "first")

Tables ==
  [category : {Categorical(a) : a \in {<<0, 0, 1>>, <<NoCategory, 1, 1>>, <<1, NoCategory, 0>>}},
   row      : {Floats(1, b) : b \in {<<2, 0, 1>>, <<2, 2, 0>>, <<0, 2, 1>>}},
   column   : {Floats(2, c) : c \in {<<2, 0>>, <<1, 1>>}}]

Distinct(f) == \A i, j \in DOMAIN f : i # j => f[i] # f[j]

Input(t, s, m, f) ==
  [size |-> <<3, 2>>, coords |-> t, schedule |-> s, missing |-> m, floatPayload |-> f]

RowMethods == {Row("nearest", "error"), Row("nearest", "nearest"), Row("lub", "error"),
               Row("glb", "error"), Row("glb", "nearest"), Row("linear", "error"),
               Row("linear", "nearest")}

(* A coordinate of floats is the last of its dimension to be matched.       *)
MatchInputs ==
  {Input(t, s, {}, TRUE) :
     t \in Tables, s \in {<<Exactly, Column, r>> : r \in RowMethods}
                           \cup {<<Column, Instruct("category", "glb", "nearest", "first"), r>> :
                                   r \in RowMethods}}

BilinearPair == <<Row("bilinear", "error"), Instruct("column", "bilinear", "nearest", "first")>>

(* All the rows and columns take part, and have distinct coordinates.       *)
BilinearInputs ==
  {Input(t, BilinearPair, m, TRUE) :
     t \in {u \in Tables : Distinct(u.row.values) /\ Distinct(u.column.values)},
     m \in {{}, {<<1, 1>>, <<1, 2>>}, {<<1, 1>>, <<3, 2>>}, {1, 2, 3} \X {1, 2}}}

MCTableInputs == MatchInputs \cup BilinearInputs

(* A value in bounds, with the extrapolation mode `missing'.                *)
MissingInputs ==
  {Input(t, <<Exactly, Column, Row("nearest", "missing")>>, {}, TRUE) : t \in Tables}

(* Another coordinate follows one of floats along the same dimension.       *)
FloatThenCategoryInputs ==
  {Input(t, <<Row("nearest", "nearest"), Exactly, Column>>, {}, TRUE) : t \in Tables}

(* A bilinear interpolation in a table of one row.                         *)
SingleRowInputs ==
  {[Input([row |-> Floats(1, <<1>>), column |-> Floats(2, <<0, 2>>)],
          <<Instruct("row", "bilinear", "nearest", "first"), BilinearPair[2]>>, {}, TRUE)
      EXCEPT !.size = <<1, 2>>]}

(* Rows are selected before a bilinear interpolation, next to a row of      *)
(* another category with the same coordinate.                               *)
ConstrainedInputs ==
  {Input([category |-> Categorical(<<0, 1, 1>>), row |-> Floats(1, <<0, 0, 2>>),
          column |-> Floats(2, <<0, 2>>)], <<Exactly>> \o BilinearPair, {}, TRUE)}

-----------------------------------------------------------------------------
(* Where clauses of up to two items with one or two tests each, for two      *)
(* locations; the variable of the first is of integers, that of the second  *)
(* of floats, or of diagnostic flags, or does not exist, or is metadata.    *)

NoValue == -100

Variable(group, dtype, values) == [group |-> group, dtype |-> dtype, values |-> values]

Integers2 == {Variable("ObsValue", "Integer", v) : v \in [1 .. 2 -> {1, 2, NoValue}]}

Others ==
  {Variable("ObsValue", "Float", v) : v \in [1 .. 2 -> {-2, 1, NoValue}]} \cup
  {Variable("DiagnosticFlags", "Flag", <<1, 0>>),
   Variable("ObsValue", "None", <<NoValue, NoValue>>),
   Variable("VarMetaData", "Integer", <<1, 2>>)}

Tolerance(kind, t, s) == [kind |-> kind, tolerance |-> t, values |-> s]

IntegerTests ==
  {[is_in |-> {1}], [is_in |-> {1}, is_not_in |-> {2}], [is_not_defined |-> {}],
   [min_max |-> [min |-> {2}, max |-> {}], any_bit_unset_of |-> {0}],
   [any_bit_set_of |-> {0, 1}], [matches |-> {2}]}

OtherTests ==
  {[is_close_to_any_of |-> Tolerance("absolute", 1, {0})],
   [is_not_close_to_any_of |-> Tolerance("relative", 50, {2}), is_defined |-> {}],
   [is_true |-> {}], [is_true |-> {}, is_false |-> {}], [is_defined |-> {}]}

Item(variable, tests) == [variables |-> <<variable>>, tests |-> tests]

WhereInputs ==
  {[operator |-> o, nlocs |-> 2, params |-> p] :
     o \in {"and", "or"},
     p \in {<<>>} \cup {<<Item(i, s), Item(x, t)>> :
              i \in Integers2, s \in IntegerTests, x \in Others, t \in OtherTests}}

=============================================================================
