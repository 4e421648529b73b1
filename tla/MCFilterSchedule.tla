--------------------------- MODULE MCFilterSchedule ---------------------------
(* Chains of up to two filters, with every list, every combination of data  *)
(* that leads to a different decision and `defer to post' on and off.       *)
EXTENDS FilterSchedule

MCNeeds == {{}, {"GeoVaLs"}, {"HofX"}, {"GeoVaLs", "ObsDiag"}, {"ObsBiasData"}}

MCFilters == [list : Lists, groups : MCNeeds, defer : BOOLEAN]

MCMaxFilters == 2

MCChains == {c \in UNION {[1 .. k -> MCFilters] : k \in 0 .. MCMaxFilters} : IsChain(c)}

=============================================================================
