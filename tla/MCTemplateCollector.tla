------------------------ MODULE MCTemplateCollector ------------------------
(***************************************************************************)
(* Values of TemplateCollector's constants for TLC.                        *)
(***************************************************************************)
EXTENDS TemplateCollector, TLC

CONSTANTS c1, c2

Over(f) == [computed |-> TRUE, parsed |-> TRUE, function |-> f, core |-> All,
            scalar |-> TRUE, nested |-> FALSE]
OneCore == [Over("sum") EXCEPT !.computed = FALSE, !.core = c1]

\* Each function over all cores and one core's number taken over as it is; and what
\* the types do not refuse: time_total without a mode, a plain metric without a
\* core, an expression that did not parse, a list inside the arguments.
EveryConfig == {<<>>, <<Over("sum")>>, <<Over("average"), OneCore>>,
  <<Over("count"), [Over("sum") EXCEPT !.scalar = FALSE]>>,
  <<OneCore, [OneCore EXCEPT !.core = All]>>,
  <<Over("max"), [Over("sum") EXCEPT !.parsed = FALSE]>>,
  <<Over("min"), [Over("sum") EXCEPT !.nested = TRUE]>>}
OnlySum == {<<Over("sum")>>}

\* Rows that differ from core to core and from query to query.
Readings == (c1 :> [r \in 0..MaxRuns |-> r]) @@ (c2 :> [r \in 0..MaxRuns |-> 3 * r])

\* The cores are told apart, by the configurations and the readings.
Symmetry == Permutations(Workers)
============================================================================
