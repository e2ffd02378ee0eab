---------------------------- MODULE MCCollectors ----------------------------
(***************************************************************************)
(* Values of Collectors' constants for TLC: the instances of each class,   *)
(* the lists and the configurations of the templates.                      *)
(***************************************************************************)
EXTENDS Collectors, TLC

\* Two names of each kind, the sum that cpu, iis and logical_disk skip, one that a
\* list leaves out, two NICs whose names become one, and the empty name.
NamesByClass ==
  [cpu |-> {"0", "1", "_Total"}, tcpu |-> {"0", "1", "_Total"},
   iis |-> {"a", "b", "_Total"}, logical_disk |-> {"C:", "D:", "_Total"},
   net |-> {"Intel[R]", "Intel(R)", "lo", ""}, service |-> {"dhcp", "w32time"}]

ListedByClass ==
  [iis |-> {"a", "_Total"}, logical_disk |-> {"C:", "D:", "_Total"},
   net |-> {"Intel[R]", "Intel(R)", ""}]

MangledName == ("Intel[R]" :> "Intel_R_") @@ ("Intel(R)" :> "Intel_R_") @@
               ("lo" :> "lo") @@ ("" :> "")

\* Nothing configured; two metrics over and instead of the template's own, of both
\* types; one name twice, the second time of another type; the name of one of tcpu's
\* families and of one of test's.
SomeExports ==
  {[drop |-> FALSE, names |-> <<>>, counters |-> {}],
   [drop |-> TRUE, names |-> <<>>, counters |-> {}],
   [drop |-> FALSE, names |-> <<"sum", "average">>, counters |-> {1}],
   [drop |-> TRUE, names |-> <<"sum", "average">>, counters |-> {}],
   [drop |-> TRUE, names |-> <<"sum", "sum">>, counters |-> {2}],
   [drop |-> FALSE, names |-> <<"time_total">>, counters |-> {1}],
   [drop |-> TRUE, names |-> <<"Test4">>, counters |-> {}]}
=============================================================================
