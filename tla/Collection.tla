----------------------------- MODULE Collection -----------------------------
(***************************************************************************)
(* What a run of a collector is to the rest of the program: the query      *)
(* fails, or gives items, each with a label; the items are shown one after *)
(* the other, an item whose label was shown before spoils the scrape, and  *)
(* the run returns when there is nothing left to show.  A panic may end    *)
(* the process.  Module Scrape sees a collector like this; module          *)
(* Collectors implements it.                                               *)
(***************************************************************************)
VARIABLES
  phase,    \* "query", "sending", "returned" or "dead"
  todo,     \* the items not shown yet
  shown,    \* the labels shown
  refused   \* a label was shown twice

vars == <<phase, todo, shown, refused>>

Init == phase = "query" /\ todo = {} /\ shown = {} /\ refused = FALSE

QueryFails ==
  phase = "query" /\ phase' = "returned" /\ UNCHANGED <<todo, shown, refused>>

\* Any items.
QueryReturns ==
  phase = "query" /\ phase' = "sending" /\ UNCHANGED <<shown, refused>>

Show(x) ==
  /\ phase = "sending" /\ todo' = todo \ {x}
  /\ refused' = (refused \/ x.label \in shown)
  /\ shown' = shown \cup {x.label}
  /\ UNCHANGED phase

Return ==
  phase = "sending" /\ todo = {} /\ phase' = "returned" /\ UNCHANGED <<todo, shown, refused>>

Panic == phase' = "dead" /\ UNCHANGED <<todo, shown, refused>>

Next == \/ QueryFails \/ QueryReturns \/ Return \/ Panic
        \/ \E x \in todo : Show(x)

Spec == Init /\ [][Next]_vars
=============================================================================
