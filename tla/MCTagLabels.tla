----------------------------- MODULE MCTagLabels -----------------------------
(***************************************************************************)
(* Values of TagLabels' constants for TLC.                                 *)
(***************************************************************************)
EXTENDS TagLabels, TLC

CONSTANTS core, state

\* A family of cpu and tcpu with two labels of its own and two with one, of which the
\* second finds the first one's name in the spare room; a computed metric has none.
Labelled == <<<<core, state>>, <<core>>, <<state>>, <<>>>>

Symmetry == Permutations(AllTags \ OwnNames) \cup Permutations(Workers)
=============================================================================
