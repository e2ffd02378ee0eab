------------------------------ MODULE MCScrape ------------------------------
(***************************************************************************)
(* Values of Scrape's constants for TLC: which kinds of collectors run     *)
(* together, and which instances their queries may return.                 *)
(***************************************************************************)
EXTENDS Scrape, TLC

CONSTANTS net, os, tcpu, a, b, lost

\* A collector with a metric per instance, and one that reads dst[0].
PlainKind == (net :> "rows") @@ (os :> "single")

\* Instances with labels of their own, and instances whose labels collide.
Apart    == [r \in Rows |-> r]
Together == [r \in Rows |-> a]

\* The templated tcpu, of two scrapes.
JustTemplate == (tcpu :> "template")

Symmetry == Permutations(Scrapes)
=============================================================================
