------------------------------ MODULE MCConfig ------------------------------
(***************************************************************************)
(* Values of Config's constants for TLC: a collector with a regexp of its  *)
(* own, one without, and one that is not built in.                         *)
(***************************************************************************)
EXTENDS Config

MCReserved == {"/health", "/"}
MCPaths    == {"/metrics", "/other"} \cup MCReserved
MCPeriods  == {-1, 0, 1}
=============================================================================
