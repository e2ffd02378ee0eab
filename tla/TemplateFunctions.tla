-------------------------- MODULE TemplateFunctions --------------------------
(***************************************************************************)
(* The functions of a ComputeLogic (templatefunctions.go), of arguments    *)
(* that are numbers.  Each goes over its arguments in order, from a start  *)
(* value of 0.  A list among them is passed on as the one argument of a    *)
(* call of the same function, which finds it among its arguments again:    *)
(* the calls never end, so that no value is defined for it here.           *)
(***************************************************************************)
EXTENDS Integers, SequencesExt

FunctionNames == {"sum", "average", "count", "max", "min"}

\* Mutant: the first argument is left out.
sumOfRest(args) == IF args = <<>> THEN 0 ELSE FoldLeft(LAMBDA s, x : s + x, 0, Tail(args))

sum(args) == FoldLeft(LAMBDA s, x : s + x, 0, args)

count(args) == Len(args)

\* 0/0 is no number; any other quotient is kept as its two parts.
NoNumber == <<0, 0>>

average(args) == IF args = <<>> THEN NoNumber ELSE <<sum(args), count(args)>>

max(args) == FoldLeft(LAMBDA s, x : IF x > s THEN x ELSE s, 0, args)

min(args) == FoldLeft(LAMBDA s, x : IF x < s THEN x ELSE s, 0, args)

\* What init enters under each name; a result is a pair, for the average's sake.
Apply(function, args) ==
  CASE function = "sum"     -> <<sum(args), 1>>
    [] function = "average" -> average(args)
    [] function = "count"   -> <<count(args), 1>>
    [] function = "max"     -> <<max(args), 1>>
    [] function = "min"     -> <<min(args), 1>>
=============================================================================
