-------------------------------- MODULE Sums --------------------------------
(***************************************************************************)
(* Sums over finite sets of rows: what SUM(...) and Array.reduce compute.  *)
(***************************************************************************)
EXTENDS Integers, FiniteSets, Functions

\* Sum of f(x) over a finite set of indices.
SumOver(S, f(_)) == SumFunctionOnSet([x \in S |-> f(x)], S)
=============================================================================
