------------------------------ MODULE SetSums ------------------------------
(***************************************************************************)
(* The sum of numbers over a set.  A recursive function, like the ones of  *)
(* the community modules, but without an operator as a parameter, so that  *)
(* what it computes can be proved.                                         *)
(***************************************************************************)
EXTENDS Integers, FiniteSets

\* The sum of f[x] for the elements x of the finite set S.
SumOver(f, S) ==
    LET sum[T \in SUBSET S] ==
            IF T = {} THEN 0
            ELSE LET x == CHOOSE y \in T : TRUE IN f[x] + sum[T \ {x}]
    IN  sum[S]
=============================================================================
