-------------------------------- MODULE Sums --------------------------------
(***************************************************************************)
(* Sums over finite sets.                                                  *)
(***************************************************************************)
EXTENDS Integers, Folds

(* Sums of F[x] over the x of a finite set S.                              *)
SumOver(F, S) ==
  MapThenFoldSet(LAMBDA a, b : a + b, 0, LAMBDA x : F[x],
                 LAMBDA T : CHOOSE x \in T : TRUE, S)
=============================================================================
