---------------------------- MODULE MCHifAsync ----------------------------
(* Model-checking instance of HifAsync.  Callers are model values that no  *)
(* definition tells apart, so they are symmetric; bus requests are indices *)
(* whose free-list order matters, so they are not.                         *)
EXTENDS HifAsync, TLC

CONSTANTS c1, c2

Symm == Permutations(Callers)
=============================================================================
