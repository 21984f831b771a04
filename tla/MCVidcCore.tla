---------------------------- MODULE MCVidcCore ----------------------------
(* Model-checking instance of VidcCore: sessions are model values.  The   *)
(* runs check safety only, so the sessions may be declared symmetric.      *)
EXTENDS VidcCore, TLC

CONSTANTS i1, i2, i3

Symm == Permutations(Insts)
=============================================================================
