--------------------------- MODULE MCVidcBuffers ---------------------------
(* Model-checking instance of VidcBuffers.  Buffer objects and dmabufs are *)
(* model values that no definition tells apart, so both are symmetric.     *)
EXTENDS VidcBuffers, TLC

CONSTANTS o1, o2, o3, d1, d2, i1, i2, i3

Symm == Permutations(Objs) \cup Permutations(DmaBufs) \cup Permutations(IObjs)
=============================================================================
