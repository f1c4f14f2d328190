----------------------------- MODULE MCFaceSwap -----------------------------
(* FaceSwap on small sets.  Nothing tells one activation, one pipeline      *)
(* thread or one process slot from another, and every property checked is a *)
(* safety property: symmetry is sound.                                      *)
EXTENDS FaceSwap, TLC

Symmetry == Permutations(Threads) \cup Permutations(Workers) \cup Permutations(Backends)
=============================================================================
