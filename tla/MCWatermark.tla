---------------------------- MODULE MCWatermark ----------------------------
(* Two plugins on a page, in either order of creation, and two tokens.     *)
EXTENDS Watermark, TLC

Symmetry == Permutations(Tokens)
=============================================================================
