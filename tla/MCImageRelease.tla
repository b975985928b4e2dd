--------------------------- MODULE MCImageRelease ----------------------------
(* Instances of ImageRelease for TLC: two kernels, two key pairs. *)
EXTENDS ImageRelease

CONSTANTS i1, i2, k1, k2
=============================================================================
