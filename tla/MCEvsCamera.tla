---- MODULE MCEvsCamera ----
EXTENDS EvsCameraInvariant, TLC
HandleSymmetry == Permutations(Handles)
====
