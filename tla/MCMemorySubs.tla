---------------------------- MODULE MCMemorySubs ----------------------------
(***************************************************************************)
(* MemorySubs for TLC: descriptors and threads are interchangeable.        *)
(***************************************************************************)
EXTENDS MemorySubs, TLC

Symmetry == Permutations(Conns) \cup Permutations(Walkers)
=============================================================================
