---------------------------- MODULE MCSignerCache ----------------------------
(* SignerCache for TLC: callers are interchangeable, and so are providers. *)
EXTENDS SignerCache, TLC

BothSymmetry == Permutations(Callers) \cup Permutations(Providers)
=============================================================================
