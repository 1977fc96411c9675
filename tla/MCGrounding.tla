---------------------------- MODULE MCGrounding ----------------------------
(* Grounding for TLC: the requests are interchangeable. *)
EXTENDS Grounding, TLC

RequestSymmetry == Permutations(Requests)
=============================================================================
