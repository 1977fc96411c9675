------------------------------ MODULE MCPreview ------------------------------
(* Preview with interchangeable calls: no action or property names one.       *)
EXTENDS Preview, TLC

CallSymmetry == Permutations(Calls)
=============================================================================
