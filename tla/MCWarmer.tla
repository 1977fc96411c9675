------------------------------- MODULE MCWarmer -------------------------------
(* Warmer on small instances: every provider is listed under "chat", and all  *)
(* but one chosen provider under "image".                                     *)
EXTENDS Warmer, TLC

MCCatalog == [t \in ServiceTypes |-> IF t = "chat" THEN Addrs
                                     ELSE Addrs \ {CHOOSE a \in Addrs : TRUE}]
(* Requests are interchangeable, and so are providers listed alike.           *)
RequestSymmetry == Permutations(Requests)
AddrSymmetry    == Permutations(Addrs)
=============================================================================
