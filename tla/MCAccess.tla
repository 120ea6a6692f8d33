-------------------------------- MODULE MCAccess --------------------------------
(* Access on a small instance: requests are interchangeable. *)
EXTENDS Access, TLC

Symmetry == Permutations(Requests)
===============================================================================
