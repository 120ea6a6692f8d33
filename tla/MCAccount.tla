------------------------------- MODULE MCAccount -------------------------------
(* Account on a small instance: requests are model values, and requests of one *)
(* kind are interchangeable.                                                   *)
EXTENDS Account, TLC

Symmetry == Permutations(Logins) \cup Permutations(Changers) \cup Permutations(Admins)
===============================================================================
