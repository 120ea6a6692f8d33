------------------------------ MODULE MCValidation ------------------------------
\* Validation on a small instance: which calls snapshots make and what is quoted.
EXTENDS Validation, TLC

Symmetry == Permutations(Reporters) \cup Permutations(Archivers)

\* A call the baseline does not share, and does not decide on.
WeakCall == {[action |-> "sell", bias |-> -4]}
\* The security up and the benchmark down, and the other way round.
SomeQuotes == {[security |-> 103, benchmark |-> 97], [security |-> 97, benchmark |-> 103]}
OneCall == {[action |-> "buy", bias |-> 5]}
===============================================================================
