----------------------------- MODULE MCEventIngest -----------------------------
\* EventIngest on a small instance: each feed shows its newest item only.
EXTENDS EventIngest, TLC

NewestOnly == [k \in Feeds |-> 1]
Symmetry == Permutations(Ingesters) \cup Permutations(Submitters)
===============================================================================
