--------------------------- MODULE MCMarketPipeline ---------------------------
\* MarketPipeline on small instances: a .cfg gives the sets of jobs and bounds.
EXTENDS MarketPipeline, TLC

\* Securities are interchangeable, and so are users (their initial profiles
\* range over all combinations).
Symmetry == Permutations(Securities) \cup Permutations(Users)

===============================================================================
