------------------------------ MODULE MCPortfolio ------------------------------
\* Portfolio on a small instance: two profiles, one without and one with every
\* risk penalty; one security has good results after a rising day, the other a macro
\* reading without direction of which there were forty before.
EXTENDS Portfolio, TLC

CONSTANTS s1, s2

Bold == [goal |-> "aggressive_growth", risk |-> "aggressive", drawdown |-> "over_30",
         holding |-> "short_term", sector |-> "medium", experience |-> "advanced"]
Careful == [goal |-> "capital_preservation", risk |-> "conservative", drawdown |-> "under_10",
            holding |-> "long_term", sector |-> "low", experience |-> "beginner"]
TwoProfiles == {Bold, Careful}

Beat == [type |-> "earnings", hits |-> 1, bias |-> 14, change |-> 250, analogs |-> 9,
         trusted |-> TRUE]
Reading == [type |-> "macro", hits |-> 0, bias |-> 0, change |-> 37, analogs |-> 40,
            trusted |-> FALSE]
TwoInputs == s1 :> {Beat} @@ s2 :> {Reading}
===============================================================================
