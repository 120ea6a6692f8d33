-------------------------------- MODULE Scoring --------------------------------
(***************************************************************************)
(* What the model says of a security: scoring.py from the event, the       *)
(* day's change and the number of analogs to the action, the conviction    *)
(* and the confidence of a snapshot.                                       *)
(*                                                                         *)
(* The code computes in floating point, here every quantity is an integer  *)
(* multiple of a unit: an event's weight, bias and quality in hundredths,  *)
(* a change in basis points, a persona's sum in 10^-9, whatever the code   *)
(* rounds to three decimals in thousandths, the score in 10^-7.  A text is *)
(* its positive less its negative terms.  The weights are the baseline's.  *)
(***************************************************************************)
EXTENDS Integers

Types == {"earnings", "guidance", "product_launch", "regulatory", "macro", "mna",
          "analyst_rating", "supply_chain", "customer_win", "customer_loss"}
EventTypeWeight ==
  [t \in Types |->
     CASE t = "earnings" -> 24      [] t = "guidance" -> 22        [] t = "product_launch" -> 18
       [] t = "regulatory" -> -14   [] t = "macro" -> -8           [] t = "mna" -> 15
       [] t = "analyst_rating" -> 10 [] t = "supply_chain" -> -12  [] t = "customer_win" -> 16
       [] t = "customer_loss" -> -18]
Defensive == {"regulatory", "macro", "supply_chain", "customer_loss"}
Scheduled == {"earnings", "guidance"}

\* What build_base_recommendation is called with; "trusted" is a filing, the company's
\* own investor pages or an analyst's entry.
Inputs == [type : Types, hits : -8 .. 8, bias : -50 .. 50, change : Int, analogs : Nat,
           trusted : BOOLEAN]

Smaller(a, b) == IF a < b THEN a ELSE b
Larger(a, b) == IF a < b THEN b ELSE a
Clamp(x, low, high) == Larger(low, Smaller(high, x))
Magnitude(x) == IF x < 0 THEN -x ELSE x
\* Python's round: to the nearest, and of two nearest to the even one.
Rounded(n, d) ==
  LET q == n \div d  r == 2 * (n % d)
  IN IF r > d \/ (r = d /\ q % 2 = 1) THEN q + 1 ELSE q

-------------------------------------------------------------------------------
\* simulate_mirofish_signal.

HeadlineBias(i) == Clamp(5 * i.hits, -20, 20)
Quality(i) == IF i.trusted THEN 80 ELSE 60
Catalyst(i) == EventTypeWeight[i.type] + i.bias + HeadlineBias(i)
Momentum(i) == Clamp(1250 * i.change, -1000000, 1000000)            \* in 10^-6
EventRisk(i) == IF i.type \in Defensive THEN 100 ELSE IF i.type \in Scheduled THEN 35 ELSE 0
Surprise(i) ==                                                      \* in 10^-7
  Smaller(100000 * Magnitude(Catalyst(i)) + (35 * Magnitude(Momentum(i))) \div 10, 10000000)

Retail(i) == 500 * Momentum(i) + 18000000 * HeadlineBias(i) + 6000000 * i.bias
             + 25000000 * Clamp(i.analogs - 3, -6, 6)
Institutional(i) == 7500000 * Catalyst(i) + 2500000 * Quality(i)
                    - 350 * Magnitude(Momentum(i)) - 3000000 * EventRisk(i)
Options(i) == 4000000 * Catalyst(i) + 450 * Momentum(i) + 25 * Surprise(i) - 1200000 * EventRisk(i)
Macro(i) == 7000000 * i.bias + 5500000 * EventTypeWeight[i.type] + 1800000 * Quality(i)
            - (IF i.type \in Defensive THEN 250000000 ELSE 50000000)

Sentiment(x) == Rounded(Clamp(x, -1000000000, 1000000000), 1000000)
Personas(i) == <<Sentiment(Retail(i)), Sentiment(Institutional(i)),
                 Sentiment(Options(i)), Sentiment(Macro(i))>>

Aggregate(v) == Rounded(24 * v[1] + 34 * v[2] + 18 * v[3] + 24 * v[4], 100)
Dispersion(v) ==
  LET away(k) == Magnitude(v[k] - Aggregate(v))
  IN Rounded(away(1) + away(2) + away(3) + away(4), 4)
Consensus(v) == Clamp(1000 - Dispersion(v), 0, 1000)
CrossCurrent(v) == Magnitude(Aggregate(v)) < 80 \/ Dispersion(v) >= 480

-------------------------------------------------------------------------------
\* analyze_chaos.

Moved(i) == Smaller(Magnitude(i.change), 900)   \* the volatility, in ninths of a percent point
Instability(i, v) ==                          \* the sum is in units of 1/900000
  Rounded(Clamp(380 * Moved(i) + 306 * Dispersion(v) + 40500 * (4 - Smaller(i.analogs, 4))
                + (IF CrossCurrent(v) THEN 144000 ELSE 0), 0, 900000), 900)
Chaos(i, v) ==
  Smaller(1000, Instability(i, v)
              + (IF i.type \in Defensive THEN 180 ELSE IF i.type \in Scheduled THEN 80 ELSE 0))
Multiplier(i, v) ==
  Rounded(Clamp(100000 - 28 * Chaos(i, v) + 5 * Consensus(v), 65000, 102000), 100)

-------------------------------------------------------------------------------
\* build_base_recommendation.

\* 10^-5 times 10^-5, to 10^-7, without leaving 32 bits.
Times(a, f) == ((a \div 100) * f + ((a % 100) * f) \div 100) \div 10
Signed(a, f) == IF a < 0 THEN -Times(-a, f) ELSE Times(a, f)

RawScore(i, v) ==
  1000 * (EventTypeWeight[i.type] + HeadlineBias(i) + i.bias) + 10 * Clamp(i.change, -1000, 1000)
  + 1000 * Smaller(i.analogs, 8) + 16 * Aggregate(v)
Score(i, v) == Clamp(Signed(RawScore(i, v), 100000 - 22 * Chaos(i, v)), -5500000, 5500000)

Actions == {"buy", "hold", "sell"}
ScoreToAction(s) == IF s >= 1800000 THEN "buy" ELSE IF s <= -1800000 THEN "sell" ELSE "hold"

ConvictionUncapped(s, analogs, consensus, chaos) ==   \* mutant: every analog counts
  LET sum == 5 * Magnitude(s) + 800000 * analogs + 6000 * consensus - 4000 * chaos
  IN Clamp(-((-sum) \div 10000000), 1, 5)
Conviction(s, analogs, consensus, chaos) ==
  LET sum == 5 * Magnitude(s) + 800000 * Smaller(analogs, 10) + 6000 * consensus - 4000 * chaos
  IN Clamp(-((-sum) \div 10000000), 1, 5)

\* In 10^-5 before the multiplier, in hundredths after it.
Confidence(s, analogs, quality, consensus, multiplier) ==
  LET sum == 48000 + Smaller(Magnitude(s), 3500000) \div 100 + 1500 * Smaller(analogs, 12)
             + 60 * quality + 5 * consensus
  IN Clamp(Rounded(sum * multiplier, 1000000), 50, 96)

BaseRecommendation(i) ==
  LET v == Personas(i)
      s == Score(i, v)
  IN [action |-> ScoreToAction(s),
      conviction |-> Conviction(s, i.analogs, Consensus(v), Chaos(i, v)),
      confidence |-> Confidence(s, i.analogs, Quality(i), Consensus(v), Multiplier(i, v))]
===============================================================================
