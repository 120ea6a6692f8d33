---------------------------- MODULE Portfolio_proofs ----------------------------
(***************************************************************************)
(* What the scoring says of any event keeps its ranges and has a cause in  *)
(* the event, a hold is never said with conviction, and so no profile turns*)
(* one into a buy; caution never buys more.  The state keeps its types,    *)
(* what one rebuild opens stays within the cap however rebuilds overlap,   *)
(* and a job that runs alone leaves what it was asked for.                 *)
(*                                                                         *)
(* AllocationCap is not inductive: a job may rebuild more than once.       *)
(* OneRebuild says that its open rows are of one rebuild, because those of *)
(* earlier ones are among the rows it has or waits for (Closes) before it  *)
(* opens more.                                                             *)
(* Undisturbed follows a job beside which no other has run from what it    *)
(* read to what it wrote (UpToDate).                                       *)
(***************************************************************************)
EXTENDS Portfolio, Recursion

(***************************************************************************)
(* Scoring.                                                                *)
(***************************************************************************)
LEMMA ClampRange ==
  ASSUME NEW x \in Int, NEW low \in Int, NEW high \in Int, low <= high
  PROVE  Clamp(x, low, high) \in Int /\ low <= Clamp(x, low, high) /\ Clamp(x, low, high) <= high
BY DEF Clamp, Larger, Smaller

LEMMA SentimentRange ==
  ASSUME NEW x \in Int
  PROVE  Sentiment(x) \in Int /\ -1000 <= Sentiment(x) /\ Sentiment(x) <= 1000
<1> DEFINE c == Clamp(x, -1000000000, 1000000000)
<1>1. c \in Int /\ -1000000000 <= c /\ c <= 1000000000
  BY SMT, ClampRange
<1> HIDE DEF c
<1>2. Rounded(c, 1000000) \in Int /\ -1000 <= Rounded(c, 1000000) /\ Rounded(c, 1000000) <= 1000
  BY SMT, <1>1 DEF Rounded
<1> QED BY <1>2 DEF Sentiment, c

\* A hold is never said with a conviction of four or five, whatever the number of
\* analogs, the consensus and the chaos (_score_to_action, _conviction_from_score).
THEOREM HoldNeverConvinced ==
  ASSUME NEW s \in Int, NEW analogs \in Nat, NEW consensus \in 0 .. 1000, NEW chaos \in Nat,
         ScoreToAction(s) = "hold"
  PROVE  Conviction(s, analogs, consensus, chaos) \in 1 .. 3
<1>1. -1800000 < s /\ s < 1800000
  BY SMT DEF ScoreToAction
<1>2. Magnitude(s) \in Int /\ 0 <= Magnitude(s) /\ Magnitude(s) <= 1800000
  BY SMT, <1>1 DEF Magnitude
<1>3. Smaller(analogs, 10) \in 0 .. 10
  BY SMT DEF Smaller
<1> DEFINE sum == 5 * Magnitude(s) + 800000 * Smaller(analogs, 10) + 6000 * consensus - 4000 * chaos
<1>4. sum \in Int /\ sum <= 23000000
  BY SMT, <1>2, <1>3
<1> HIDE DEF sum
<1>5. -((-sum) \div 10000000) \in Int /\ -((-sum) \div 10000000) <= 3
  BY SMT, <1>4
<1>6. Clamp(-((-sum) \div 10000000), 1, 5) \in 1 .. 3
  BY SMT, <1>5 DEF Clamp, Larger, Smaller
<1> QED BY SMT, <1>6 DEF Conviction, sum

LEMMA WeightInt ==
  ASSUME NEW t \in Types
  PROVE  EventTypeWeight[t] \in Int
BY DEF EventTypeWeight, Types

LEMMA MagnitudeNat ==
  ASSUME NEW x \in Int
  PROVE  Magnitude(x) \in Nat
BY DEF Magnitude

LEMMA RoundedInt ==
  ASSUME NEW n \in Int, NEW d \in Nat \ {0}
  PROVE  Rounded(n, d) \in Int
BY DEF Rounded

LEMMA SmallerInt ==
  ASSUME NEW a \in Int, NEW b \in Int
  PROVE  Smaller(a, b) \in Int
BY DEF Smaller

Thousandths(x) == x \in Int /\ -1000 <= x /\ x <= 1000

\* Four personas of any input, each a whole number of thousandths between -1 and 1.
LEMMA PersonasRange ==
  ASSUME NEW i \in Inputs
  PROVE  \A k \in 1 .. 4 : Thousandths(Personas(i)[k])
<1>1. /\ i.type \in Types /\ i.hits \in Int /\ i.bias \in Int /\ i.change \in Int
      /\ i.analogs \in Int
  BY DEF Inputs
<1>2. EventTypeWeight[i.type] \in Int
  BY <1>1, WeightInt
<1>3. HeadlineBias(i) \in Int
  BY SMT, <1>1 DEF HeadlineBias, Clamp, Larger, Smaller
<1>4. Catalyst(i) \in Int
  BY <1>1, <1>2, <1>3 DEF Catalyst
<1>5. Momentum(i) \in Int
  BY SMT, <1>1 DEF Momentum, Clamp, Larger, Smaller
<1>6. EventRisk(i) \in Int /\ Quality(i) \in Int
  BY DEF EventRisk, Quality
<1>7. Magnitude(Catalyst(i)) \in Int /\ Magnitude(Momentum(i)) \in Int
  BY <1>4, <1>5, MagnitudeNat
<1>8. (35 * Magnitude(Momentum(i))) \div 10 \in Int
  BY SMT, <1>7
<1>9. Surprise(i) \in Int
  BY SMT, <1>7, <1>8 DEF Surprise, Smaller
<1>10. Clamp(i.analogs - 3, -6, 6) \in Int
  BY SMT, <1>1 DEF Clamp, Larger, Smaller
<1>11. Retail(i) \in Int
  BY SMT, <1>1, <1>3, <1>5, <1>10 DEF Retail
<1>12. Institutional(i) \in Int
  BY SMT, <1>4, <1>6, <1>7 DEF Institutional
<1>13. Options(i) \in Int
  BY SMT, <1>4, <1>5, <1>6, <1>9 DEF Options
<1>14. Macro(i) \in Int
  BY SMT, <1>1, <1>2, <1>6 DEF Macro
<1>15. \A x \in Int : Thousandths(Sentiment(x))
  BY SentimentRange DEF Thousandths
<1> QED BY <1>11, <1>12, <1>13, <1>14, <1>15 DEF Personas

LEMMA PersonasInt ==
  ASSUME NEW i \in Inputs
  PROVE  \A k \in 1 .. 4 : Personas(i)[k] \in Int
BY PersonasRange DEF Thousandths

\* The consensus and the chaos of any four personas.
LEMMA ChaosRange ==
  ASSUME NEW i \in Inputs, NEW v, \A k \in 1 .. 4 : v[k] \in Int
  PROVE  /\ Aggregate(v) \in Int
         /\ Consensus(v) \in 0 .. 1000
         /\ Chaos(i, v) \in Nat
         /\ Multiplier(i, v) \in Int
<1>1. v[1] \in Int /\ v[2] \in Int /\ v[3] \in Int /\ v[4] \in Int
  OBVIOUS
<1>2. Aggregate(v) \in Int
  BY SMT, <1>1 DEF Aggregate, Rounded
<1> DEFINE away(k) == Magnitude(v[k] - Aggregate(v))
<1>3. away(1) \in Nat /\ away(2) \in Nat /\ away(3) \in Nat /\ away(4) \in Nat
  BY <1>1, <1>2, MagnitudeNat
<1>4. Dispersion(v) = Rounded(away(1) + away(2) + away(3) + away(4), 4)
  BY DEF Dispersion
<1> HIDE DEF away
<1>5. Dispersion(v) \in Int
  BY <1>3, <1>4, RoundedInt
<1>6. Dispersion(v) >= 0
  BY SMT, <1>3, <1>4 DEF Rounded
<1>7. Consensus(v) \in 0 .. 1000
  BY SMT, <1>5 DEF Consensus, Clamp, Larger, Smaller
<1>8. Moved(i) \in Int /\ Smaller(i.analogs, 4) \in Int
  BY SMT DEF Moved, Magnitude, Smaller, Inputs
<1> DEFINE mood == IF CrossCurrent(v) THEN 144000 ELSE 0
           sum == 380 * Moved(i) + 306 * Dispersion(v) + 40500 * (4 - Smaller(i.analogs, 4)) + mood
           kept == Clamp(sum, 0, 900000)
<1>9. mood \in Int
  BY SMT
<1>10. sum \in Int
  BY SMT, <1>5, <1>8, <1>9
<1> HIDE DEF sum
<1>11. kept \in Int /\ 0 <= kept
  BY SMT, <1>10 DEF Clamp, Larger, Smaller
<1> HIDE DEF kept
<1>12. Rounded(kept, 900) \in Int /\ Rounded(kept, 900) >= 0
  BY SMT, <1>11 DEF Rounded
<1>13. Instability(i, v) = Rounded(kept, 900)
  BY SMT DEF Instability, kept, sum
<1>14. Chaos(i, v) \in Nat
  BY SMT, <1>12, <1>13 DEF Chaos, Smaller
<1>15. Clamp(100000 - 28 * Chaos(i, v) + 5 * Consensus(v), 65000, 102000) \in Int
  BY SMT, <1>7, <1>14 DEF Clamp, Larger, Smaller
<1>16. Multiplier(i, v) \in Int
  BY SMT, <1>15, RoundedInt DEF Multiplier
<1> QED BY <1>2, <1>7, <1>14, <1>16

LEMMA ScoreInt ==
  ASSUME NEW i \in Inputs, NEW v, Aggregate(v) \in Int, Chaos(i, v) \in Nat
  PROVE  Score(i, v) \in Int
<1> DEFINE a == RawScore(i, v)
           f == 100000 - 22 * Chaos(i, v)
<1>1. HeadlineBias(i) \in Int
  BY SMT DEF HeadlineBias, Inputs, Clamp, Larger, Smaller
<1>2. Clamp(i.change, -1000, 1000) \in Int /\ Smaller(i.analogs, 8) \in Int
  BY SMT DEF Inputs, Clamp, Larger, Smaller
<1>3. EventTypeWeight[i.type] \in Int /\ i.bias \in Int
  BY WeightInt DEF Inputs
<1>4. a \in Int /\ f \in Int
  BY SMT, <1>1, <1>2, <1>3 DEF RawScore
<1> HIDE DEF a, f
<1>5. \A n \in Int : Times(n, f) \in Int
  <2> TAKE n \in Int
  <2>1. n \div 100 \in Int /\ n % 100 \in Int
    BY SMT
  <2>2. (n \div 100) * f \in Int /\ (n % 100) * f \in Int
    BY SMT, <2>1, <1>4
  <2>3. ((n % 100) * f) \div 100 \in Int
    BY SMT, <2>2
  <2>4. ((n \div 100) * f + ((n % 100) * f) \div 100) \div 10 \in Int
    BY SMT, <2>2, <2>3
  <2> QED BY <2>4 DEF Times
<1>6. Signed(a, f) \in Int
  BY SMT, <1>4, <1>5 DEF Signed
<1> QED BY SMT, <1>6, ClampRange DEF Score, a, f

\* Whatever the event and the quote, the scoring says an action, a conviction of one to
\* five and a confidence of 50% to 96%, and never says a hold with a conviction of four
\* or five (build_base_recommendation).
THEOREM BaseRecommendationInRange ==
  ASSUME NEW i \in Inputs
  PROVE  /\ BaseRecommendation(i) \in Base
         /\ BaseRecommendation(i).action = "hold" => BaseRecommendation(i).conviction <= 3
<1> DEFINE v == Personas(i)
           s == Score(i, v)
           c == Conviction(s, i.analogs, Consensus(v), Chaos(i, v))
           sum == 48000 + Smaller(Magnitude(s), 3500000) \div 100 + 1500 * Smaller(i.analogs, 12)
                  + 60 * Quality(i) + 5 * Consensus(v)
<1>1. \A k \in 1 .. 4 : v[k] \in Int
  BY PersonasInt
<1> HIDE DEF v
<1>2. Aggregate(v) \in Int /\ Consensus(v) \in 0 .. 1000 /\ Chaos(i, v) \in Nat /\ Multiplier(i, v) \in Int
  BY <1>1, ChaosRange
<1>3. s \in Int
  BY <1>2, ScoreInt
<1> HIDE DEF s
<1>4. i.analogs \in Nat
  BY DEF Inputs
<1>5. ScoreToAction(s) \in Actions
  BY SMT DEF ScoreToAction, Actions
<1>6. c \in 1 .. 5
  <2> DEFINE n == 5 * Magnitude(s) + 800000 * Smaller(i.analogs, 10) + 6000 * Consensus(v) - 4000 * Chaos(i, v)
  <2>1. Magnitude(s) \in Int /\ Smaller(i.analogs, 10) \in Int
    BY SMT, <1>3, <1>4 DEF Magnitude, Smaller
  <2>2. n \in Int
    BY SMT, <2>1, <1>2
  <2> HIDE DEF n
  <2>3. -((-n) \div 10000000) \in Int
    BY SMT, <2>2
  <2>4. Clamp(-((-n) \div 10000000), 1, 5) \in 1 .. 5
    BY SMT, <2>3 DEF Clamp, Larger, Smaller
  <2> QED BY SMT, <2>4 DEF Conviction, n
<1>7. ScoreToAction(s) = "hold" => c \in 1 .. 3
  <2> SUFFICES ASSUME ScoreToAction(s) = "hold" PROVE c \in 1 .. 3
    OBVIOUS
  <2> DEFINE consensus == Consensus(v)
             chaos == Chaos(i, v)
             n == i.analogs
  <2>1. n \in Nat /\ consensus \in 0 .. 1000 /\ chaos \in Nat
    BY <1>2, <1>4
  <2> HIDE DEF n, consensus, chaos
  <2>2. Conviction(s, n, consensus, chaos) \in 1 .. 3
    BY <1>3, <2>1, HoldNeverConvinced
  <2> QED BY <2>2 DEF n, consensus, chaos
<1>8. Confidence(s, i.analogs, Quality(i), Consensus(v), Multiplier(i, v)) \in 50 .. 96
  <2>1. Magnitude(s) \in Int /\ Smaller(i.analogs, 12) \in Int /\ Quality(i) \in Int
    BY SMT, <1>3, <1>4 DEF Magnitude, Smaller, Quality
  <2>2. Smaller(Magnitude(s), 3500000) \in Int
    BY SMT, <2>1 DEF Smaller
  <2>3. Smaller(Magnitude(s), 3500000) \div 100 \in Int
    BY SMT, <2>2
  <2>4. sum \in Int
    BY SMT, <2>1, <2>3, <1>2
  <2> HIDE DEF sum
  <2>5. sum * Multiplier(i, v) \in Int
    BY SMT, <2>4, <1>2
  <2>6. Rounded(sum * Multiplier(i, v), 1000000) \in Int
    BY SMT, <2>5, RoundedInt
  <2>7. Clamp(Rounded(sum * Multiplier(i, v), 1000000), 50, 96) \in 50 .. 96
    BY SMT, <2>6 DEF Clamp, Larger, Smaller
  <2> QED BY SMT, <2>7 DEF Confidence, sum
<1> HIDE DEF c
<1>9. BaseRecommendation(i) =
        [action |-> ScoreToAction(s), conviction |-> c,
         confidence |-> Confidence(s, i.analogs, Quality(i), Consensus(v), Multiplier(i, v))]
  BY DEF BaseRecommendation, v, s, c
<1> QED BY <1>5, <1>6, <1>7, <1>8, <1>9 DEF Base

\* Chaos only dampens: a number times a factor of at most one gets no further from zero.
LEMMA TimesBelow ==
  ASSUME NEW a \in Nat, NEW f \in Nat, a < 18000, f <= 100000
  PROVE  Times(a, f) < 1800000
<1> DEFINE h == a \div 100
           l == a % 100
<1>1. h \in Nat /\ h <= 179 /\ l \in Nat /\ l <= 99
  BY SMT
<1> HIDE DEF h, l
<1>2. ASSUME NEW n \in Nat PROVE n * f \in Nat /\ n * f <= n * 100000
  <2>1. n * (100000 - f) >= 0
    BY SMT
  <2> QED BY SMT, <2>1
<1>3. h * f \in Nat /\ h * f <= 17900000 /\ l * f \in Nat /\ l * f <= 9900000
  <2>1. h * f \in Nat /\ h * f <= h * 100000 /\ l * f \in Nat /\ l * f <= l * 100000
    BY <1>1, <1>2
  <2> DEFINE x == h * f
             y == l * f
  <2>2. x \in Nat /\ x <= h * 100000 /\ y \in Nat /\ y <= l * 100000
    BY <2>1
  <2> HIDE DEF x, y
  <2>3. x <= 17900000 /\ y <= 9900000
    BY SMT, <1>1, <2>2
  <2> QED BY <2>1, <2>3 DEF x, y
<1> DEFINE x == h * f
           y == l * f
<1>4. x \in Nat /\ x <= 17900000 /\ y \in Nat /\ y <= 9900000
  BY <1>3
<1>5. Times(a, f) = (x + y \div 100) \div 10
  BY DEF Times, h, l
<1> HIDE DEF x, y
<1>6. y \div 100 \in Nat /\ y \div 100 <= 99000
  BY SMT, <1>4
<1>7. (x + y \div 100) \div 10 < 1800000
  BY SMT, <1>4, <1>6
<1> QED BY <1>5, <1>7

LEMMA TimesInt ==
  ASSUME NEW a \in Int, NEW f \in Int
  PROVE  Times(a, f) \in Int
<1>1. a \div 100 \in Int /\ a % 100 \in Int
  BY SMT
<1>2. (a \div 100) * f \in Int /\ (a % 100) * f \in Int
  BY SMT, <1>1
<1>3. ((a % 100) * f) \div 100 \in Int
  BY SMT, <1>2
<1>4. ((a \div 100) * f + ((a % 100) * f) \div 100) \div 10 \in Int
  BY SMT, <1>2, <1>3
<1> QED BY <1>4 DEF Times

LEMMA TimesNat ==
  ASSUME NEW a \in Nat, NEW f \in Nat
  PROVE  Times(a, f) >= 0
<1>1. a \div 100 \in Nat /\ a % 100 \in Nat
  BY SMT
<1>2. (a \div 100) * f \in Nat /\ (a % 100) * f \in Nat
  BY SMT, <1>1
<1>3. ((a % 100) * f) \div 100 \in Nat
  BY SMT, <1>2
<1>4. ((a \div 100) * f + ((a % 100) * f) \div 100) \div 10 >= 0
  BY SMT, <1>2, <1>3
<1> QED BY <1>4 DEF Times

LEMMA AggregateRange ==
  ASSUME NEW i \in Inputs
  PROVE  Thousandths(Aggregate(Personas(i)))
<1> DEFINE v == Personas(i)
<1>1. Thousandths(v[1]) /\ Thousandths(v[2]) /\ Thousandths(v[3]) /\ Thousandths(v[4])
  BY PersonasRange
<1> HIDE DEF v
<1> DEFINE sum == 24 * v[1] + 34 * v[2] + 18 * v[3] + 24 * v[4]
<1>2. sum \in Int /\ -100000 <= sum /\ sum <= 100000
  BY SMT, <1>1 DEF Thousandths
<1> HIDE DEF sum
<1>3. Thousandths(Rounded(sum, 100))
  BY SMT, <1>2 DEF Rounded, Thousandths
<1> QED BY <1>3 DEF Aggregate, v, sum

\* A call has a cause.  The chaos penalty may take a call back and never makes one: a buy
\* or a sell has a score beyond the threshold before it.  And what an event is, what is
\* said of it and what its text sounds like (its catalyst, in hundredths) limit the call:
\* neither the day's move nor the analogs nor the simulated crowd make a buy of an event
\* whose catalyst is below -0.16, or a sell of one above 0.08
\* (build_base_recommendation, _score_to_action).
THEOREM CallHasCause ==
  ASSUME NEW i \in Inputs
  PROVE  /\ BaseRecommendation(i).action = "buy" =>
              RawScore(i, Personas(i)) >= 18000 /\ Catalyst(i) >= -16
         /\ BaseRecommendation(i).action = "sell" =>
              RawScore(i, Personas(i)) <= -18000 /\ Catalyst(i) <= 8
<1> DEFINE v == Personas(i)
           a == RawScore(i, v)
           f == 100000 - 22 * Chaos(i, v)
           s == Signed(a, f)
           c == Catalyst(i)
           e == 10 * Clamp(i.change, -1000, 1000) + 1000 * Smaller(i.analogs, 8) + 16 * Aggregate(v)
<1>1. f \in Nat /\ f <= 100000
  <2>1. Chaos(i, v) \in Nat
    BY PersonasInt, ChaosRange
  <2>2. Chaos(i, v) <= 1000
    <3> DEFINE x == Instability(i, v) + (IF i.type \in Defensive THEN 180
                                         ELSE IF i.type \in Scheduled THEN 80 ELSE 0)
    <3>1. Chaos(i, v) = Smaller(1000, x)
      BY DEF Chaos
    <3> HIDE DEF x, v
    <3> QED BY SMT, <2>1, <3>1 DEF Smaller
  <2> DEFINE x == Chaos(i, v)
  <2>3. x \in Nat /\ x <= 1000
    BY <2>1, <2>2
  <2> HIDE DEF x
  <2>4. 100000 - 22 * x \in Nat /\ 100000 - 22 * x <= 100000
    BY SMT, <2>3
  <2> QED BY <2>4 DEF x
<1>2. c \in Int /\ e \in Int /\ -26000 <= e /\ e <= 34000 /\ a = 1000 * c + e
  <2> DEFINE hb == HeadlineBias(i)
             ch == Clamp(i.change, -1000, 1000)
             an == Smaller(i.analogs, 8)
             ag == Aggregate(v)
             w == EventTypeWeight[i.type]
  <2>1. hb \in Int
    BY SMT DEF HeadlineBias, Inputs, Clamp, Larger, Smaller
  <2>2. ch \in Int /\ -1000 <= ch /\ ch <= 1000 /\ an \in Int /\ 0 <= an /\ an <= 8
    BY SMT DEF Inputs, Clamp, Larger, Smaller
  <2>3. w \in Int /\ i.bias \in Int
    BY WeightInt DEF Inputs
  <2>4. ag \in Int /\ -1000 <= ag /\ ag <= 1000
    BY AggregateRange DEF Thousandths
  <2>5. c = w + i.bias + hb /\ e = 10 * ch + 1000 * an + 16 * ag
    BY DEF Catalyst
  <2>6. a = 1000 * (w + hb + i.bias) + 10 * ch + 1000 * an + 16 * ag
    BY DEF RawScore
  <2> HIDE DEF hb, ch, an, ag, w, a, c, e, v
  <2> QED BY SMT, <2>1, <2>2, <2>3, <2>4, <2>5, <2>6
<1>3. BaseRecommendation(i).action = ScoreToAction(Clamp(s, -5500000, 5500000))
  BY DEF BaseRecommendation, Score
<1> HIDE DEF v, a, f, c, e
<1>4. a \in Int
  BY SMT, <1>2
<1>5. Times(a, f) \in Int /\ Times(-a, f) \in Int
  BY <1>1, <1>4, TimesInt
<1>6. BaseRecommendation(i).action = "buy" => a >= 18000
  <2>1. CASE a < 0
    <3>1. Times(-a, f) >= 0
      BY <1>1, <1>4, <2>1, TimesNat
    <3>2. s <= 0
      BY SMT, <1>5, <2>1, <3>1 DEF Signed
    <3> QED BY SMT, <1>3, <1>5, <3>2 DEF ScoreToAction, Clamp, Larger, Smaller, Signed
  <2>2. CASE a >= 0 /\ a < 18000
    <3>1. Times(a, f) < 1800000
      BY <1>1, <1>4, <2>2, TimesBelow
    <3> HIDE DEF s
    <3>2. s \in Int /\ s < 1800000
      BY SMT, <1>4, <1>5, <2>2, <3>1 DEF Signed, s
    <3> QED BY SMT, <1>3, <3>2 DEF ScoreToAction, Clamp, Larger, Smaller
  <2> QED BY <1>4, <2>1, <2>2
<1>7. BaseRecommendation(i).action = "sell" => a <= -18000
  <2>1. CASE a >= 0
    <3>1. Times(a, f) >= 0
      BY <1>1, <1>4, <2>1, TimesNat
    <3> HIDE DEF s
    <3>2. s \in Int /\ s >= 0
      BY SMT, <1>4, <1>5, <2>1, <3>1 DEF Signed, s
    <3> QED BY SMT, <1>3, <3>2 DEF ScoreToAction, Clamp, Larger, Smaller
  <2>2. CASE a < 0 /\ a > -18000
    <3>1. Times(-a, f) < 1800000
      BY <1>1, <1>4, <2>2, TimesBelow
    <3> HIDE DEF s
    <3>2. s \in Int /\ s > -1800000
      BY SMT, <1>4, <1>5, <2>2, <3>1 DEF Signed, s
    <3> QED BY SMT, <1>3, <3>2 DEF ScoreToAction, Clamp, Larger, Smaller
  <2> QED BY <1>4, <2>1, <2>2
<1>8. a >= 18000 => c >= -16
  BY SMT, <1>2
<1>9. a <= -18000 => c <= 8
  BY SMT, <1>2
<1> QED BY <1>6, <1>7, <1>8, <1>9 DEF v, a, c

(***************************************************************************)
(* Profiles compared.                                                      *)
(***************************************************************************)
\* q is in no answer of the questionnaire bolder than r.
Cautious(q, r) ==
  /\ r.risk = "conservative" => q.risk = "conservative"
  /\ q.risk = "aggressive" => r.risk = "aggressive"
  /\ q.risk = "balanced" => r.risk \in {"balanced", "aggressive"}
  /\ r.drawdown \in {"under_10", "under_15"} => q.drawdown \in {"under_10", "under_15"}
  /\ r.experience = "beginner" => q.experience = "beginner"
  /\ r.sector = "low" => q.sector = "low"
  /\ r.goal = "capital_preservation" => q.goal = "capital_preservation"
  /\ q.goal = "aggressive_growth" => r.goal = "aggressive_growth"

\* Caution never buys more: what somebody is told to buy, everybody who is nowhere more
\* cautious is told to buy too, within a band that begins and ends no lower, although
\* four overrides and three bands each look at other answers (personalize_recommendation).
THEOREM CautionBuysNoMore ==
  ASSUME NEW b \in Base, NEW q, NEW r, Cautious(q, r), AdvisedAction(b, q) = "buy"
  PROVE  /\ AdvisedAction(b, r) = "buy"
         /\ BandLow(b, q) <= BandLow(b, r)
         /\ BandHigh(b, q) <= BandHigh(b, r)
<1>1. b.confidence \in Int /\ b.conviction \in Int
  BY DEF Base
<1>2. RiskPenalty(q) \in Int /\ RiskPenalty(r) \in Int /\ RiskPenalty(r) <= RiskPenalty(q)
  BY DEF RiskPenalty, Cautious
<1>3. AdvisedAction(b, r) = "buy"
  BY SMT, <1>1, <1>2 DEF AdvisedAction, Cautious
<1>4. BandLow(b, q) <= BandLow(b, r)
  BY <1>3 DEF BandLow, Cautious
<1>5. BandHigh(b, q) <= BandHigh(b, r)
  BY <1>1, <1>3 DEF BandHigh, Cautious
<1> QED BY <1>3, <1>4, <1>5

(***************************************************************************)
(* The allocation.  The targets and the positions are summed by folds,     *)
(* which Recursion's sums describe; a position is its share of the whole,  *)
(* rounded.                                                                *)
(***************************************************************************)
Reach == [r \in RecRow |-> Larger(r.low, r.high)]
Share == [o \in PositionRow |-> o.pct]

LEMMA TargetIsSum ==
  ASSUME NEW S \in SUBSET RecRow, IsFiniteSet(S)
  PROVE  Target(S) = Sum(Reach, S) /\ Target(S) \in Nat
<1> DEFINE iter[s \in SUBSET S] ==
             IF s = {} THEN 0
             ELSE LET x == CHOOSE y \in s : TRUE IN Larger(x.low, x.high) + iter[s \ {x}]
<1>1. Target(S) = iter[S]
  BY DEF Target, MapThenSumSet, MapThenFoldSet
<1>2. Reach \in [RecRow -> Nat]
  BY DEF Reach, RecRow, Larger
<1>3. PICK g : Sums(g, Reach, S)
  BY <1>2, SumExists
<1>4. g = [s \in SUBSET S |->
             IF s = {} THEN 0
             ELSE LET x == CHOOSE y \in s : TRUE IN Larger(x.low, x.high) + g[s \ {x}]]
  <2>1. ASSUME NEW s \in SUBSET S, s # {}
        PROVE  g[s] = Larger(Pick(s).low, Pick(s).high) + g[s \ {Pick(s)}]
    <3>1. Pick(s) \in RecRow
      BY <2>1, PickIn
    <3> QED BY <1>3, <2>1, <3>1 DEF Sums, SumsTo, Reach
  <2>2. g[{}] = 0
    BY <1>3 DEF Sums, SumsTo
  <2> QED BY <1>3, <2>1, <2>2 DEF Pick, Sums
<1>5. iter = [s \in SUBSET S |->
             IF s = {} THEN 0
             ELSE LET x == CHOOSE y \in s : TRUE IN Larger(x.low, x.high) + iter[s \ {x}]]
  BY <1>4
<1> HIDE DEF iter
<1>6. SumsTo(iter, Reach, S)
  <2>1. ASSUME NEW s \in SUBSET S, s # {}
        PROVE  iter[s] = Reach[Pick(s)] + iter[s \ {Pick(s)}]
    <3>1. Pick(s) \in RecRow
      BY <2>1, PickIn
    <3>2. iter[s] = Larger(Pick(s).low, Pick(s).high) + iter[s \ {Pick(s)}]
      BY <1>5, <2>1 DEF Pick
    <3> QED BY <3>1, <3>2 DEF Reach
  <2>2. iter[{}] = 0
    BY <1>5
  <2> QED BY <2>1, <2>2 DEF SumsTo
<1>7. g[S] = iter[S]
  <2>1. SumsTo(g, Reach, S) /\ S \in (SUBSET S) \cap (SUBSET S)
    BY <1>3 DEF Sums
  <2> QED BY <1>6, <2>1, SumUnique
<1>8. g[S] = Sum(Reach, S) /\ Sum(Reach, S) \in Nat
  <2>1. S \in SUBSET S
    OBVIOUS
  <2> QED BY <1>3, <2>1, SumWithin
<1> QED BY <1>1, <1>7, <1>8

LEMMA ShareIsSum ==
  ASSUME NEW S \in SUBSET PositionRow, IsFiniteSet(S)
  PROVE  MapThenSumSet(LAMBDA o : o.pct, S) = Sum(Share, S)
<1> DEFINE iter[s \in SUBSET S] ==
             IF s = {} THEN 0
             ELSE LET x == CHOOSE y \in s : TRUE IN x.pct + iter[s \ {x}]
<1>1. MapThenSumSet(LAMBDA o : o.pct, S) = iter[S]
  BY DEF MapThenSumSet, MapThenFoldSet
<1>2. Share \in [PositionRow -> Nat]
  BY DEF Share, PositionRow
<1>3. PICK g : Sums(g, Share, S)
  BY <1>2, SumExists
<1>4. g = [s \in SUBSET S |->
             IF s = {} THEN 0
             ELSE LET x == CHOOSE y \in s : TRUE IN x.pct + g[s \ {x}]]
  <2>1. ASSUME NEW s \in SUBSET S, s # {}
        PROVE  g[s] = Pick(s).pct + g[s \ {Pick(s)}]
    <3>1. Pick(s) \in PositionRow
      BY <2>1, PickIn
    <3> QED BY <1>3, <2>1, <3>1 DEF Sums, SumsTo, Share
  <2>2. g[{}] = 0
    BY <1>3 DEF Sums, SumsTo
  <2> QED BY <1>3, <2>1, <2>2 DEF Pick, Sums
<1>5. iter = [s \in SUBSET S |->
             IF s = {} THEN 0
             ELSE LET x == CHOOSE y \in s : TRUE IN x.pct + iter[s \ {x}]]
  BY <1>4
<1> HIDE DEF iter
<1>6. SumsTo(iter, Share, S)
  <2>1. ASSUME NEW s \in SUBSET S, s # {}
        PROVE  iter[s] = Share[Pick(s)] + iter[s \ {Pick(s)}]
    <3>1. Pick(s) \in PositionRow
      BY <2>1, PickIn
    <3>2. iter[s] = Pick(s).pct + iter[s \ {Pick(s)}]
      BY <1>5, <2>1 DEF Pick
    <3> QED BY <3>1, <3>2 DEF Share
  <2>2. iter[{}] = 0
    BY <1>5
  <2> QED BY <2>1, <2>2 DEF SumsTo
<1>7. g[S] = iter[S]
  <2>1. SumsTo(g, Share, S) /\ S \in (SUBSET S) \cap (SUBSET S)
    BY <1>3 DEF Sums
  <2> QED BY <1>6, <2>1, SumUnique
<1>8. g[S] = Sum(Share, S) /\ Sum(Share, S) \in Nat
  <2>1. S \in SUBSET S
    OBVIOUS
  <2> QED BY <1>3, <2>1, SumWithin
<1> QED BY <1>1, <1>7, <1>8

LEMMA DivideDown ==
  ASSUME NEW a \in Nat, NEW b \in Nat \ {0}
  PROVE  a \div b \in Nat /\ b * (a \div b) <= a
OBVIOUS

LEMMA Cancel ==
  ASSUME NEW t \in Nat \ {0}, NEW a \in Int, NEW b \in Int, t * a <= t * b
  PROVE  a <= b
OBVIOUS

Pos(r, t, p) == [sec |-> r.sec, snap |-> r.snap, pct |-> Size(r, t), by |-> p]

LEMMA SizeNat ==
  ASSUME NEW r \in RecRow, NEW t \in Nat
  PROVE  /\ Size(r, t) \in Nat
         /\ t > FullPct * 10 => 2 * t * Size(r, t) <= 200 * FullPct * r.high + t
         /\ ~(t > FullPct * 10) => Size(r, t) = 10 * r.high
<1>1. r.high \in Nat /\ FullPct \in Nat
  BY BoundsAssumption DEF RecRow
<1> DEFINE a == 2 * r.high * FullPct * 100 + t
           b == 2 * t
<1>2. a \in Nat /\ a = 200 * FullPct * r.high + t /\ b \in Nat
  BY <1>1
<1>3. CASE t > FullPct * 10
  <2>1. Size(r, t) = a \div b
    BY <1>3 DEF Size
  <2>2. b \in Nat \ {0}
    BY <1>1, <1>3
  <2> HIDE DEF a, b
  <2>3. a \div b \in Nat /\ b * (a \div b) <= a
    BY <1>2, <2>2, DivideDown
  <2> QED BY <1>2, <1>3, <2>1, <2>3 DEF b
<1>4. CASE ~(t > FullPct * 10)
  BY <1>1, <1>4 DEF Size
<1> QED BY <1>3, <1>4

LEMMA ShareNat ==
  ASSUME NEW p \in Jobs \cup {None}, NEW r \in RecRow, NEW t \in Nat
  PROVE  /\ Pos(r, t, p) \in PositionRow
         /\ Share[Pos(r, t, p)] = Size(r, t)
<1>1. r.sec \in Securities /\ r.snap \in Nat /\ Size(r, t) \in Nat
  BY SizeNat DEF RecRow
<1>2. Pos(r, t, p) \in PositionRow /\ Pos(r, t, p).pct = Size(r, t)
  BY <1>1 DEF Pos, PositionRow
<1> QED BY <1>2 DEF Share

\* What the rows opened for some of S allocate.
Fits(M, s, t) ==
  /\ IsFiniteSet(M) /\ M \in SUBSET PositionRow
  /\ t > FullPct * 10 =>
       2 * t * Sum(Share, M) <= 200 * FullPct * Sum(Reach, s) + t * Cardinality(M)
  /\ ~(t > FullPct * 10) => Sum(Share, M) <= 10 * Sum(Reach, s)

LEMMA FitsOneMore ==
  ASSUME NEW p \in Jobs \cup {None}, NEW t \in Nat, NEW s \in SUBSET RecRow, IsFiniteSet(s),
         NEW x \in RecRow \ s, NEW M, Fits(M, s, t), NEW N, N \in {M, M \cup {Pos(x, t, p)}}
  PROVE  Fits(N, s \cup {x}, t)
<1> DEFINE a == Sum(Share, M)
           b == Sum(Reach, s)
           z == Size(x, t)
           m == Cardinality(M)
           F == FullPct
<1>w. Share \in [PositionRow -> Nat] /\ Reach \in [RecRow -> Nat]
  BY DEF Share, PositionRow, Reach, RecRow, Larger
<1>1. M \in SUBSET PositionRow /\ IsFiniteSet(M)
  BY DEF Fits
<1>2. a \in Nat /\ b \in Nat /\ m \in Nat /\ F \in Nat /\ z \in Nat
  BY <1>1, <1>w, SumNat, FS_CardinalityType, SizeNat, BoundsAssumption
<1>3. Sum(Reach, s \cup {x}) = b + Reach[x] /\ Reach[x] \in Nat /\ x.high \in Nat /\ x.high <= Reach[x]
  <2>1. Sum(Reach, s \cup {x}) = b + Reach[x]
    BY <1>w, SumAdd
  <2>2. Reach[x] = Larger(x.low, x.high) /\ x.low \in Nat /\ x.high \in Nat
    BY DEF Reach, RecRow
  <2> QED BY <2>1, <2>2 DEF Larger
<1>4. /\ t > F * 10 => 2 * t * a <= 200 * F * b + t * m
      /\ ~(t > F * 10) => a <= 10 * b
  BY DEF Fits
<1>5. /\ t > F * 10 => 2 * t * z <= 200 * F * x.high + t
      /\ ~(t > F * 10) => z = 10 * x.high
  BY SizeNat
<1>6. F * x.high <= F * Reach[x] /\ F * (b + Reach[x]) = F * b + F * Reach[x]
  BY <1>2, <1>3
<1>7. CASE N = M
  <2>1. F * b <= F * (b + Reach[x])
    BY <1>2, <1>3, <1>6
  <2>2. /\ t > F * 10 => 2 * t * a <= 200 * F * (b + Reach[x]) + t * m
        /\ ~(t > F * 10) => a <= 10 * (b + Reach[x])
    BY <1>2, <1>3, <1>4, <2>1
  <2> QED BY <1>1, <1>3, <1>7, <2>2 DEF Fits
<1>8. CASE N = M \cup {Pos(x, t, p)} /\ Pos(x, t, p) \notin M
  <2>1. Pos(x, t, p) \in PositionRow /\ Share[Pos(x, t, p)] = z
    BY ShareNat
  <2>2. Sum(Share, N) = a + z
    BY <1>1, <1>8, <1>w, <2>1, SumAdd
  <2>3. IsFiniteSet(N) /\ Cardinality(N) = m + 1 /\ N \in SUBSET PositionRow
    BY <1>1, <1>8, <2>1, FS_AddElement
  <2>4. 2 * t * (a + z) = 2 * t * a + 2 * t * z /\ t * (m + 1) = t * m + t
    BY <1>2
  <2>5. /\ t > F * 10 => 2 * t * (a + z) <= 200 * F * (b + Reach[x]) + t * (m + 1)
        /\ ~(t > F * 10) => a + z <= 10 * (b + Reach[x])
    BY <1>2, <1>3, <1>4, <1>5, <1>6, <2>4
  <2> QED BY <1>3, <2>2, <2>3, <2>5 DEF Fits
<1>9. Pos(x, t, p) \in M => M \cup {Pos(x, t, p)} = M
  OBVIOUS
<1> QED BY <1>7, <1>8, <1>9

LEMMA AllFit ==
  ASSUME NEW p \in Jobs \cup {None}, NEW S \in SUBSET RecRow, IsFiniteSet(S), NEW t \in Nat,
         NEW M, M \subseteq {Pos(r, t, p) : r \in S}
  PROVE  Fits(M, S, t)
<1> DEFINE pos(s) == {Pos(r, t, p) : r \in s}
           Q == {s \in SUBSET S : \A N \in SUBSET pos(s) : Fits(N, s, t)}
<1>w. Share \in [PositionRow -> Nat] /\ Reach \in [RecRow -> Nat]
  BY DEF Share, PositionRow, Reach, RecRow, Larger
<1>1. {} \in Q
  <2>1. Sum(Share, {}) = 0 /\ Sum(Reach, {}) = 0 /\ Cardinality({}) = 0 /\ IsFiniteSet({})
    BY <1>w, SumEmpty, FS_EmptySet
  <2>2. Fits({}, {}, t)
    BY <2>1, BoundsAssumption DEF Fits
  <2>3. \A N \in SUBSET pos({}) : N = {}
    OBVIOUS
  <2> QED BY <2>2, <2>3
<1>2. ASSUME NEW s \in SUBSET S, s # {}, \A x \in s : s \ {x} \in Q PROVE s \in Q
  <2> SUFFICES ASSUME NEW N \in SUBSET pos(s) PROVE Fits(N, s, t)
    OBVIOUS
  <2>1. PICK x \in s : TRUE
    BY <1>2
  <2> DEFINE u == s \ {x}
             K == N \ {Pos(x, t, p)}
             L == N \cap pos(u)
  <2>2. L \in SUBSET pos(u) /\ u \in Q
    BY <1>2
  <2>3. Fits(L, u, t)
    BY <2>2
  <2>4. N \in {L, L \cup {Pos(x, t, p)}}
    OBVIOUS
  <2>5. u \in SUBSET RecRow /\ IsFiniteSet(u) /\ x \in RecRow \ u /\ u \cup {x} = s
    BY FS_Subset
  <2> HIDE DEF u, L, Q, pos
  <2> QED BY <2>3, <2>4, <2>5, FitsOneMore
<1>3. SUBSET S \subseteq Q
  <2> HIDE DEF Q
  <2> QED BY <1>1, <1>2, SubsetInd
<1> QED BY <1>3

\* The rows a rebuild opens for S allocate the whole at most, but for the rounding.
LEMMA RebuildCapped ==
  ASSUME NEW p \in Jobs \cup {None}, NEW S \in SUBSET RecRow, IsFiniteSet(S),
         NEW M, M \subseteq Positions(S, p)
  PROVE  2 * MapThenSumSet(LAMBDA o : o.pct, M) <= 2 * FullPct * 100 + Cardinality(M)
<1> DEFINE t == Target(S)
           a == Sum(Share, M)
           m == Cardinality(M)
           F == FullPct
<1>1. t = Sum(Reach, S) /\ t \in Nat
  BY TargetIsSum
<1>2. Positions(S, p) = {Pos(r, t, p) : r \in S}
  BY DEF Positions, Pos
<1> HIDE DEF t
<1>3. Fits(M, S, t)
  BY <1>1, <1>2, AllFit
<1>4. IsFiniteSet(M) /\ M \in SUBSET PositionRow
  BY <1>3 DEF Fits
<1>5. MapThenSumSet(LAMBDA o : o.pct, M) = a
  BY <1>4, ShareIsSum
<1>6. a \in Nat /\ m \in Nat /\ F \in Nat
  <2>1. Share \in [PositionRow -> Nat]
    BY DEF Share, PositionRow
  <2> QED BY <1>4, <2>1, SumNat, FS_CardinalityType, BoundsAssumption
<1>7. /\ t > F * 10 => 2 * t * a <= 200 * F * t + t * m
      /\ ~(t > F * 10) => a <= 10 * t
  BY <1>1, <1>3 DEF Fits
<1> HIDE DEF a, m, F
<1>8. CASE t > F * 10
  <2>1. t \in Nat \ {0} /\ 2 * a \in Int /\ 200 * F + m \in Int
    BY <1>1, <1>6, <1>8
  <2>2. t * (2 * a) <= t * (200 * F + m)
    BY <1>1, <1>6, <1>7, <1>8
  <2>3. 2 * a <= 200 * F + m
    BY <2>1, <2>2, Cancel
  <2> QED BY <1>5, <1>6, <2>3 DEF a, m, F
<1>9. CASE ~(t > F * 10)
  <2>1. 2 * a <= 200 * F + m
    BY <1>1, <1>6, <1>7, <1>9
  <2> QED BY <1>5, <1>6, <2>1 DEF a, m, F
<1> QED BY <1>8, <1>9

(***************************************************************************)
(* Types.  Typed says of each job and each table what TypeOK says, and     *)
(* besides that the snapshots a job holds are scorings and that the        *)
(* recommendations are finitely many.                                      *)
(***************************************************************************)
Known == UNION {Bases(s) : s \in Securities}
LatestBases == [Securities -> [snap : Nat, quote : Nat, base : Known]]
Locking == {"lockRecs", "insert", "lockOpen", "open"}
JobRow == [pc : Labels, payload : Profile \cup {NoRow}, prof : Profile \cup {NoRow},
           latest : LatestBases \cup {<<>>}, read : SUBSET RecRow,
           held : SUBSET Keys, want : SUBSET Keys]

JobTyped(p, j) ==
  /\ j \in JobRow /\ IsFiniteSet(j.read)
  /\ j.pc \notin Locking => j.held = {}
  /\ j.pc = "idle" => j.want = {}
  /\ j.pc = "save" => j.payload \in Profile
  /\ j.pc \in {"delete", "lockRecs", "insert"} => j.latest \in LatestBases

Tables ==
  /\ base \in LatestBases
  /\ profile \in Profile
  /\ recs \in SUBSET RecRow /\ IsFiniteSet(recs)
  /\ open \in SUBSET PositionRow
  /\ alone \in Jobs \cup {None}
  /\ saves \in 0 .. MaxSaves /\ crashes \in 0 .. MaxCrashes

Typed ==
  /\ Tables
  /\ job \in [Jobs -> JobRow]
  /\ \A p \in Jobs : JobTyped(p, job[p])

LEMMA BasesTyped == Known \subseteq Base
<1> SUFFICES ASSUME NEW s \in Securities, NEW i \in Signals[s] PROVE BaseRecommendation(i) \in Base
  BY DEF Known, Bases
<1> QED BY SignalsAssumption, BaseRecommendationInRange

LEMMA IdleTyped == ASSUME NEW p \in Jobs PROVE JobTyped(p, Idle) /\ Idle \in JobRow
<1>1. Idle \in JobRow
  BY DEF Idle, JobRow, Labels
<1>2. Idle.held = {} /\ Idle.want = {} /\ Idle.read = {} /\ Idle.pc = "idle"
  BY DEF Idle
<1> QED BY <1>1, <1>2, FS_EmptySet DEF JobTyped

LEMMA PayloadTyped == Profiles \subseteq Profile
<1> SUFFICES ASSUME NEW d \in Profiles PROVE d \in Profile
  OBVIOUS
<1>1. d = [c \in Columns |-> d[c]]
  BY ProfilesAssumption
<1>2. \A c \in Columns : d[c] \in UNION {{e[b] : b \in Columns} : e \in Profiles}
  OBVIOUS
<1> QED BY <1>1, <1>2 DEF Profile

\* What a recommendation is made of.
LEMMA AdviceTyped ==
  ASSUME NEW latest \in LatestBases, NEW q
  PROVE  Advice(latest, q) \in SUBSET RecRow /\ IsFiniteSet(Advice(latest, q))
<1>1. ASSUME NEW s \in Securities
      PROVE  Recommendation(s, latest[s], q) \in RecRow
  <2> DEFINE b == latest[s].base
  <2>1. b \in Base /\ latest[s].snap \in Nat
    BY BasesTyped DEF LatestBases
  <2> HIDE DEF b
  <2>2. b.conviction \in 1 .. 5 /\ b.action \in Actions
    BY <2>1 DEF Base
  <2>3. AdvisedAction(b, q) \in Actions
    BY <2>2 DEF AdvisedAction, Actions
  <2>4. RiskPenalty(q) \in 0 .. 30
    BY DEF RiskPenalty
  <2>5. Fit(b, q) \in 45 .. 95
    <3> DEFINE n == CASE q.holding = "short_term" -> 4 [] q.holding = "long_term" -> -2 [] OTHER -> 0
               m == IF AdvisedAction(b, q) = b.action THEN 4 ELSE -8
               raw == 68 + n + m - RiskPenalty(q)
    <3>1. n \in Int /\ m \in Int
      OBVIOUS
    <3> HIDE DEF n, m
    <3>2. raw \in Int
      BY <2>4, <3>1
    <3>3. Fit(b, q) = Larger(45, Smaller(95, raw))
      BY DEF Fit, n, m
    <3> HIDE DEF raw
    <3> QED BY <3>2, <3>3 DEF Larger, Smaller
  <2>6. BandLow(b, q) \in 0 .. 60
    BY DEF BandLow, Larger
  <2>7. BandHigh(b, q) \in 0 .. 140
    <3> DEFINE high == CASE q.risk = "aggressive" -> 120 [] q.risk = "balanced" -> 80 [] OTHER -> 50
               low == BandLow(b, q)
    <3>1. high \in 50 .. 120
      OBVIOUS
    <3>2. BandHigh(b, q) =
            (CASE AdvisedAction(b, q) = "sell" -> 0
               [] AdvisedAction(b, q) = "hold" -> Larger(low + 10, high - 30)
               [] OTHER -> high) + (IF b.conviction >= 4 THEN 20 ELSE 0)
      BY DEF BandHigh
    <3>3. low \in 0 .. 60
      BY <2>6
    <3> HIDE DEF high, low
    <3> QED BY <3>1, <3>2, <3>3 DEF Larger
  <2> QED BY <2>1, <2>2, <2>3, <2>5, <2>6, <2>7 DEF Recommendation, RecRow, b
<1> DEFINE f == [s \in Securities |-> Recommendation(s, latest[s], q)]
<1>2. Advice(latest, q) = {f[s] : s \in Securities}
  BY DEF Advice
<1>3. DOMAIN f = Securities
  OBVIOUS
<1> HIDE DEF f
<1>4. IsFiniteSet(Advice(latest, q))
  BY <1>2, <1>3, SecuritiesAssumption, FiniteImage
<1> QED BY <1>1, <1>4 DEF Advice

LEMMA PicksTyped ==
  ASSUME NEW R \in SUBSET RecRow, IsFiniteSet(R), NEW S \in Picks(R), NEW p \in Jobs \cup {None}
  PROVE  S \in SUBSET RecRow /\ IsFiniteSet(S) /\ Positions(S, p) \subseteq PositionRow
<1>1. S \in SUBSET R
  BY DEF Picks
<1>2. S \in SUBSET RecRow /\ IsFiniteSet(S)
  BY <1>1, FS_Subset
<1>3. Target(S) \in Nat
  BY <1>2, TargetIsSum
<1>4. \A r \in S : Pos(r, Target(S), p) \in PositionRow
  BY <1>2, <1>3, ShareNat
<1> QED BY <1>2, <1>4 DEF Positions, Pos

\* What Set and Committed do to the jobs.
LEMMA SetIs ==
  ASSUME Typed, NEW p \in Jobs, NEW j, JobTyped(p, j), Set(p, j)
  PROVE  /\ job' \in [Jobs -> JobRow] /\ \A q \in Jobs : JobTyped(q, job'[q])
         /\ job'[p] = j /\ \A q \in Jobs \ {p} : job'[q] = job[q]
<1>1. job' = [job EXCEPT ![p] = j] /\ job \in [Jobs -> JobRow] /\ j \in JobRow
  BY DEF Set, Typed, JobTyped
<1>2. job'[p] = j /\ \A q \in Jobs \ {p} : job'[q] = job[q]
  BY <1>1
<1>3. job' \in [Jobs -> JobRow]
  BY <1>1
<1>4. \A q \in Jobs : JobTyped(q, job'[q])
  BY <1>2 DEF Typed
<1> QED BY <1>2, <1>3, <1>4

LEMMA CommittedIs ==
  ASSUME Typed, NEW p \in Jobs, NEW j, JobTyped(p, j), NEW deleting,
         job' = Committed(job, p, j, deleting)
  PROVE  /\ job' \in [Jobs -> JobRow] /\ \A q \in Jobs : JobTyped(q, job'[q])
         /\ job'[p] = j
         /\ \A q \in Jobs \ {p} :
              /\ job'[q].pc = job[q].pc /\ job'[q].held = job[q].held
              /\ job'[q].want = IF job[q].pc \in deleting THEN job[q].want \ job[p].held
                               ELSE job[q].want
<1> DEFINE left(q) == IF job[q].pc \in deleting THEN job[q].want \ job[p].held ELSE job[q].want
           other(q) == [job[q] EXCEPT !.want = left(q)]
<1>0. DOMAIN job = Jobs /\ \A q \in Jobs : job[q] \in JobRow /\ JobTyped(q, job[q])
  BY DEF Typed
<1>1. job' = [q \in Jobs |-> IF q = p THEN j ELSE other(q)]
  <2>1. \A q \in Jobs : [job[q] EXCEPT !.want = job[q].want] = job[q]
    BY <1>0 DEF JobRow
  <2> QED BY <1>0, <2>1 DEF Committed
<1>2. ASSUME NEW q \in Jobs
      PROVE  /\ other(q) \in JobRow /\ JobTyped(q, other(q))
             /\ other(q).pc = job[q].pc /\ other(q).held = job[q].held /\ other(q).want = left(q)
  <2>1. left(q) \subseteq job[q].want
    OBVIOUS
  <2> HIDE DEF left
  <2>2. /\ other(q) \in JobRow
        /\ other(q).pc = job[q].pc /\ other(q).payload = job[q].payload
        /\ other(q).latest = job[q].latest /\ other(q).read = job[q].read
        /\ other(q).held = job[q].held /\ other(q).want = left(q)
    BY <1>0, <2>1 DEF JobRow
  <2> HIDE DEF other
  <2> QED BY <1>0, <2>1, <2>2 DEF JobTyped
<1> HIDE DEF other
<1>3. j \in JobRow
  BY DEF JobTyped
<1>4. job' \in [Jobs -> JobRow]
  BY <1>1, <1>2, <1>3
<1>5. \A q \in Jobs : job'[q] = IF q = p THEN j ELSE other(q)
  BY <1>1
<1>6. \A q \in Jobs : JobTyped(q, job'[q])
  BY <1>2, <1>5
<1> QED BY <1>2, <1>4, <1>5, <1>6

\* A statement reaches only what it wants, and all of it if nobody else holds anything.
LEMMA ReachedWanted ==
  ASSUME NEW p \in Jobs, NEW keys \in Reached(job, p)
  PROVE  keys \subseteq job[p].want
BY DEF Reached, Free

LEMMA ReachedAlone ==
  ASSUME Typed, NEW p \in Jobs, \A q \in Jobs \ {p} : At(q, "idle"), NEW keys \in Reached(job, p)
  PROVE  keys = job[p].want
<1>1. DOMAIN job = Jobs /\ \A q \in Jobs \ {p} : job[q].held = {}
  BY DEF Typed, JobTyped, At, Locking
<1>2. HeldBeside(job, p) = {}
  BY <1>1 DEF HeldBeside
<1> QED BY <1>2 DEF Reached, Free

LEMMA TablesStep ==
  ASSUME Typed, [Next]_vars
  PROVE  Tables'
<1>1. ASSUME NEW s \in Securities, Publish(s) PROVE Tables'
  <2>1. base' \in LatestBases
    <3>1. base[s].snap \in Nat /\ base[s].quote \in Nat /\ base \in LatestBases
      BY DEF Typed, Tables, LatestBases
    <3>2. PICK b \in Known :
            \/ base' = [base EXCEPT ![s] = [snap |-> @.snap + 1, quote |-> @.quote, base |-> b]]
            \/ base' = [base EXCEPT ![s] = [snap |-> @.snap, quote |-> @.quote + 1, base |-> b]]
      BY <1>1 DEF Publish, Known
    <3> QED BY <3>1, <3>2 DEF LatestBases
  <2> QED BY <1>1, <2>1 DEF Publish, Typed, Tables
<1>2. ASSUME NEW p \in Jobs, Start(p) PROVE Tables'
  <2>1. alone' \in {p, None} /\ saves' \in 0 .. MaxSaves
        /\ UNCHANGED <<base, profile, recs, open, crashes>>
    <3>1. CASE StartSave(p)
      <4>1. saves' = saves + 1 /\ saves < MaxSaves /\ saves \in 0 .. MaxSaves
        BY <3>1 DEF StartSave, Typed, Tables
      <4>2. saves' \in 0 .. MaxSaves
        BY <4>1, BoundsAssumption
      <4> QED BY <3>1, <4>2 DEF StartSave, Enter
    <3>2. CASE StartWithProfile(p) \/ StartClick(p)
      BY <3>2 DEF StartWithProfile, StartClick, Enter, Typed, Tables
    <3> QED BY <1>2, <3>1, <3>2 DEF Start
  <2> QED BY <2>1 DEF Typed, Tables
<1>3. ASSUME NEW p \in Jobs, Save(p) PROVE Tables'
  <2>1. job[p].payload \in Profile /\ profile \in Profile
    BY <1>3 DEF Save, At, Typed, JobTyped, Tables
  <2>2. profile' \in Profile
    BY <1>3, <2>1 DEF Save, Profile
  <2> QED BY <1>3, <2>2 DEF Save, Typed, Tables
<1>4. ASSUME NEW p \in Jobs, CommitRecs(p) PROVE Tables'
  <2> DEFINE new == NewRecs(p)
  <2>1. job[p].latest \in LatestBases
    BY <1>4 DEF CommitRecs, At, Typed, JobTyped
  <2>2. new \in SUBSET RecRow /\ IsFiniteSet(new)
    BY <2>1, AdviceTyped DEF NewRecs
  <2>3. recs' = Kept(p) \cup new
    BY <1>4 DEF CommitRecs
  <2>4. Kept(p) \in SUBSET RecRow /\ IsFiniteSet(Kept(p))
    BY FS_Subset DEF Kept, Typed, Tables
  <2> HIDE DEF new
  <2>5. recs' \in SUBSET RecRow /\ IsFiniteSet(recs')
    BY <2>2, <2>3, <2>4, FS_Union DEF Typed, Tables
  <2> QED BY <1>4, <2>5 DEF CommitRecs, Typed, Tables
<1>5. ASSUME NEW p \in Jobs, OpenPositions(p) PROVE Tables'
  <2>1. PICK S \in Picks(job[p].read) : open' = StillOpen(p) \cup Positions(S, p)
    BY <1>5 DEF OpenPositions
  <2>2. job[p].read \in SUBSET RecRow /\ IsFiniteSet(job[p].read)
    BY DEF Typed, JobTyped, JobRow
  <2>3. Positions(S, p) \subseteq PositionRow
    BY <2>2, PicksTyped
  <2>4. open' \in SUBSET PositionRow
    BY <2>1, <2>3 DEF StillOpen, Typed, Tables
  <2> QED BY <1>5, <2>4 DEF OpenPositions, Typed, Tables
<1>6. ASSUME NEW p \in Jobs,
             \/ Reload(p) \/ ReadLatest(p) \/ DeleteRecs(p) \/ LockRecs(p) \/ RecsConflict(p)
             \/ InsertRecs(p) \/ ReadRecs(p) \/ ClosePositions(p) \/ LockOpen(p) \/ Deadlock(p)
      PROVE  Tables'
  BY <1>6 DEF Reload, ReadLatest, DeleteRecs, LockRecs, RecsConflict, InsertRecs, ReadRecs,
              ClosePositions, LockOpen, Deadlock, Typed, Tables
<1>7. ASSUME NEW p \in Jobs, Crash(p) PROVE Tables'
  BY <1>7, BoundsAssumption DEF Crash, Typed, Tables
<1>8. CASE UNCHANGED vars
  BY <1>8 DEF vars, Typed, Tables
<1> QED BY <1>1, <1>2, <1>3, <1>4, <1>5, <1>6, <1>7, <1>8 DEF Next, Step, Rebuild, Resize

\* What a job holds after a step of its own that ends no transaction.
Goes(p, j) ==
  \/ /\ At(p, "idle")
     /\ \/ \E d \in Profiles : j = [Idle EXCEPT !.pc = "save", !.payload = d, !.prof = profile]
        \/ j = [Idle EXCEPT !.pc = "latest", !.prof = profile]
        \/ j = [Idle EXCEPT !.pc = "pick"]
  \/ At(p, "save") /\ j = [job[p] EXCEPT !.pc = "reload"]
  \/ At(p, "reload") /\ j = [job[p] EXCEPT !.pc = "latest", !.prof = profile]
  \/ At(p, "latest") /\ j = [job[p] EXCEPT !.pc = "delete", !.latest = base]
  \/ At(p, "delete") /\ j = [job[p] EXCEPT !.pc = "lockRecs", !.want = {RecKey(r) : r \in recs}]
  \/ /\ At(p, "lockRecs")
     /\ \E keys \in SUBSET job[p].want :
          j = [job[p] EXCEPT !.held = @ \cup keys,
                 !.pc = IF keys = job[p].want THEN "insert" ELSE @,
                 !.want = IF keys = job[p].want THEN {RecKey(r) : r \in NewRecs(p)} ELSE @ \ keys]
  \/ /\ At(p, "insert")
     /\ \E keys \in SUBSET job[p].want :
          j = [job[p] EXCEPT !.held = @ \cup keys, !.want = @ \ keys]
  \/ At(p, "pick") /\ j = [job[p] EXCEPT !.pc = "close", !.read = recs]
  \/ At(p, "close") /\ j = [job[p] EXCEPT !.pc = "lockOpen", !.want = {PositionKey(o) : o \in open}]
  \/ /\ At(p, "lockOpen")
     /\ \E keys \in SUBSET job[p].want :
          j = [job[p] EXCEPT !.held = @ \cup keys, !.want = @ \ keys,
                 !.pc = IF keys = job[p].want THEN "open" ELSE @]

LEMMA GoesTyped ==
  ASSUME Typed, NEW p \in Jobs, NEW j, Goes(p, j)
  PROVE  JobTyped(p, j)
<1> USE DEF Locking
<1>j. job[p] \in JobRow /\ JobTyped(p, job[p]) /\ JobTyped(p, Idle) /\ Idle \in JobRow
  BY IdleTyped DEF Typed
<1>t. base \in LatestBases /\ profile \in Profile /\ recs \in SUBSET RecRow
      /\ IsFiniteSet(recs) /\ open \in SUBSET PositionRow
  BY DEF Typed, Tables
<1>r. \A R \in SUBSET RecRow : {RecKey(r) : r \in R} \in SUBSET Keys
  BY DEF RecRow, RecKey, Keys
<1>l. Labels = {"idle", "save", "reload", "latest", "delete", "lockRecs", "insert", "pick",
                "close", "lockOpen", "open"}
  BY DEF Labels
<1>h. job[p].held \in SUBSET Keys /\ job[p].want \in SUBSET Keys
  BY <1>j DEF JobRow
<1>1. ASSUME At(p, "idle"), NEW d \in Profiles,
             j = [Idle EXCEPT !.pc = "save", !.payload = d, !.prof = profile]
      PROVE  JobTyped(p, j)
  <2>1. d \in Profile BY PayloadTyped
  <2> QED BY <1>1, <2>1, <1>j, <1>t, <1>l DEF JobTyped, JobRow, Idle
<1>2. CASE j = [Idle EXCEPT !.pc = "latest", !.prof = profile]
  BY <1>2, <1>j, <1>t, <1>l DEF JobTyped, JobRow, Idle
<1>3. CASE j = [Idle EXCEPT !.pc = "pick"]
  BY <1>3, <1>j, <1>l DEF JobTyped, JobRow, Idle
<1>4. CASE At(p, "save") /\ j = [job[p] EXCEPT !.pc = "reload"]
  BY <1>4, <1>j, <1>l DEF JobTyped, JobRow, At
<1>5. CASE At(p, "reload") /\ j = [job[p] EXCEPT !.pc = "latest", !.prof = profile]
  BY <1>5, <1>j, <1>t, <1>l DEF JobTyped, JobRow, At
<1>6. CASE At(p, "latest") /\ j = [job[p] EXCEPT !.pc = "delete", !.latest = base]
  BY <1>6, <1>j, <1>t, <1>l DEF JobTyped, JobRow, At
\* One that locks: what it holds and wants afterwards is of the keys there are.
<1>7. ASSUME At(p, "delete") \/ At(p, "close") \/ At(p, "lockRecs") \/ At(p, "insert") \/ At(p, "lockOpen"),
             NEW pc \in Locking, NEW held \in SUBSET Keys, NEW want \in SUBSET Keys,
             pc \in {"lockRecs", "insert"} => At(p, "delete") \/ At(p, "lockRecs") \/ At(p, "insert"),
             j = [job[p] EXCEPT !.pc = pc, !.held = held, !.want = want]
      PROVE  JobTyped(p, j)
  <2>1. /\ j \in JobRow /\ j.pc = pc /\ j.held = held /\ j.want = want
        /\ j.read = job[p].read /\ j.latest = job[p].latest
    BY <1>7, <1>j, <1>l DEF JobRow
  <2>2. j.pc \in {"lockRecs", "insert"} => job[p].latest \in LatestBases
    BY <1>7, <2>1, <1>j DEF At, JobTyped
  <2> QED BY <1>7, <2>1, <2>2, <1>j DEF JobTyped
<1>8. CASE At(p, "delete") /\ j = [job[p] EXCEPT !.pc = "lockRecs", !.want = {RecKey(r) : r \in recs}]
  <2> DEFINE want == {RecKey(r) : r \in recs}
  <2>1. want \in SUBSET Keys BY <1>r, <1>t
  <2> HIDE DEF want
  <2>2. j = [job[p] EXCEPT !.pc = "lockRecs", !.want = want] BY <1>8 DEF want
  <2>3. j = [job[p] EXCEPT !.pc = "lockRecs", !.held = job[p].held, !.want = want]
    BY <2>2, <1>j DEF JobRow
  <2> QED BY <1>7, <1>8, <1>h, <2>1, <2>3
<1>9. ASSUME At(p, "lockRecs"), NEW keys \in SUBSET job[p].want,
             j = [job[p] EXCEPT !.held = @ \cup keys,
                    !.pc = IF keys = job[p].want THEN "insert" ELSE @,
                    !.want = IF keys = job[p].want THEN {RecKey(r) : r \in NewRecs(p)} ELSE @ \ keys]
      PROVE  JobTyped(p, j)
  <2> DEFINE new == {RecKey(r) : r \in NewRecs(p)}
             pc == IF keys = job[p].want THEN "insert" ELSE "lockRecs"
             want == IF keys = job[p].want THEN new ELSE job[p].want \ keys
             held == job[p].held \cup keys
  <2>1. job[p].latest \in LatestBases BY <1>9, <1>j DEF At, JobTyped
  <2>2. NewRecs(p) \in SUBSET RecRow BY <2>1, AdviceTyped DEF NewRecs
  <2>3. new \in SUBSET Keys BY <1>r, <2>2
  <2> HIDE DEF new
  <2>4. want \in SUBSET Keys /\ held \in SUBSET Keys /\ pc \in Locking BY <1>h, <2>3
  <2>5. j = [job[p] EXCEPT !.pc = pc, !.held = held, !.want = want]
    BY <1>9, <1>j DEF JobRow, At, new
  <2>6. pc \in {"lockRecs", "insert"} => At(p, "delete") \/ At(p, "lockRecs") \/ At(p, "insert")
    BY <1>9
  <2> HIDE DEF pc, want, held
  <2>7. At(p, "lockRecs") BY <1>9
  <2> QED BY <1>7, <2>4, <2>5, <2>6, <2>7
<1>10. ASSUME At(p, "insert"), NEW keys \in SUBSET job[p].want,
              j = [job[p] EXCEPT !.held = @ \cup keys, !.want = @ \ keys]
       PROVE  JobTyped(p, j)
  <2> DEFINE want == job[p].want \ keys
             held == job[p].held \cup keys
  <2>1. want \in SUBSET Keys /\ held \in SUBSET Keys BY <1>h
  <2>2. j = [job[p] EXCEPT !.pc = "insert", !.held = held, !.want = want]
    BY <1>10, <1>j DEF JobRow, At
  <2> HIDE DEF want, held
  <2> QED BY <1>7, <1>10, <2>1, <2>2
<1>11. CASE At(p, "pick") /\ j = [job[p] EXCEPT !.pc = "close", !.read = recs]
  BY <1>11, <1>j, <1>t, <1>l DEF JobTyped, JobRow, At
<1>12. CASE At(p, "close") /\ j = [job[p] EXCEPT !.pc = "lockOpen", !.want = {PositionKey(o) : o \in open}]
  <2> DEFINE want == {PositionKey(o) : o \in open}
  <2>1. want \in SUBSET Keys BY <1>t DEF PositionRow, PositionKey, Keys
  <2> HIDE DEF want
  <2>2. j = [job[p] EXCEPT !.pc = "lockOpen", !.want = want] BY <1>12 DEF want
  <2>3. j = [job[p] EXCEPT !.pc = "lockOpen", !.held = job[p].held, !.want = want]
    BY <2>2, <1>j DEF JobRow
  <2> QED BY <1>7, <1>12, <1>h, <2>1, <2>3
<1>13. ASSUME At(p, "lockOpen"), NEW keys \in SUBSET job[p].want,
              j = [job[p] EXCEPT !.held = @ \cup keys, !.want = @ \ keys,
                     !.pc = IF keys = job[p].want THEN "open" ELSE @]
       PROVE  JobTyped(p, j)
  <2> DEFINE pc == IF keys = job[p].want THEN "open" ELSE "lockOpen"
             want == job[p].want \ keys
             held == job[p].held \cup keys
  <2>1. want \in SUBSET Keys /\ held \in SUBSET Keys /\ pc \in {"open", "lockOpen"} BY <1>h
  <2>2. j = [job[p] EXCEPT !.pc = pc, !.held = held, !.want = want]
    BY <1>13, <1>j DEF JobRow, At
  <2> HIDE DEF pc, want, held
  <2> QED BY <1>7, <1>13, <2>1, <2>2
<1> QED BY <1>1, <1>2, <1>3, <1>4, <1>5, <1>6, <1>8, <1>9, <1>10, <1>11, <1>12, <1>13 DEF Goes

LEMMA AfterTyped == ASSUME Typed, NEW p \in Jobs PROVE JobTyped(p, After(p))
<1>1. job[p] \in JobRow /\ JobTyped(p, Idle) /\ Idle \in JobRow /\ "pick" \in Labels
  BY IdleTyped DEF Typed, Labels
<1>2. JobTyped(p, [Idle EXCEPT !.pc = "pick", !.payload = job[p].payload])
  BY <1>1 DEF JobTyped, JobRow, Idle, Locking
<1> QED BY <1>1, <1>2 DEF After

\* A step of a job sets its own entry, or ends a transaction.
LEMMA JobMoves ==
  ASSUME NEW p \in Jobs, Start(p) \/ Step(p) \/ Crash(p)
  PROVE  \/ \E j : Goes(p, j) /\ Set(p, j)
         \/ (RecsConflict(p) \/ Deadlock(p) \/ Crash(p)) /\ Set(p, Idle)
         \/ CommitRecs(p) /\ job' = Committed(job, p, After(p), {"lockRecs"})
         \/ OpenPositions(p) /\ job' = Committed(job, p, Idle, {"lockOpen"})
<1>1. CASE Start(p)
  BY <1>1 DEF Start, StartSave, StartWithProfile, StartClick, Enter, Goes
<1>2. CASE LockRecs(p)
  BY <1>2, ReachedWanted DEF LockRecs, Goes
<1>3. CASE InsertRecs(p)
  BY <1>3, ReachedWanted DEF InsertRecs, Goes
<1>4. CASE LockOpen(p)
  BY <1>4, ReachedWanted DEF LockOpen, Goes
<1>5. CASE Save(p) \/ Reload(p) \/ ReadLatest(p) \/ DeleteRecs(p) \/ ReadRecs(p) \/ ClosePositions(p)
  BY <1>5 DEF Save, Reload, ReadLatest, DeleteRecs, ReadRecs, ClosePositions, Goes
<1>6. CASE RecsConflict(p) \/ Deadlock(p) \/ Crash(p) \/ CommitRecs(p) \/ OpenPositions(p)
  BY <1>6 DEF RecsConflict, Deadlock, Crash, CommitRecs, OpenPositions
<1> QED BY <1>1, <1>2, <1>3, <1>4, <1>5, <1>6 DEF Step, Rebuild, Resize

LEMMA TypedStep ==
  ASSUME Typed, [Next]_vars
  PROVE  Typed'
<1>1. ASSUME NEW p \in Jobs, Start(p) \/ Step(p) \/ Crash(p)
      PROVE  job' \in [Jobs -> JobRow] /\ \A q \in Jobs : JobTyped(q, job'[q])
  <2>1. ASSUME NEW j, Goes(p, j), Set(p, j)
        PROVE  job' \in [Jobs -> JobRow] /\ \A q \in Jobs : JobTyped(q, job'[q])
    BY <2>1, GoesTyped, SetIs
  <2>0. JobTyped(p, Idle) /\ JobTyped(p, After(p))
    BY IdleTyped, AfterTyped
  <2>2. CASE Set(p, Idle)
    BY <2>0, <2>2, SetIs
  <2>3. CASE job' = Committed(job, p, After(p), {"lockRecs"})
    BY <2>0, <2>3, CommittedIs
  <2>4. CASE job' = Committed(job, p, Idle, {"lockOpen"})
    BY <2>0, <2>4, CommittedIs
  <2> QED BY <1>1, <2>1, <2>2, <2>3, <2>4, JobMoves
<1>2. CASE UNCHANGED vars \/ \E s \in Securities : Publish(s)
  <2>1. job' = job
    BY <1>2 DEF vars, Publish
  <2> QED BY <2>1, TablesStep DEF Typed
<1> QED BY <1>1, <1>2, TablesStep DEF Next, Typed

LEMMA InitTyped == Init => Typed
<1> SUFFICES ASSUME Init PROVE Typed
  OBVIOUS
<1>1. base \in LatestBases /\ profile \in Profile
  BY PayloadTyped DEF Init, LatestBases, Known
<1>2. recs \in SUBSET RecRow /\ IsFiniteSet(recs)
  BY <1>1, AdviceTyped DEF Init
<1>3. open \in SUBSET PositionRow
  <2>1. PICK S \in Picks(recs) : open = Positions(S, None)
    BY DEF Init
  <2> QED BY <1>2, <2>1, PicksTyped
<1>4. job = [p \in Jobs |-> Idle]
  BY DEF Init
<1>5. job \in [Jobs -> JobRow] /\ \A p \in Jobs : JobTyped(p, job[p])
  BY <1>4, IdleTyped
<1>6. alone = None /\ saves = 0 /\ crashes = 0
  BY DEF Init
<1> QED BY <1>1, <1>2, <1>3, <1>5, <1>6, BoundsAssumption DEF Typed, Tables

LEMMA AlwaysTyped == Spec => []Typed
BY InitTyped, TypedStep, PTL DEF Spec

\* The rows and what each job holds of them keep their types: a recommendation's fit is
\* 45% to 95% and its band at most 14% (personalize_recommendation), for all securities,
\* profiles, events and jobs.
THEOREM TypeCorrect == Spec => []TypeOK
<1>1. Typed => TypeOK
  <2> SUFFICES ASSUME Typed PROVE TypeOK
    OBVIOUS
  <2>1. LatestBases \subseteq Latests
    BY BasesTyped DEF LatestBases, Latests
  <2>2. ASSUME NEW p \in Jobs
        PROVE  /\ job[p].pc \in Labels
               /\ {job[p].payload, job[p].prof} \subseteq Profile \cup {NoRow}
               /\ job[p].latest \in Latests \cup {<<>>}
               /\ job[p].read \subseteq RecRow
               /\ job[p].held \cup job[p].want \subseteq Keys
    <3>1. job[p] \in JobRow
      BY DEF Typed
    <3> QED BY <2>1, <3>1 DEF JobRow
  <2> QED BY <2>1, <2>2 DEF Typed, Tables, TypeOK
<1> QED BY <1>1, AlwaysTyped, PTL

\* Whatever the profile, a recommendation to buy means that the scoring said buy.
LEMMA AdviceFollows ==
  ASSUME NEW b \in Known, NEW q, AdvisedAction(b, q) = "buy"
  PROVE  b.action = "buy"
<1>1. PICK s \in Securities : \E i \in Signals[s] : b = BaseRecommendation(i)
  BY DEF Known, Bases
<1>i. PICK i \in Signals[s] : b = BaseRecommendation(i)
  BY <1>1
<1>2. i \in Inputs
  BY SignalsAssumption
<1>3. b \in Base /\ (b.action = "hold" => b.conviction <= 3)
  BY <1>i, <1>2, BaseRecommendationInRange
<1>4. ~(b.action = "hold" /\ b.conviction >= 4)
  BY <1>3 DEF Base
<1> QED BY <1>4 DEF AdvisedAction

\* For any events, quotes, profiles and jobs: nobody is told to buy what the scoring
\* did not call a buy (personalize_recommendation in rebuild_user_recommendations_for_user).
THEOREM NeverInvents == Spec => NoInventedBuy
<1>1. ASSUME Typed, [Next]_vars, NEW p \in Jobs, CommitRecs(p),
             NEW r \in recs' \ recs, r.action = "buy"
      PROVE  job[p].latest[r.sec].base.action = "buy"
  <2>1. job[p].latest \in LatestBases
    BY <1>1 DEF CommitRecs, At, Typed, JobTyped
  <2>2. r \in Advice(job[p].latest, job[p].prof)
    BY <1>1 DEF CommitRecs, Kept, NewRecs
  <2>3. PICK s \in Securities : r = Recommendation(s, job[p].latest[s], job[p].prof)
    BY <2>2 DEF Advice
  <2>4. r.sec = s /\ AdvisedAction(job[p].latest[s].base, job[p].prof) = "buy"
    BY <1>1, <2>3 DEF Recommendation
  <2>5. job[p].latest[s].base \in Known
    BY <2>1 DEF LatestBases
  <2> QED BY <2>4, <2>5, AdviceFollows
<1>2. Typed /\ [Next]_vars
        => [\A p \in Jobs : CommitRecs(p) =>
              \A r \in recs' \ recs : r.action = "buy" => job[p].latest[r.sec].base.action = "buy"]_vars
  BY <1>1
<1> QED BY <1>2, AlwaysTyped, PTL DEF Spec, NoInventedBuy

(***************************************************************************)
(* The cap.  The open rows of a job are of one rebuild: before it opens    *)
(* rows, those of its earlier runs are among the rows it closes.           *)
(***************************************************************************)
Own(p) == {o \in open : o.by = p}
\* The open rows in O of job p are among those its UPDATE, as of j, has or is to reach.
Closes(p, j, O) ==
  \A o \in O : o.by = p =>
    /\ j.pc = "lockOpen" => PositionKey(o) \in j.held \cup j.want
    /\ j.pc = "open" => PositionKey(o) \in j.held
OneRebuild ==
  /\ \A p \in Jobs \cup {None} :
       \E S \in SUBSET RecRow : IsFiniteSet(S) /\ Own(p) \subseteq Positions(S, p)
  /\ \A p \in Jobs : Closes(p, job[p], open)

LEMMA OneRebuildStep ==
  ASSUME Typed, OneRebuild, [Next]_vars
  PROVE  OneRebuild'
<1>0. /\ Idle.pc = "idle" /\ \A q \in Jobs : After(q).pc \in {"idle", "pick"}
      /\ \A q \in Jobs : job[q] \in JobRow /\ Closes(q, job[q], open) /\ JobTyped(q, job[q])
      /\ \A q \in Jobs : JobTyped(q, Idle) /\ JobTyped(q, After(q))
  BY IdleTyped, AfterTyped DEF Idle, After, Typed, OneRebuild
<1>1. ASSUME open' = open, \A q \in Jobs : Closes(q, job'[q], open)
      PROVE  OneRebuild'
  BY <1>1 DEF OneRebuild, Own
<1>2. ASSUME NEW p \in Jobs, NEW j, Goes(p, j), Set(p, j), open' = open
      PROVE  OneRebuild'
  <2>1. job'[p] = j /\ \A q \in Jobs \ {p} : job'[q] = job[q]
    BY <1>2, GoesTyped, SetIs
  <2>2. CASE j.pc \notin {"lockOpen", "open"}
    <3>1. Closes(p, j, open) BY <2>2 DEF Closes
    <3> QED BY <1>0, <1>1, <1>2, <2>1, <3>1
  <2>3. CASE j.pc \in {"lockOpen", "open"}
    <3>1. \/ At(p, "close") /\ j = [job[p] EXCEPT !.pc = "lockOpen", !.want = {PositionKey(o) : o \in open}]
          \/ /\ At(p, "lockOpen")
             /\ \E keys \in SUBSET job[p].want :
                  j = [job[p] EXCEPT !.held = @ \cup keys, !.want = @ \ keys,
                         !.pc = IF keys = job[p].want THEN "open" ELSE @]
      BY <1>0, <1>2, <2>3 DEF Goes, JobRow, Idle, At
    <3>2. CASE j = [job[p] EXCEPT !.pc = "lockOpen", !.want = {PositionKey(o) : o \in open}]
      <4>1. j.pc = "lockOpen" /\ j.want = {PositionKey(o) : o \in open}
        BY <1>0, <3>2 DEF JobRow
      <4>2. Closes(p, j, open) BY <4>1 DEF Closes
      <4> QED BY <1>0, <1>1, <1>2, <2>1, <4>2
    <3>3. ASSUME At(p, "lockOpen"), NEW keys \in SUBSET job[p].want,
                 j = [job[p] EXCEPT !.held = @ \cup keys, !.want = @ \ keys,
                        !.pc = IF keys = job[p].want THEN "open" ELSE @]
          PROVE  OneRebuild'
      <4>1. /\ j.held = job[p].held \cup keys /\ j.want = job[p].want \ keys
            /\ j.pc = IF keys = job[p].want THEN "open" ELSE "lockOpen"
        BY <1>0, <3>3 DEF JobRow, At
      <4>2. \A o \in open : o.by = p => PositionKey(o) \in job[p].held \cup job[p].want
        BY <1>0, <3>3 DEF Closes, At
      <4>3. Closes(p, j, open) BY <4>1, <4>2 DEF Closes
      <4> QED BY <1>0, <1>1, <1>2, <2>1, <4>3
    <3> QED BY <3>1, <3>2, <3>3
  <2> QED BY <2>2, <2>3
<1>3. ASSUME NEW p \in Jobs, CommitRecs(p) PROVE OneRebuild'
  <2>1. job' = Committed(job, p, After(p), {"lockRecs"}) /\ open' = open
    BY <1>3 DEF CommitRecs
  <2>2. /\ job'[p] = After(p)
        /\ \A q \in Jobs \ {p} :
             /\ job'[q].pc = job[q].pc /\ job'[q].held = job[q].held
             /\ job[q].pc # "lockRecs" => job'[q].want = job[q].want
    <3> DEFINE j == After(p)
    <3>1. JobTyped(p, j) BY <1>0
    <3>2. job' = Committed(job, p, j, {"lockRecs"}) BY <2>1
    <3> HIDE DEF j
    <3>3. /\ job'[p] = j
          /\ \A q \in Jobs \ {p} :
               /\ job'[q].pc = job[q].pc /\ job'[q].held = job[q].held
               /\ job'[q].want = IF job[q].pc \in {"lockRecs"} THEN job[q].want \ job[p].held
                                ELSE job[q].want
      BY <3>1, <3>2, CommittedIs
    <3> QED BY <3>3 DEF j
  <2>3. Closes(p, After(p), open) BY <1>0 DEF Closes
  <2>4. ASSUME NEW q \in Jobs \ {p} PROVE Closes(q, job'[q], open)
    BY <1>0, <2>2 DEF Closes
  <2> QED BY <1>1, <2>1, <2>2, <2>3, <2>4
<1>4. ASSUME NEW p \in Jobs, OpenPositions(p)
      PROVE  OneRebuild'
  <2>1. PICK S \in Picks(job[p].read) : open' = StillOpen(p) \cup Positions(S, p)
    BY <1>4 DEF OpenPositions
  <2>2. S \in SUBSET RecRow /\ IsFiniteSet(S)
    BY PicksTyped DEF Typed, JobTyped, JobRow
  <2>3. job' = Committed(job, p, Idle, {"lockOpen"}) /\ At(p, "open")
    BY <1>4 DEF OpenPositions
  <2>4. \A o \in Positions(S, p) : o.by = p
    BY DEF Positions
  <2>5. Own(p)' \subseteq Positions(S, p)
    <3>1. \A o \in open : o.by = p => PositionKey(o) \in job[p].held
      BY <1>0, <2>3 DEF Closes, At
    <3> QED BY <2>1, <3>1 DEF Own, StillOpen
  <2>6. ASSUME NEW q, q # p, NEW o \in Own(q)'
        PROVE  o \in Own(q) /\ PositionKey(o) \notin job[p].held
    BY <2>1, <2>4, <2>6 DEF Own, StillOpen
  <2>7. ASSUME NEW q \in Jobs \cup {None}
        PROVE  \E R \in SUBSET RecRow : IsFiniteSet(R) /\ Own(q)' \subseteq Positions(R, q)
    <3>1. CASE q = p
      BY <2>2, <2>5, <3>1
    <3>2. CASE q # p
      <4>1. PICK R \in SUBSET RecRow : IsFiniteSet(R) /\ Own(q) \subseteq Positions(R, q)
        BY DEF OneRebuild
      <4> QED BY <2>6, <3>2, <4>1
    <3> QED BY <3>1, <3>2
  <2>8. /\ job'[p] = Idle
        /\ \A q \in Jobs \ {p} :
             /\ job'[q].pc = job[q].pc /\ job'[q].held = job[q].held
             /\ job[q].pc = "lockOpen" => job'[q].want = job[q].want \ job[p].held
    <3>1. JobTyped(p, Idle) BY <1>0
    <3>2. /\ job'[p] = Idle
          /\ \A q \in Jobs \ {p} :
               /\ job'[q].pc = job[q].pc /\ job'[q].held = job[q].held
               /\ job'[q].want = IF job[q].pc \in {"lockOpen"} THEN job[q].want \ job[p].held
                                ELSE job[q].want
      BY <2>3, <3>1, CommittedIs
    <3> QED BY <3>2
  <2>9. ASSUME NEW q \in Jobs PROVE Closes(q, job'[q], open')
    <3>1. CASE q = p
      BY <1>0, <2>8, <3>1 DEF Closes
    <3>2. CASE q # p
      <4>1. \A o \in open' : o.by = q => o \in open /\ PositionKey(o) \notin job[p].held
        BY <2>6, <3>2 DEF Own
      <4> QED BY <1>0, <2>8, <3>2, <4>1 DEF Closes
    <3> QED BY <3>1, <3>2
  <2> QED BY <2>7, <2>9 DEF OneRebuild
<1>5. ASSUME NEW p \in Jobs, Start(p) \/ Step(p) \/ Crash(p)
      PROVE  OneRebuild'
  <2>1. OpenPositions(p) \/ open' = open
    BY <1>5 DEF Start, StartSave, StartWithProfile, StartClick, Step, Rebuild, Resize, Crash, Save,
       Reload, ReadLatest, DeleteRecs, LockRecs, RecsConflict, InsertRecs, CommitRecs, ReadRecs,
       ClosePositions, LockOpen, Deadlock
  <2>2. ASSUME Set(p, Idle), open' = open PROVE OneRebuild'
    <3>1. job'[p] = Idle /\ \A q \in Jobs \ {p} : job'[q] = job[q]
      BY <1>0, <2>2, SetIs
    <3>2. Closes(p, Idle, open) BY <1>0 DEF Closes
    <3> QED BY <1>0, <1>1, <2>2, <3>1, <3>2
  <2> QED BY <1>2, <1>3, <1>4, <1>5, <2>1, <2>2, JobMoves
<1>6. CASE UNCHANGED vars \/ \E s \in Securities : Publish(s)
  <2>1. open' = open /\ job' = job
    BY <1>6 DEF vars, Publish
  <2> QED BY <1>0, <1>1, <2>1
<1> QED BY <1>5, <1>6 DEF Next

\* The open rows of one rebuild never allocate more than the whole, but for the rounding,
\* for any number of securities and positions, any bands and any overlap of rebuilds
\* (rebuild_model_portfolio_for_user).
THEOREM NeverOverAllocated == Spec => []AllocationCap
<1>1. Init => OneRebuild
  <2> SUFFICES ASSUME Init PROVE OneRebuild
    OBVIOUS
  <2>1. Typed
    BY InitTyped
  <2>2. PICK S \in Picks(recs) : open = Positions(S, None)
    BY DEF Init
  <2>3. S \in SUBSET RecRow /\ IsFiniteSet(S)
    BY <2>1, PicksTyped DEF Typed, Tables
  <2>4. \A o \in open : o.by = None
    BY <2>2 DEF Positions
  <2>5. \A p \in Jobs : Own(p) = {} /\ Closes(p, job[p], open)
    BY <2>4, KindsAssumption DEF Init, Own, Closes, Idle
  <2>6. IsFiniteSet({}) /\ {} \in SUBSET RecRow
    BY FS_EmptySet
  <2>7. Own(None) \subseteq Positions(S, None)
    BY <2>2 DEF Own
  <2>8. \A p \in Jobs : Own(p) \subseteq Positions({}, p)
    BY <2>5
  <2> QED BY <2>3, <2>5, <2>6, <2>7, <2>8 DEF OneRebuild
<1>2. OneRebuild => AllocationCap
  <2> SUFFICES ASSUME OneRebuild, NEW p \in Jobs \cup {None}
               PROVE  2 * MapThenSumSet(LAMBDA o : o.pct, Own(p))
                        <= 2 * FullPct * 100 + Cardinality(Own(p))
    BY DEF AllocationCap, Own
  <2>1. PICK S \in SUBSET RecRow : IsFiniteSet(S) /\ Own(p) \subseteq Positions(S, p)
    BY DEF OneRebuild
  <2> QED BY <2>1, RebuildCapped
<1>3. Typed /\ OneRebuild /\ [Next]_vars => OneRebuild'
  BY OneRebuildStep
<1> QED BY <1>1, <1>2, <1>3, AlwaysTyped, PTL DEF Spec

(***************************************************************************)
(* Alone.  Nobody else is at work, and what the job has read is what is    *)
(* there.                                                                  *)
(***************************************************************************)
\* What job p holds, as j, against the profile q, the snapshots b, the recommendations R
\* and the positions O.
UpToDate(p, j, q, b, R, O) ==
  /\ j.pc = "save" => p \in Savers /\ j.prof = q
  /\ j.pc = "reload" => p \in Savers
  /\ p \in Savers /\ j.pc \notin {"idle", "save"} => q = j.payload
  /\ j.pc \in {"latest", "delete", "lockRecs", "insert"} => p \notin Clickers /\ j.prof = q
  /\ j.pc \in {"delete", "lockRecs", "insert"} => j.latest = b
  /\ j.pc = "lockRecs" => {RecKey(r) : r \in R} \subseteq j.held \cup j.want
  /\ j.pc = "insert" => {RecKey(r) : r \in R} \subseteq j.held
  /\ p \notin Clickers /\ j.pc \in {"pick", "close", "lockOpen", "open"} => R = Advice(b, q)
  /\ j.pc \in {"close", "lockOpen", "open"} => j.read = R
  /\ j.pc = "lockOpen" => {PositionKey(o) : o \in O} \subseteq j.held \cup j.want
  /\ j.pc = "open" => {PositionKey(o) : o \in O} \subseteq j.held

Undisturbed ==
  \A p \in Jobs : alone = p =>
    /\ \A q \in Jobs \ {p} : At(q, "idle")
    /\ UpToDate(p, job[p], profile, base, recs, open)

LEMMA UndisturbedStep ==
  ASSUME Typed, Undisturbed, [Next]_vars
  PROVE  Undisturbed'
<1> USE DEF At
<1>i. Idle.pc = "idle"
  BY DEF Idle
\* A job that enters.
<1>1. ASSUME NEW p \in Jobs, NEW j, Goes(p, j), Enter(p, j),
             \/ p \in Savers /\ j.pc = "save" /\ j.prof = profile
             \/ p \notin Savers \cup Clickers /\ j.pc = "latest" /\ j.prof = profile
             \/ p \in Clickers \ Savers /\ j.pc = "pick",
             UNCHANGED <<base, profile, recs, open>>
      PROVE  Undisturbed'
  <2>1. job'[p] = j /\ \A q \in Jobs \ {p} : job'[q] = job[q]
    BY <1>1, GoesTyped, SetIs DEF Enter
  <2>2. UpToDate(p, j, profile', base', recs', open')
    BY <1>1 DEF UpToDate
  <2>3. alone' = p => \A q \in Jobs \ {p} : At(q, "idle")'
    BY <1>1, <2>1, KindsAssumption DEF Enter
  <2>4. alone' \in {p, None}
    BY <1>1 DEF Enter
  <2> QED BY <2>1, <2>2, <2>3, <2>4, KindsAssumption DEF Undisturbed, UpToDate
\* A job that goes on: if it is not the one alone there is none.
<1>2. ASSUME NEW p \in Jobs, ~At(p, "idle"), alone' = alone,
             \A q \in Jobs \ {p} : job'[q].pc = job[q].pc,
             alone = p => UpToDate(p, job'[p], profile', base', recs', open')
      PROVE  Undisturbed'
  BY <1>2 DEF Undisturbed
<1>s. ASSUME NEW p \in Jobs, NEW j, Goes(p, j), Set(p, j), ~At(p, "idle"), alone' = alone,
             alone = p => UpToDate(p, j, profile', base', recs', open')
      PROVE  Undisturbed'
  BY <1>s, <1>2, GoesTyped, SetIs
<1>a. ASSUME NEW p \in Jobs, alone = p
      PROVE  /\ \A q \in Jobs \ {p} : At(q, "idle")
             /\ UpToDate(p, job[p], profile, base, recs, open)
  BY <1>a DEF Undisturbed
<1>j. \A p \in Jobs : job[p] \in JobRow /\ JobTyped(p, job[p])
  BY DEF Typed
<1>3. ASSUME NEW p \in Jobs, StartSave(p), p \in Savers PROVE Undisturbed'
  <2>1. PICK d \in Profiles : Enter(p, [Idle EXCEPT !.pc = "save", !.payload = d, !.prof = profile])
    BY <1>3 DEF StartSave
  <2> DEFINE j == [Idle EXCEPT !.pc = "save", !.payload = d, !.prof = profile]
  <2>2. j.pc = "save" /\ j.prof = profile /\ Goes(p, j)
    BY <2>1 DEF Idle, Goes, Enter
  <2> HIDE DEF j
  <2> QED BY <1>1, <1>3, <2>1, <2>2 DEF StartSave, j
<1>4. ASSUME NEW p \in Jobs, StartWithProfile(p), p \in Acknowledgers \cup Refreshers
      PROVE  Undisturbed'
  <2> DEFINE j == [Idle EXCEPT !.pc = "latest", !.prof = profile]
  <2>1. j.pc = "latest" /\ j.prof = profile /\ Goes(p, j)
    BY <1>4 DEF Idle, Goes, Enter, StartWithProfile
  <2>2. Enter(p, j) /\ UNCHANGED <<base, profile, recs, open>>
    BY <1>4 DEF StartWithProfile
  <2>3. p \notin Savers \cup Clickers
    BY <1>4, KindsAssumption
  <2> HIDE DEF j
  <2> QED BY <1>1, <2>1, <2>2, <2>3
<1>5. ASSUME NEW p \in Jobs, StartClick(p), p \in Clickers
      PROVE  Undisturbed'
  <2> DEFINE j == [Idle EXCEPT !.pc = "pick"]
  <2>1. j.pc = "pick" /\ Goes(p, j)
    BY <1>5 DEF Idle, Goes, Enter, StartClick
  <2>2. Enter(p, j) /\ UNCHANGED <<base, profile, recs, open>>
    BY <1>5 DEF StartClick
  <2>3. p \in Clickers \ Savers
    BY <1>5, KindsAssumption
  <2> HIDE DEF j
  <2> QED BY <1>1, <2>1, <2>2, <2>3
<1>6. ASSUME NEW p \in Jobs, Save(p) PROVE Undisturbed'
  <2> DEFINE j == [job[p] EXCEPT !.pc = "reload"]
  <2>1. j.pc = "reload" /\ j.payload = job[p].payload /\ Goes(p, j)
    BY <1>6, <1>j DEF Save, Goes, JobRow
  <2>2. Set(p, j) /\ alone' = alone /\ At(p, "save") /\ ~At(p, "idle")
    BY <1>6 DEF Save
  <2>3. job[p].payload \in Profile /\ profile \in Profile
    BY <2>2, <1>j DEF JobTyped, Typed, Tables
  <2>4. alone = p => profile' = job[p].payload
    <3> SUFFICES ASSUME alone = p PROVE profile' = job[p].payload
      OBVIOUS
    <3>1. job[p].prof = profile
      BY <1>a, <2>2 DEF UpToDate
    <3>2. profile' = [c \in Columns |-> job[p].payload[c]]
      BY <1>6, <3>1 DEF Save
    <3> QED BY <2>3, <3>2 DEF Profile
  <2> HIDE DEF j
  <2>5. alone = p => UpToDate(p, j, profile', base', recs', open')
    BY <1>a, <2>1, <2>2, <2>4 DEF UpToDate
  <2> QED BY <1>s, <2>1, <2>2, <2>5
<1>7. ASSUME NEW p \in Jobs, Reload(p) PROVE Undisturbed'
  <2> DEFINE j == [job[p] EXCEPT !.pc = "latest", !.prof = profile]
  <2>1. j.pc = "latest" /\ j.payload = job[p].payload /\ j.prof = profile
        /\ Goes(p, j)
    BY <1>7, <1>j DEF Reload, Goes, JobRow
  <2>2. /\ Set(p, j) /\ alone' = alone /\ At(p, "reload") /\ ~At(p, "idle")
        /\ UNCHANGED <<base, profile, recs, open>>
    BY <1>7 DEF Reload
  <2> HIDE DEF j
  <2>3. alone = p => UpToDate(p, j, profile', base', recs', open')
    BY <1>a, <2>1, <2>2, KindsAssumption DEF UpToDate
  <2> QED BY <1>s, <2>1, <2>2, <2>3
<1>8. ASSUME NEW p \in Jobs, ReadLatest(p) PROVE Undisturbed'
  <2> DEFINE j == [job[p] EXCEPT !.pc = "delete", !.latest = base]
  <2>1. j.pc = "delete" /\ j.payload = job[p].payload
        /\ j.prof = job[p].prof /\ j.latest = base /\ Goes(p, j)
    BY <1>8, <1>j DEF ReadLatest, Goes, JobRow
  <2>2. /\ Set(p, j) /\ alone' = alone /\ At(p, "latest") /\ ~At(p, "idle")
        /\ UNCHANGED <<base, profile, recs, open>>
    BY <1>8 DEF ReadLatest
  <2> HIDE DEF j
  <2>3. alone = p => UpToDate(p, j, profile', base', recs', open')
    BY <1>a, <2>1, <2>2 DEF UpToDate
  <2> QED BY <1>s, <2>1, <2>2, <2>3
<1>9. ASSUME NEW p \in Jobs, DeleteRecs(p) PROVE Undisturbed'
  <2> DEFINE w == {RecKey(r) : r \in recs}
             j == [job[p] EXCEPT !.pc = "lockRecs", !.want = w]
  <2>1. j.pc = "lockRecs" /\ j.want = w /\ j.payload = job[p].payload
        /\ j.prof = job[p].prof /\ j.latest = job[p].latest /\ Goes(p, j)
    BY <1>9, <1>j DEF DeleteRecs, Goes, JobRow
  <2>2. /\ Set(p, j) /\ alone' = alone /\ At(p, "delete") /\ ~At(p, "idle")
        /\ UNCHANGED <<base, profile, recs, open>>
    BY <1>9 DEF DeleteRecs
  <2>3. w \subseteq j.held \cup j.want
    BY <2>1
  <2> HIDE DEF j
  <2>4. alone = p => UpToDate(p, j, profile', base', recs', open')
    BY <1>a, <2>1, <2>2, <2>3 DEF UpToDate
  <2> QED BY <1>s, <2>1, <2>2, <2>4
<1>l. ASSUME NEW p \in Jobs, LockRecs(p) PROVE Undisturbed'
  <2>1. PICK keys \in Reached(job, p) :
          Set(p, [job[p] EXCEPT !.held = @ \cup keys,
                    !.pc = IF keys = job[p].want THEN "insert" ELSE @,
                    !.want = IF keys = job[p].want THEN {RecKey(r) : r \in NewRecs(p)} ELSE @ \ keys])
    BY <1>l DEF LockRecs
  <2> DEFINE j == [job[p] EXCEPT !.held = @ \cup keys,
                     !.pc = IF keys = job[p].want THEN "insert" ELSE @,
                     !.want = IF keys = job[p].want THEN {RecKey(r) : r \in NewRecs(p)} ELSE @ \ keys]
  <2>2. /\ Set(p, j) /\ alone' = alone /\ At(p, "lockRecs") /\ ~At(p, "idle")
        /\ UNCHANGED <<base, profile, recs, open>>
    BY <1>l, <2>1 DEF LockRecs
  <2>3. Goes(p, j)
    BY <2>2, ReachedWanted DEF Goes
  <2>4. /\ j.pc = (IF keys = job[p].want THEN "insert" ELSE "lockRecs") /\ j.held = job[p].held \cup keys
        /\ j.payload = job[p].payload /\ j.prof = job[p].prof /\ j.latest = job[p].latest
    BY <2>2, <1>j DEF JobRow
  <2> HIDE DEF j
  <2>5. ASSUME alone = p PROVE UpToDate(p, j, profile', base', recs', open')
    <3>1. keys = job[p].want
      BY <1>a, <2>5, ReachedAlone
    <3>2. {RecKey(r) : r \in recs} \subseteq job[p].held \cup job[p].want
      BY <1>a, <2>2, <2>5 DEF UpToDate
    <3>3. j.pc = "insert" /\ {RecKey(r) : r \in recs} \subseteq j.held
      BY <2>4, <3>1, <3>2
    <3> QED BY <1>a, <2>2, <2>4, <2>5, <3>3 DEF UpToDate
  <2> QED BY <1>s, <2>2, <2>3, <2>5
<1>w. ASSUME NEW p \in Jobs, InsertRecs(p) PROVE Undisturbed'
  <2>1. PICK keys \in Reached(job, p) : Set(p, [job[p] EXCEPT !.held = @ \cup keys, !.want = @ \ keys])
    BY <1>w DEF InsertRecs
  <2> DEFINE j == [job[p] EXCEPT !.held = @ \cup keys, !.want = @ \ keys]
  <2>2. /\ Set(p, j) /\ alone' = alone /\ At(p, "insert") /\ ~At(p, "idle")
        /\ UNCHANGED <<base, profile, recs, open>>
    BY <1>w, <2>1 DEF InsertRecs
  <2>3. Goes(p, j)
    BY <2>2, ReachedWanted DEF Goes
  <2>4. /\ j.pc = "insert" /\ j.held = job[p].held \cup keys
        /\ j.payload = job[p].payload /\ j.prof = job[p].prof /\ j.latest = job[p].latest
    BY <2>2, <1>j DEF JobRow
  <2> HIDE DEF j
  <2>5. alone = p => UpToDate(p, j, profile', base', recs', open')
    BY <1>a, <2>2, <2>4 DEF UpToDate
  <2> QED BY <1>s, <2>2, <2>3, <2>5
<1>10. ASSUME NEW p \in Jobs, ReadRecs(p) PROVE Undisturbed'
  <2> DEFINE j == [job[p] EXCEPT !.pc = "close", !.read = recs]
  <2>1. j.pc = "close" /\ j.payload = job[p].payload
        /\ j.read = recs /\ Goes(p, j)
    BY <1>10, <1>j DEF ReadRecs, Goes, JobRow
  <2>2. /\ Set(p, j) /\ alone' = alone /\ At(p, "pick") /\ ~At(p, "idle")
        /\ UNCHANGED <<base, profile, recs, open>>
    BY <1>10 DEF ReadRecs
  <2> HIDE DEF j
  <2>3. alone = p => UpToDate(p, j, profile', base', recs', open')
    BY <1>a, <2>1, <2>2 DEF UpToDate
  <2> QED BY <1>s, <2>1, <2>2, <2>3
<1>11. ASSUME NEW p \in Jobs, ClosePositions(p) PROVE Undisturbed'
  <2> DEFINE w == {PositionKey(o) : o \in open}
             j == [job[p] EXCEPT !.pc = "lockOpen", !.want = w]
  <2>1. j.pc = "lockOpen" /\ j.want = w /\ j.payload = job[p].payload
        /\ j.read = job[p].read /\ Goes(p, j)
    BY <1>11, <1>j DEF ClosePositions, Goes, JobRow
  <2>2. /\ Set(p, j) /\ alone' = alone /\ At(p, "close") /\ ~At(p, "idle")
        /\ UNCHANGED <<base, profile, recs, open>>
    BY <1>11 DEF ClosePositions
  <2>3. w \subseteq j.held \cup j.want
    BY <2>1
  <2> HIDE DEF j
  <2>4. alone = p => UpToDate(p, j, profile', base', recs', open')
    BY <1>a, <2>1, <2>2, <2>3 DEF UpToDate
  <2> QED BY <1>s, <2>1, <2>2, <2>4
<1>o. ASSUME NEW p \in Jobs, LockOpen(p) PROVE Undisturbed'
  <2>1. PICK keys \in Reached(job, p) :
          Set(p, [job[p] EXCEPT !.held = @ \cup keys, !.want = @ \ keys,
                    !.pc = IF keys = job[p].want THEN "open" ELSE @])
    BY <1>o DEF LockOpen
  <2> DEFINE j == [job[p] EXCEPT !.held = @ \cup keys, !.want = @ \ keys,
                     !.pc = IF keys = job[p].want THEN "open" ELSE @]
  <2>2. /\ Set(p, j) /\ alone' = alone /\ At(p, "lockOpen") /\ ~At(p, "idle")
        /\ UNCHANGED <<base, profile, recs, open>>
    BY <1>o, <2>1 DEF LockOpen
  <2>3. Goes(p, j)
    BY <2>2, ReachedWanted DEF Goes
  <2>4. /\ j.pc = (IF keys = job[p].want THEN "open" ELSE "lockOpen") /\ j.held = job[p].held \cup keys
        /\ j.payload = job[p].payload /\ j.read = job[p].read
    BY <2>2, <1>j DEF JobRow
  <2> HIDE DEF j
  <2>5. ASSUME alone = p PROVE UpToDate(p, j, profile', base', recs', open')
    <3>1. keys = job[p].want
      BY <1>a, <2>5, ReachedAlone
    <3>2. {PositionKey(o) : o \in open} \subseteq job[p].held \cup job[p].want
      BY <1>a, <2>2, <2>5 DEF UpToDate
    <3>3. j.pc = "open" /\ {PositionKey(o) : o \in open} \subseteq j.held
      BY <2>4, <3>1, <3>2
    <3> QED BY <1>a, <2>2, <2>4, <2>5, <3>3 DEF UpToDate
  <2> QED BY <1>s, <2>2, <2>3, <2>5
\* A transaction that ends.
<1>12. ASSUME NEW p \in Jobs, ~At(p, "idle"), alone' = alone,
              Set(p, Idle) \/ job' = Committed(job, p, Idle, {"lockOpen"})
       PROVE  Undisturbed'
  <2>1. job'[p] = Idle /\ \A q \in Jobs \ {p} : job'[q].pc = job[q].pc
    <3>1. JobTyped(p, Idle) BY IdleTyped
    <3>2. CASE Set(p, Idle) BY <3>1, <3>2, SetIs
    <3>3. CASE job' = Committed(job, p, Idle, {"lockOpen"}) BY <3>1, <3>3, CommittedIs
    <3> QED BY <1>12, <3>2, <3>3
  <2>2. UpToDate(p, Idle, profile', base', recs', open')
    BY <1>i DEF UpToDate
  <2> QED BY <1>2, <1>12, <2>1, <2>2
<1>13. ASSUME NEW p \in Jobs, CommitRecs(p) PROVE Undisturbed'
  <2>1. /\ alone' = alone /\ At(p, "insert") /\ ~At(p, "idle") /\ UNCHANGED <<base, profile, open>>
        /\ job' = Committed(job, p, After(p), {"lockRecs"})
        /\ recs' = Kept(p) \cup Advice(job[p].latest, job[p].prof)
    BY <1>13 DEF CommitRecs, NewRecs
  <2> DEFINE j == After(p)
  <2>2. job'[p] = j /\ \A q \in Jobs \ {p} : job'[q].pc = job[q].pc
    <3>1. JobTyped(p, j) BY AfterTyped
    <3> HIDE DEF j
    <3>2. job' = Committed(job, p, j, {"lockRecs"}) BY <2>1 DEF j
    <3> QED BY <3>1, <3>2, CommittedIs
  <2>3. j.pc = "idle" \/ (j.pc = "pick" /\ j.payload = job[p].payload)
    BY DEF After, Idle
  <2> HIDE DEF j
  <2>4. alone = p => UpToDate(p, j, profile', base', recs', open')
    <3> SUFFICES ASSUME alone = p PROVE UpToDate(p, j, profile', base', recs', open')
      OBVIOUS
    <3>1. Kept(p) = {}
      BY <1>a, <2>1 DEF UpToDate, Kept
    <3>2. recs' = Advice(base, profile)
      BY <1>a, <2>1, <3>1 DEF UpToDate
    <3>3. p \in Savers => profile = job[p].payload
      BY <1>a, <2>1 DEF UpToDate
    <3> QED BY <2>1, <2>3, <3>2, <3>3 DEF UpToDate, Advice
  <2> QED BY <1>2, <2>1, <2>2, <2>4
<1>14. ASSUME NEW p \in Jobs, OpenPositions(p) \/ Crash(p) \/ RecsConflict(p) PROVE Undisturbed'
  BY <1>12, <1>14 DEF OpenPositions, Crash, RecsConflict
<1>d. ASSUME NEW p \in Jobs, Deadlock(p) PROVE Undisturbed'
  <2>1. job[p].want # {}
    BY <1>d DEF Deadlock, Stuck, Waits
  <2>2. ~At(p, "idle")
    BY <1>j, <2>1 DEF JobTyped
  <2> QED BY <1>12, <1>d, <2>2 DEF Deadlock
<1>15. ASSUME NEW s \in Securities, Publish(s) PROVE Undisturbed'
  BY <1>15, KindsAssumption DEF Publish, Undisturbed
<1>16. CASE UNCHANGED vars
  BY <1>16 DEF vars, Undisturbed, UpToDate, Advice
<1>17. ASSUME NEW p \in Jobs, Start(p) \/ Step(p) \/ Crash(p) PROVE Undisturbed'
  BY <1>3, <1>4, <1>5, <1>6, <1>7, <1>8, <1>9, <1>l, <1>w, <1>10, <1>11, <1>o, <1>13, <1>14,
     <1>d, <1>17 DEF Start, Step, Rebuild, Resize
<1> QED BY <1>15, <1>16, <1>17 DEF Next

\* A request that runs with no other beside it leaves exactly what it asked for, whatever
\* ran, overlapped or died before it, for any number of jobs, securities and profiles
\* (create_profile_api, acknowledge_disclosures_api, rebuild_portfolio_api).
THEOREM ExactAlone == Spec => AloneIsExact
<1>1. Init => Undisturbed
  BY KindsAssumption DEF Init, Undisturbed
<1>2. ASSUME Undisturbed, NEW p \in Jobs, alone = p, OpenPositions(p)
      PROVE  /\ open' \in {Positions(S, p) : S \in Picks(recs)}
             /\ p \notin Clickers => recs = Advice(base, profile)
             /\ p \in Savers => profile = job[p].payload
  <2>1. job[p].pc = "open" /\ UpToDate(p, job[p], profile, base, recs, open)
    BY <1>2 DEF OpenPositions, At, Undisturbed
  <2>2. job[p].read = recs /\ {PositionKey(o) : o \in open} \subseteq job[p].held
    BY <2>1 DEF UpToDate
  <2>3. PICK S \in Picks(recs) : open' = StillOpen(p) \cup Positions(S, p)
    BY <1>2, <2>2 DEF OpenPositions
  <2>4. open' = Positions(S, p)
    BY <2>2, <2>3 DEF StillOpen
  <2> QED BY <2>1, <2>4 DEF UpToDate
<1>3. Typed /\ Undisturbed /\ [Next]_vars => Undisturbed'
  BY UndisturbedStep
<1>4. Undisturbed /\ [Next]_vars
        => [\A p \in Jobs : alone = p /\ OpenPositions(p) =>
              /\ open' \in {Positions(S, p) : S \in Picks(recs)}
              /\ p \notin Clickers => recs = Advice(base, profile)
              /\ p \in Savers => profile = job[p].payload]_vars
  BY <1>2
<1> QED BY <1>1, <1>3, <1>4, AlwaysTyped, PTL DEF Spec, AloneIsExact
===============================================================================
