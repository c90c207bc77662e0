------------------------------- MODULE Scoring -------------------------------
(***************************************************************************)
(* ScoringEngine and RegimeClassifier: from features to the scores of each *)
(* asset and the regime of the market.  Pure functions over integers: a    *)
(* score in [-1, 1] is given in thousandths, rounded down, a percentage in *)
(* hundredths, and a surprise in hundredths.                               *)
(*                                                                         *)
(* "Seeded fault" marks a plausible bug in the definition after it.        *)
(***************************************************************************)
EXTENDS MarketFeatures

Clamp(v, low, high) == Max({low, Min({high, v})})
Unit(v) == Clamp(v, 0, 1000)

\* Seeded fault: the range is left to the model of the document.
Unclamped(v) == v

Symmetric(v) == Clamp(v, -1000, 1000)

\* A pair is a signal, or None, and its weight.
Present(pairs) == Chosen(pairs, {i \in DOMAIN pairs : pairs[i][1] # None})

\* What is not there weighs nothing; 0 when nothing is there.
WeightedMean(pairs) ==
    LET There(i) == pairs[i][1] # None
        weight == Total([i \in DOMAIN pairs |-> IF There(i) THEN pairs[i][2] ELSE 0])
    IN  IF weight = 0 THEN 0
        ELSE Total([i \in DOMAIN pairs |-> IF There(i) THEN pairs[i][1] * pairs[i][2] ELSE 0])
                \div weight

EmaSignal ==
    [above_diverging |-> 1000, above_converging |-> 500, crossing |-> 0,
     below_converging |-> -500, below_diverging |-> -1000]
MacdSignals ==
    [bullish_cross |-> 1000, bullish |-> 500, neutral |-> 0,
     bearish |-> -500, bearish_cross |-> -1000]

-----------------------------------------------------------------------------
(* The scores of an asset. *)

\* Seeded fault: the changes count for more than the indicators.
ChangesFirst == [ema |-> 10, macd |-> 10, rsi |-> 10, h24 |-> 35, d7 |-> 35]

TrendWeight == [ema |-> 30, macd |-> 25, rsi |-> 15, h24 |-> 15, d7 |-> 15]

\* 24 hours and 7 days are at full scale with 5 and 15 percent.
TrendSubsignals(f) ==
    <<<<IF f.ema = None THEN None ELSE EmaSignal[f.ema], TrendWeight.ema>>,
      <<IF f.macd = None THEN None ELSE MacdSignals[f.macd], TrendWeight.macd>>,
      <<IF f.rsi = None THEN None ELSE Symmetric((f.rsi - 5000) \div 5), TrendWeight.rsi>>,
      <<IF f.changes["24h"] = None THEN None ELSE Symmetric(f.changes["24h"] * 2),
        TrendWeight.h24>>,
      <<IF f.changes["7d"] = None THEN None ELSE Symmetric((f.changes["7d"] * 2) \div 3),
        TrendWeight.d7>>>>

TrendScore(f) == Symmetric(WeightedMean(TrendSubsignals(f)))

\* The range is at full scale with 5 percent.
Volatility(f) == IF f.atr = None THEN None ELSE Unit(f.atr * 2)

RiskScore(f, proximity) ==
    Unit(WeightedMean(
        <<<<Volatility(f), 50>>,
          <<IF proximity = None THEN None
            ELSE Unit(1000 - (Absolute(proximity) * 1000) \div 48), 30>>,
          <<IF f.volume = None THEN None ELSE Unit((f.volume - 1000) \div 2), 20>>>>))

\* One less the mean deviation of the signals from their mean.
Concordance(pairs) ==
    LET n == Len(pairs)
        mean == Total([i \in 1..n |-> pairs[i][1]]) \div n
    IN  IF n < 2 THEN 500
        ELSE Unit(1000 - Total([i \in 1..n |-> Absolute(pairs[i][1] - mean)]) \div n)

ExpectedSignals(asset) == IF Class[asset] = "index" THEN 2 ELSE 5

SystemConfidence(f, asset) ==
    LET signals == Present(TrendSubsignals(f))
        completeness == Unit((Len(signals) * 1000) \div ExpectedSignals(asset))
    IN  Unit((completeness + Concordance(signals)) \div 2)

\* In percent, each component turned so that more is healthier.
MarketHealthIndex(trend, risk, sentiment, f) ==
    LET health == <<<<(trend + 1000) \div 2, 40>>,
                    <<1000 - risk, 35>>,
                    <<IF sentiment = None THEN None ELSE (sentiment + 1000) \div 2, 15>>,
                    <<IF Volatility(f) = None THEN None ELSE 1000 - Volatility(f), 10>>>>
    IN  (Unit(WeightedMean(health)) + 5) \div 10

-----------------------------------------------------------------------------
(* The regime. *)

RiskHi == 600
RiskLo == 450
TrendBand == 200
MaterialSurprise == 5
EventWindow == 48

MaterialEvents(events) ==
    {i \in DOMAIN events : /\ Absolute(events[i].proximity) <= EventWindow
                           /\ Absolute(events[i].surprise) >= MaterialSurprise}

\* The strongest surprise, and of equal ones the event with the greatest id.
ActiveMaterialEvent(events) ==
    CHOOSE i \in MaterialEvents(events) :
        \A j \in MaterialEvents(events) :
            \/ Absolute(events[j].surprise) < Absolute(events[i].surprise)
            \/ /\ Absolute(events[j].surprise) = Absolute(events[i].surprise)
               /\ events[j].id <= events[i].id

Mean(f, S) ==
    LET members == Listed(S)
    IN  IF S = {} THEN 0 ELSE Total([i \in DOMAIN members |-> f[members[i]]]) \div Cardinality(S)

StateFromAggregates(trend, risk) ==
    IF risk >= RiskHi /\ trend <= -TrendBand THEN "risk_off"
    ELSE IF risk <= RiskLo /\ trend >= TrendBand THEN "risk_on"
    ELSE "transition"

BoundaryMargin(trend, risk, state) ==
    LET off == Min({Absolute(risk - RiskHi), Absolute(trend + TrendBand)})
        on == Min({Absolute(risk - RiskLo), Absolute(trend - TrendBand)})
    IN  CASE state = "risk_off" ->
                Unit((Min({risk - RiskHi, -TrendBand - trend}) * 10) \div 4)
          [] state = "risk_on" ->
                Unit((Min({RiskLo - risk, trend - TrendBand}) * 10) \div 4)
          [] state = "transition" -> Unit((Min({off, on}) * 10) \div 3)

TrendConcordance(trend, S) ==
    IF S = {} THEN 500
    ELSE (Cardinality({a \in S : (trend[a] >= 0) = (Mean(trend, S) >= 0)}) * 1000)
            \div Cardinality(S)

Sensitive(S) == {a \in S : Sensitivity[a] # "low"}

\* classify: a material event decides, if there is one.
Classify(trend, risk, events, previous) ==
    LET sensitive == Sensitive(DOMAIN trend)
        driven == MaterialEvents(events) # {}
        event == events[ActiveMaterialEvent(events)]
        avg_trend == Mean(trend, sensitive)
        avg_risk == Mean(risk, sensitive)
        state == IF driven THEN "event_driven" ELSE StateFromAggregates(avg_trend, avg_risk)
        margin == IF driven
                  THEN Unit(((Absolute(event.surprise) - MaterialSurprise) * 1000)
                                \div MaterialSurprise)
                  ELSE BoundaryMargin(avg_trend, avg_risk, state)
    IN  [state |-> state,
         previous_state |-> previous,
         changed_this_run |-> state # previous,
         confidence |-> Unit((margin + TrendConcordance(trend, sensitive)) \div 2),
         drivers |-> IF driven
                     THEN <<[name |-> "event", weight |-> Unit(400 + (2 * margin) \div 5)]>>
                     ELSE <<[name |-> "avg_trend", weight |-> (avg_trend + 1000) \div 2],
                            [name |-> "avg_risk", weight |-> avg_risk]>>]

\* score: of the events the nearest in time counts for the risk of every asset.
Score(features, events, previous, sentiment) ==
    LET assets == DOMAIN features
        proximities == {Absolute(events[i].proximity) : i \in DOMAIN events}
        nearest == IF proximities = {} THEN None ELSE Min(proximities)
        trend == [a \in assets |-> TrendScore(features[a])]
        risk == [a \in assets |-> RiskScore(features[a], nearest)]
        Sentiment(a) == IF a \in DOMAIN sentiment THEN sentiment[a] ELSE None
    IN  [trend |-> trend,
         risk |-> risk,
         confidence |-> [a \in assets |-> SystemConfidence(features[a], a)],
         mhi |-> [a \in assets |->
                    MarketHealthIndex(trend[a], risk[a], Sentiment(a), features[a])],
         regime |-> Classify(trend, risk, events, previous)]

=============================================================================
