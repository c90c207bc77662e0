------------------------------ MODULE CoreData ------------------------------
(***************************************************************************)
(* What crosses the borders between the stages of a run: the vocabulary of *)
(* the contract and the shape of the documents, reduced to what the stages *)
(* tell apart.  A score in [-1, 1] is in thousandths, a percentage in      *)
(* hundredths.                                                             *)
(***************************************************************************)
EXTENDS Listing, SequencesExt

CONSTANTS
    None,          \* no value
    Assets,        \* the symbols of the configuration
    Class,         \* asset_class of each asset
    Sensitivity    \* regime_sensitivity of each asset

RegimeStates == {"risk_on", "risk_off", "transition", "event_driven"}
AssetClasses == {"crypto", "metal", "energy", "fx", "index"}
Sensitivities == {"high", "medium", "low"}
Directions == {"bullish", "bearish", "neutral"}
OrdinalLevels == {"minor", "moderate", "major", "dominant"}
MacdStates == {"bullish_cross", "bullish", "neutral", "bearish", "bearish_cross"}
EmaStates == {"above_diverging", "above_converging", "crossing",
             "below_converging", "below_diverging"}
EventTypes == {"us_cpi", "fomc", "us_nfp"}
FearGreedLabels == {"extreme_fear", "fear", "neutral", "greed", "extreme_greed"}
Horizons == {"6h", "24h", "7d", "30d"}

ASSUME CoreDataAssumption ==
    /\ IsFiniteSet(Assets)
    /\ None \notin Int \cup MacdStates \cup EmaStates \cup RegimeStates
    /\ Class \in [Assets -> AssetClasses]
    /\ Sensitivity \in [Assets -> Sensitivities]

Optional(S) == S \cup {None}

\* The elements of S in an order that nothing depends on.
Listed(S) == SetToSeq(S)

\* The two ranges every score of the contract is in.
UnitRange == 0..1000
SymmetricRange == -1000..1000

\* An index of relative strength, in hundredths.
RsiRange == 0..10000

Regimes ==
    [state : RegimeStates, previous_state : Optional(RegimeStates),
     changed_this_run : BOOLEAN, confidence : UnitRange,
     drivers : Seq([name : {"event", "avg_trend", "avg_risk"}, weight : UnitRange])]

IsIndicators(i) ==
    /\ i.rsi # None => i.rsi \in RsiRange
    /\ i.macd \in Optional(MacdStates)
    /\ i.ema \in Optional(EmaStates)
    /\ i.atr # None => i.atr \in Nat
    /\ i.volume # None => i.volume \in Nat

IsScores(s) ==
    /\ s.trend \in SymmetricRange
    /\ s.risk \in UnitRange
    /\ s.sentiment # None => s.sentiment \in SymmetricRange
    /\ s.confidence \in UnitRange

IsAsset(a) ==
    /\ a.price.value \in Nat
    /\ a.changes \in [Horizons -> Int]
    /\ IsIndicators(a.indicators)
    /\ IsScores(a.scores)
    /\ a.market_health_index \in 0..100
    /\ \A i \in DOMAIN a.activated_rules :
          a.activated_rules[i].strength \in OrdinalLevels /\ a.activated_rules[i].halvings \in Nat
    /\ \A i \in DOMAIN a.causal_links : a.causal_links[i].direction \in Directions
    /\ a.summary \in BOOLEAN
    /\ a.data_gaps \subseteq Horizons

IsGlobal(g) ==
    /\ g.fear_greed \in 0..100
    /\ g.label \in FearGreedLabels
    /\ g.total_market_cap \in Nat

IsMarketStateRun(run) ==
    /\ run.is_degraded \in BOOLEAN
    /\ run.regime \in Regimes
    /\ DOMAIN run.assets = Assets
    /\ \A a \in Assets : IsAsset(run.assets[a])
    /\ IsGlobal(run.global)

=============================================================================
