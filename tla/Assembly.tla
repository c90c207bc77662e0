------------------------------ MODULE Assembly ------------------------------
(***************************************************************************)
(* From scores and activations to the document a run publishes: the        *)
(* DeterministicStateAssembler, the composition with what the language     *)
(* model said, and the guardrails, which flag and never repair.  Pure      *)
(* functions; a flag is [code, asset], a summary only there or not.        *)
(***************************************************************************)
EXTENDS Rules, Scoring

Flag(code, asset) == [code |-> code, asset |-> asset]
Codes(run) == {run.guardrail_flags[i].code : i \in DOMAIN run.guardrail_flags}

-----------------------------------------------------------------------------
(* Guardrails: what each check finds. *)

CheckDegradedHonesty(run) ==
    LET scoped == Codes(run) \cap {"sentiment_degraded", "synthesis_degraded"} # {}
        Failed(code) == code \in Codes(run) \/ (run.is_degraded /\ ~scoped)
    IN  {Flag("degraded_sentiment_present", a) :
            a \in {b \in DOMAIN run.assets : /\ Failed("sentiment_degraded")
                                             /\ run.assets[b].scores.sentiment # None}}
        \cup
        {Flag("degraded_summary_present", a) :
            a \in {b \in DOMAIN run.assets : /\ Failed("synthesis_degraded")
                                             /\ run.assets[b].summary}}

CheckCausalLinksResolve(run) ==
    LET ByRules(a) == {act.rule : act \in Range(run.assets[a].activated_rules)}
        activated == UNION {ByRules(a) : a \in DOMAIN run.assets}
    IN  {Flag("dangling_causal_link", a) :
            a \in {b \in DOMAIN run.assets :
                     \E link \in Range(run.assets[b].causal_links) : link.via_rule \notin activated}}

Bullish(i) == /\ i.macd \in {"bullish", "bullish_cross"}
              /\ i.ema \in {"above_diverging", "above_converging"}
Bearish(i) == /\ i.macd \in {"bearish", "bearish_cross"}
              /\ i.ema \in {"below_diverging", "below_converging"}

CheckTrendIndicatorConsistency(run) ==
    {Flag("trend_indicator_contradiction", a) :
        a \in {b \in DOMAIN run.assets :
                 LET asset == run.assets[b]
                 IN  \/ Bullish(asset.indicators) /\ asset.scores.trend <= -500
                     \/ Bearish(asset.indicators) /\ asset.scores.trend >= 500}}

CheckRegimeChangeFlag(run) ==
    IF run.regime.changed_this_run = (run.regime.state # run.regime.previous_state) THEN {}
    ELSE {Flag("regime_change_flag_inconsistent", None)}

Critical == {"degraded_sentiment_present", "degraded_summary_present", "dangling_causal_link"}

Validate(run) ==
    LET findings == UNION {CheckDegradedHonesty(run), CheckCausalLinksResolve(run),
                           CheckTrendIndicatorConsistency(run), CheckRegimeChangeFlag(run)}
    IN  [flags |-> run.guardrail_flags \o Listed(findings),
         publish |-> \A f \in findings : f.code \notin Critical]

-----------------------------------------------------------------------------
(* The assembler. *)

OrZero(v) == IF v = None THEN 0 ELSE v

\* Without a snapshot a stale placeholder.
Price(snapshot) == IF snapshot = None THEN [value |-> 0, is_stale |-> TRUE] ELSE snapshot

\* A missing change is 0, and declared for 6 hours; for the capitalisation always.
DataGaps(asset, changes) ==
    {h \in Horizons : /\ h = "6h" \/ asset = "TOTAL_MCAP"
                      /\ changes[h] = None}

\* Activation act of an asset: the event, or without one the rule, is the cause.
CausalLink(act) ==
    [from |-> IF act.event = None THEN act.rule ELSE act.event,
     direction |-> act.direction, via_rule |-> act.rule]

AssembleAsset(asset, f, scoring, activations, snapshot) ==
    LET acts == IF asset \in DOMAIN activations THEN <<activations[asset]>> ELSE <<>>
        causes == IF acts # <<>> /\ acts[1].direction # "neutral" THEN acts ELSE <<>>
    IN  [price |-> Price(snapshot),
         changes |-> [h \in Horizons |-> OrZero(f.changes[h])],
         indicators |-> [x \in DOMAIN f \ {"changes"} |-> f[x]],
         scores |-> [trend |-> scoring.trend[asset], risk |-> scoring.risk[asset],
                     sentiment |-> None, confidence |-> scoring.confidence[asset]],
         market_health_index |-> scoring.mhi[asset],
         activated_rules |-> [i \in DOMAIN acts |->
             [rule |-> acts[i].rule, strength |-> acts[i].strength, halvings |-> acts[i].halvings]],
         causal_links |-> [i \in DOMAIN causes |-> CausalLink(causes[i])],
         summary |-> FALSE,
         data_gaps |-> DataGaps(asset, f.changes)]

FearGreedLabel(v) ==
    CASE v <= 24 -> "extreme_fear"
      [] v \in 25..44 -> "fear"
      [] v \in 45..55 -> "neutral"
      [] v \in 56..74 -> "greed"
      [] v >= 75 -> "extreme_greed"

\* 50 and 0 stand for what the global snapshots do not give.
Global(globals, events) ==
    LET v == IF globals.fear_greed = None THEN 50 ELSE globals.fear_greed
    IN  [fear_greed |-> v, label |-> FearGreedLabel(v),
         total_market_cap |-> OrZero(globals.total_market_cap),
         recent_surprises |-> [i \in DOMAIN events |->
             [event |-> events[i].id, surprise |-> events[i].surprise]]]

\* The run as it is without any language model.
Assemble(features, scoring, activations, conflicts, prices, globals, events) ==
    LET run == [is_degraded |-> TRUE,
                regime |-> scoring.regime,
                assets |-> [a \in DOMAIN features |->
                    AssembleAsset(a, features[a], scoring, activations, prices[a])],
                global |-> Global(globals, events),
                guardrail_flags |-> <<Flag("degraded_run", None)>>
                                    \o Listed({Flag("rule_conflict", a) : a \in conflicts})]
    IN  [run EXCEPT !.guardrail_flags = Validate(run).flags]

-----------------------------------------------------------------------------
(* _compose: sentiment is a function from assets or None, summaries the    *)
(* assets that were narrated or None.                                      *)

KeptFlags(base) ==
    LET flags == base.guardrail_flags
    IN  Chosen(flags, {i \in DOMAIN flags : flags[i].code # "degraded_run"})

Compose(base, sentiment, summaries, sentiment_failed, synthesis_failed) ==
    LET degraded == sentiment_failed \/ synthesis_failed
        When(failed, code) == IF failed THEN <<Flag(code, None)>> ELSE <<>>
        Said(a) == IF sentiment # None /\ a \in DOMAIN sentiment THEN sentiment[a]
                   ELSE base.assets[a].scores.sentiment
    IN  [base EXCEPT
            !.is_degraded = degraded,
            !.assets = [a \in DOMAIN base.assets |->
                [base.assets[a] EXCEPT
                    !.scores.sentiment = Said(a),
                    !.summary = summaries # None /\ a \in summaries]],
            !.guardrail_flags = KeptFlags(base)
                                \o When(degraded, "degraded_run")
                                \o When(sentiment_failed, "sentiment_degraded")
                                \o When(synthesis_failed, "synthesis_degraded")]

=============================================================================
