----------------------- MODULE OrchestratorProperties -----------------------
(***************************************************************************)
(* What a published run owes to the news, the events and the series it was *)
(* made from, stated against those and not against the stages between.     *)
(***************************************************************************)
EXTENDS Orchestrator

\* Every published run is a document of the contract (core/models.py): scores
\* and indices in their ranges, one entry for each configured asset.
TypeOK ==
    /\ stage \in Stages
    /\ now \in Noon..MaxTime
    /\ last_regime \in Optional(RegimeStates)
    /\ run # None => IsMarketStateRun(run)
    /\ published => stage = "done"

-----------------------------------------------------------------------------
(* News. *)

\* The titled entries of the feeds that answered, each with its feed.
Answered ==
    UNION {{[entry |-> e, feed |-> Feeds[f]] : e \in Range(ingest.feeds[f])} :
              f \in {g \in DOMAIN Feeds : ingest.feeds[g] # None}}

Titled == {x \in Answered : x.entry.id # None}

\* A feed that fails takes nothing from the others (news_feeds.py:405), and an
\* article that several feeds carry is kept once, with every feed's tags, its
\* earliest date and its longest text, in whatever order they came.
NewsComplete ==
    ingest # None =>
        LET items == Range(ingest.news_items)
            Copies(id) == {x \in Titled : x.entry.id = id}
        IN  /\ {item.id : item \in items} = {x.entry.id : x \in Titled}
            /\ Cardinality({item.id : item \in items}) = Len(ingest.news_items)
            /\ \A item \in items :
                  /\ item.tags = UNION {x.feed.tags : x \in Copies(item.id)}
                  /\ \A x \in Copies(item.id) :
                        /\ x.entry.at # None => item.published <= x.entry.at
                        /\ item.text.length >= x.entry.text.length
                  /\ item.published \in {PublishedAt(x.entry, now) : x \in Copies(item.id)}

Digested == {digest[i].id : i \in DOMAIN digest}

\* The cap starves no primary asset (weigher.py:128): each one that a fresh
\* article is about has its heaviest article in the digest, and what the cap
\* leaves out is no heavier than what it lets in for its weight alone.
PrimaryCoverage ==
    stage = "sentiment" =>
        LET ranked == Ranked(ingest.news_items, now)
            Weights(asset) == {w \in Range(ranked) : asset \in DOMAIN w.weights}
            Heaviest(asset, w) == w \in Weights(asset)
                                  /\ \A v \in Weights(asset) : Weight(v) <= Weight(w)
            dropped == {w \in Range(ranked) : w.id \notin Digested}
            spared == {w \in Range(digest) :
                         \A a \in ToSet(PrimaryAssets) : ~Heaviest(a, w)}
        IN  /\ Len(digest) = Min({MaxDigest, Len(ranked)})
            /\ \A a \in ToSet(PrimaryAssets) :
                  Weights(a) # {} => \E w \in Range(digest) : Heaviest(a, w)
            /\ \A v \in dropped, w \in spared : Weight(v) <= Weight(w)

\* Sentiment is published only for an asset that a fresh article is about, and
\* the job counts as failed only when there was something to ask it
\* (orchestrator.py:182, 102).
EvidenceBacked ==
    stage = "done" =>
        LET evidence == {a \in Assets :
                \E item \in Range(ingest.news_items) :
                    item.id \in Digested /\ IsFresh(item, now) /\ Relevance(item, a) > 0}
        IN  /\ \A a \in Assets : run.assets[a].scores.sentiment # None => a \in evidence
            /\ "sentiment_degraded" \in Codes(run) <=> evidence # {} /\ sentiment = None

\* What pipelines.md and the product requirements say: no article of an invalid
\* date, or out of the window, reaches the language model.
OldNewsExcluded ==
    \A id \in Digested :
        \E x \in Titled : /\ x.entry.id = id
                          /\ x.entry.at # None
                          /\ now - x.entry.at \in 0..MaxNewsAge

-----------------------------------------------------------------------------
(* Rules. *)

\* The effects on an asset that the events of this run justify in its regime.
Effects(asset) == {c.effect : c \in Candidates(asset, event_features, run.regime.state)}
Stronger(e, strength) == Rank[e.strength] > Rank[strength]

\* Of several rules on an asset the strongest counts; opposing effects of its
\* strength leave a flag and no causal link (conflict.py:46).
StrongestEffectWins ==
    stage = "done" =>
        \A a \in Assets :
            LET asset == run.assets[a]
                flagged == Flag("rule_conflict", a) \in Range(run.guardrail_flags)
                Opposed(strength) ==
                    {"bullish", "bearish"} \subseteq
                        {e.direction : e \in {x \in Effects(a) : x.strength = strength}}
            IN  /\ Effects(a) = {} => asset.activated_rules = <<>> /\ ~flagged
                /\ Effects(a) # {} =>
                      LET strength == asset.activated_rules[1].strength
                      IN  /\ \A e \in Effects(a) : ~Stronger(e, strength)
                          /\ flagged <=> Opposed(strength)
                          /\ flagged => asset.causal_links = <<>>
                          /\ \A link \in Range(asset.causal_links) :
                                \E e \in Effects(a) :
                                    e.strength = strength /\ e.direction = link.direction

RuleOf(id) == CHOOSE rule \in Range(Rulebook) : rule.id = id

\* While any material event is in its window the regime is event_driven, so a
\* rule guarded for other regimes never acts at full strength: not even the rule
\* that the event itself triggers (regime.py:51, matcher.py:44).
GuardedRulesWait ==
    stage = "done" /\ MaterialEvents(event_features) # {} =>
        \A a \in Assets : \A act \in Range(run.assets[a].activated_rules) :
            LET guard == RuleOf(act.rule).guard
            IN  guard # None /\ "event_driven" \notin guard.applies_in =>
                    CASE guard.otherwise = "suppress" -> FALSE
                      [] guard.otherwise = "downgrade_to_minor" -> act.strength = "minor"
                      [] OTHER -> TRUE

\* The event a causal link names is one that made the rule fire, of several of
\* its type as well: the surprise that is read and the event that is named are
\* kept in two maps (rules/engine.py:38, 69).
ActivationsNameTheirEvent ==
    stage = "done" =>
        \A a \in Assets : \A link \in Range(run.assets[a].causal_links) :
            LET rule == RuleOf(link.via_rule)
            IN  rule.type = rule.var =>
                    \E i \in DOMAIN event_features :
                        /\ event_features[i].id = link.from
                        /\ EvaluateCondition(rule, event_features[i].surprise)

-----------------------------------------------------------------------------
(* The document. *)

\* No guardrail ever has anything to say of what the pipeline composes, whatever
\* the market, the news and the two jobs do: every run is published, its flags
\* are the conflicts and the failed jobs, each once, and it is degraded exactly
\* when a job failed (guardrails/checks.py, orchestrator.py:242).
GuardrailsSilent ==
    stage = "done" =>
        LET failed == (IF sentiment_failed THEN {"sentiment_degraded"} ELSE {})
                      \cup (IF narration = None THEN {"synthesis_degraded"} ELSE {})
            codes == failed \cup (IF failed = {} THEN {} ELSE {"degraded_run"})
        IN  /\ published
            /\ run.is_degraded = (failed # {})
            /\ Range(run.guardrail_flags) =
                  {Flag(code, None) : code \in codes} \cup {Flag("rule_conflict", a) : a \in conflicts}
            /\ Len(run.guardrail_flags) = Cardinality(Range(run.guardrail_flags))

\* A change is published as it is in the series, or as 0 for a horizon that is
\* longer than the series: and then declared as a gap for 6 hours, and for the
\* capitalisation, only (deterministic_state.py:253, 279).
ChangesAreReal ==
    stage = "done" =>
        \A a \in Assets, h \in Horizons :
            LET asset == run.assets[a]
                series == ingest.series[a]
                known == /\ series # None
                         /\ IF series.changes = None THEN Len(series.closes) > Bars[h]
                            ELSE series.changes[h] # None
                then == Back(series.closes, Bars[h])
            IN  /\ h \in asset.data_gaps <=> ~known /\ (h = "6h" \/ a = "TOTAL_MCAP")
                /\ ~known => asset.changes[h] = 0
                /\ known /\ series.changes = None =>
                      \* In hundredths of a percent, rounded down.
                      LET exact == 10000 * (Last(series.closes) - then)
                      IN  exact - asset.changes[h] * then \in 0..(then - 1)

\* The run contract: previous_state is the regime of the run before, null only
\* for the first one.
RegimeRemembered ==
    stage = "done" =>
        /\ run.regime.previous_state = last_regime
        /\ run.regime.changed_this_run = (run.regime.state # last_regime)

-----------------------------------------------------------------------------
(* The inductive invariant behind the properties: what each stage has made *)
(* of the bundle is still what it makes of it.                             *)

PastCompose == {"done"}
PastSynthesis == {"compose"} \cup PastCompose
PastAssemble == {"synthesis"} \cup PastSynthesis
PastRules == {"assemble"} \cup PastAssemble
PastScore == {"rules"} \cup PastRules
PastSentiment == {"score"} \cup PastScore
PastNews == {"sentiment"} \cup PastSentiment
PastFeatures == {"news"} \cup PastNews
PastBegin == {"features"} \cup PastFeatures

BundleInv ==
    IF stage \in PastBegin THEN \E case \in Cases : ingest = Bundle(case, now)
    ELSE ingest = None

FeaturesInv ==
    stage \in PastFeatures =>
        /\ features = Features(ingest.series)
        /\ event_features = EventFeatures(ingest.events, 12 * now)

NewsInv ==
    IF stage \in PastNews THEN digest = Weigh(ingest.news_items, now) ELSE digest = <<>>

SentimentInv ==
    stage \in PastSentiment /\ sentiment # None =>
        /\ sentiment_assets # {}
        /\ \E answer \in Sentiments : sentiment = OfEvidence(answer, sentiment_assets)

ScoresInv ==
    stage \in PastScore =>
        scoring = Score(features, event_features, PreviousState,
                        IF sentiment = None THEN <<>> ELSE sentiment)

RulesInv ==
    stage \in PastRules =>
        /\ activations = Activations(Assets, event_features, scoring.regime.state)
        /\ conflicts = ConflictFlags(Assets, event_features, scoring.regime.state)

BaseInv ==
    stage \in PastAssemble =>
        base = Assemble(features, scoring, activations, conflicts, ingest.prices,
                        ingest.globals, event_features)

NarrationInv == stage \in PastSynthesis => narration \in Narrations \cup {None}

RunInv ==
    IF stage \in PastCompose
    THEN /\ run = [Composed EXCEPT !.guardrail_flags = Validate(Composed).flags]
         /\ published = Validate(Composed).publish
    ELSE run = None /\ published = FALSE

AnalysisInv ==
    /\ stage \in Stages
    /\ now \in Noon..MaxTime
    /\ BundleInv
    /\ FeaturesInv
    /\ NewsInv
    /\ SentimentInv
    /\ ScoresInv
    /\ RulesInv
    /\ BaseInv
    /\ NarrationInv
    /\ RunInv

=============================================================================
