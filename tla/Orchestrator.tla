---------------------------- MODULE Orchestrator ----------------------------
(***************************************************************************)
(* PipelineOrchestrator.run, one action per stage, and the cycle of runs   *)
(* around it: the clock moves between runs, each run ingests one of the    *)
(* bundles the outside world can offer, asks the two language-model jobs   *)
(* for their answers, and publishes.                                       *)
(*                                                                         *)
(* A case is [feeds, series, prices, globals, events]: what each feed      *)
(* answers, series and prices by asset, and the recorded events, their     *)
(* times in hours.  The time of a run is in half-lives of 12 hours.        *)
(*                                                                         *)
(* "Seeded fault" marks a plausible bug in the definition after it.        *)
(***************************************************************************)
EXTENDS News, Assembly

CONSTANTS
    Cases,        \* what the outside world can offer
    Sentiments,   \* what the sentiment job can answer: functions from assets
    Narrations,   \* what the synthesis job can answer: sets of assets
    Noon,         \* the time of the first run
    MaxTime       \* bound on the time of a run

IsSeries(s) ==
    /\ s.closes \in Seq(Nat \ {0})
    /\ {s.highs, s.lows, s.volumes} \subseteq Seq(Nat)
    /\ s.changes # None => s.changes \in [Horizons -> Optional(Int)]

Snapshots == [value : Nat, is_stale : BOOLEAN]
Events == [id : Int, type : EventTypes, at : Int, consensus : Int, actual : Optional(Int)]
Texts == [length : Nat, assets : SUBSET Assets, topics : SUBSET DOMAIN MacroTopics]
Entries == [id : Optional(Int), at : Optional(Int), text : Texts]

IsCase(case) ==
    /\ case.feeds \in [DOMAIN Feeds -> Optional(Seq(Entries))]
    /\ \A a \in Assets : case.series[a] # None => IsSeries(case.series[a])
    /\ \A a \in Assets : case.prices[a] \in Optional(Snapshots)
    /\ case.globals.fear_greed \in Optional(0..100)
    /\ case.globals.total_market_cap \in Optional(Nat)
    /\ case.events \in Seq(Events)

ASSUME OrchestratorAssumption ==
    /\ \A case \in Cases : IsCase(case)
    /\ \A answer \in Sentiments : \A a \in DOMAIN answer : answer[a] \in SymmetricRange
    /\ \A told \in Narrations : told \subseteq Assets
    /\ Noon \in Nat /\ MaxTime \in Nat /\ Noon <= MaxTime

Stages == {"idle", "features", "news", "sentiment", "score", "rules", "assemble",
           "synthesis", "compose", "done"}

VARIABLES
    now,            \* the run's clock, ctx.now
    stage,
    ingest,         \* the bundle, and the answers of the feeds it was made from
    features, event_features, digest,
    sentiment,      \* what the first job said of assets with evidence, or None
    scoring, activations, conflicts,
    base,           \* the run without a language model
    narration,      \* the assets the second job narrated, or None
    run,            \* the run as it is published
    published,
    last_regime     \* the regime of the run before, for the properties

vars == <<now, stage, ingest, features, event_features, digest, sentiment, scoring,
          activations, conflicts, base, narration, run, published, last_regime>>

\* The scheduler asks its previous_state_provider, and nothing provides one.
PreviousState == None

sentiment_assets == DigestAssets(digest)

\* Without evidence the job is not asked, and has not failed.
sentiment_failed == sentiment_assets # {} /\ sentiment = None

Init ==
    /\ now = Noon
    /\ last_regime = None
    /\ stage = "idle"
    /\ ingest = None /\ features = None /\ event_features = None /\ digest = <<>>
    /\ sentiment = None /\ scoring = None /\ activations = None /\ conflicts = {}
    /\ base = None /\ narration = None /\ run = None /\ published = FALSE

Tick ==
    /\ stage = "idle"
    /\ now < MaxTime
    /\ now' = now + 1
    /\ UNCHANGED <<stage, ingest, features, event_features, digest, sentiment, scoring,
                   activations, conflicts, base, narration, run, published, last_regime>>

At(here, next) == stage = here /\ stage' = next

Bundle(case, at) ==
    [feeds |-> case.feeds, news_items |-> FetchItems(case.feeds, at),
     series |-> case.series, prices |-> case.prices,
     globals |-> case.globals, events |-> case.events]

\* The ingest provider is asked for a bundle.
Begin(case) ==
    /\ At("idle", "features")
    /\ ingest' = Bundle(case, now)
    /\ UNCHANGED <<now, features, event_features, digest, sentiment, scoring,
                   activations, conflicts, base, narration, run, published, last_regime>>

Features(series) == [a \in Assets |-> AssetFeatures(Class[a], series[a])]

ComputeFeatures ==
    /\ At("features", "news")
    /\ features' = Features(ingest.series)
    /\ event_features' = EventFeatures(ingest.events, 12 * now)
    /\ UNCHANGED <<now, ingest, digest, sentiment, scoring, activations, conflicts,
                   base, narration, run, published, last_regime>>

WeighNews ==
    /\ At("news", "sentiment")
    /\ digest' = Weigh(ingest.news_items, now)
    /\ UNCHANGED <<now, ingest, features, event_features, sentiment, scoring, activations,
                   conflicts, base, narration, run, published, last_regime>>

\* Seeded fault: an answer is taken as it is.
AsAnswered(answer, evidence) == answer

OfEvidence(answer, evidence) == Restrict(answer, DOMAIN answer \cap evidence)

\* The first job, asked only about assets with evidence; None when every
\* provider is exhausted.
AskSentiment ==
    /\ At("sentiment", "score")
    /\ \/ /\ sentiment_assets # {}
          /\ \E answer \in Sentiments : sentiment' = OfEvidence(answer, sentiment_assets)
       \/ sentiment' = None
    /\ UNCHANGED <<now, ingest, features, event_features, digest, scoring, activations,
                   conflicts, base, narration, run, published, last_regime>>

ScoreRun ==
    /\ At("score", "rules")
    /\ scoring' = Score(features, event_features, PreviousState,
                        IF sentiment = None THEN <<>> ELSE sentiment)
    /\ UNCHANGED <<now, ingest, features, event_features, digest, sentiment, activations,
                   conflicts, base, narration, run, published, last_regime>>

MatchRules ==
    /\ At("rules", "assemble")
    /\ activations' = Activations(Assets, event_features, scoring.regime.state)
    /\ conflicts' = ConflictFlags(Assets, event_features, scoring.regime.state)
    /\ UNCHANGED <<now, ingest, features, event_features, digest, sentiment, scoring,
                   base, narration, run, published, last_regime>>

AssembleBase ==
    /\ At("assemble", "synthesis")
    /\ base' = Assemble(features, scoring, activations, conflicts, ingest.prices,
                        ingest.globals, event_features)
    /\ UNCHANGED <<now, ingest, features, event_features, digest, sentiment, scoring,
                   activations, conflicts, narration, run, published, last_regime>>

\* The second job is asked in every run.
AskSynthesis ==
    /\ At("synthesis", "compose")
    /\ narration' \in Narrations \cup {None}
    /\ UNCHANGED <<now, ingest, features, event_features, digest, sentiment, scoring,
                   activations, conflicts, base, run, published, last_regime>>

Composed == Compose(base, sentiment, narration, sentiment_failed, narration = None)

\* The composed run goes through the guardrails once more.
ComposeRun ==
    /\ At("compose", "done")
    /\ run' = [Composed EXCEPT !.guardrail_flags = Validate(Composed).flags]
    /\ published' = Validate(Composed).publish
    /\ UNCHANGED <<now, ingest, features, event_features, digest, sentiment, scoring,
                   activations, conflicts, base, narration, last_regime>>

\* The result is handed to the run service, and the next run starts afresh.
Finish ==
    /\ At("done", "idle")
    /\ last_regime' = run.regime.state
    /\ ingest' = None /\ features' = None /\ event_features' = None /\ digest' = <<>>
    /\ sentiment' = None /\ scoring' = None /\ activations' = None /\ conflicts' = {}
    /\ base' = None /\ narration' = None /\ run' = None /\ published' = FALSE
    /\ UNCHANGED now

Next ==
    \/ Tick
    \/ \E case \in Cases : Begin(case)
    \/ ComputeFeatures
    \/ WeighNews
    \/ AskSentiment
    \/ ScoreRun
    \/ MatchRules
    \/ AssembleBase
    \/ AskSynthesis
    \/ ComposeRun
    \/ Finish

Spec == Init /\ [][Next]_vars

=============================================================================
