------------------------- MODULE OrchestratorProofs -------------------------
(***************************************************************************)
(* Proofs about the analysis, for every value of the constants: any        *)
(* assets, rulebook, feeds, periods and caps, and any bundles, sentiments  *)
(* and narrations the outside can offer.                                   *)
(***************************************************************************)
EXTENDS OrchestratorProperties, ListingProofs, SequenceTheorems

-----------------------------------------------------------------------------
(* The inductive invariant. *)

LEMMA AnalysisInit == Init => AnalysisInv
<1> SUFFICES ASSUME Init PROVE AnalysisInv
  OBVIOUS
<1>1. stage = "idle" /\ stage \in Stages /\ stage \notin PastBegin
  BY DEF Init, Stages, PastBegin, PastFeatures, PastNews, PastSentiment, PastScore,
         PastRules, PastAssemble, PastSynthesis, PastCompose
<1>2. now \in Noon..MaxTime
  BY OrchestratorAssumption DEF Init
<1> QED
  BY <1>1, <1>2
  DEF Init, AnalysisInv, BundleInv, FeaturesInv, NewsInv, SentimentInv, ScoresInv, RulesInv,
      BaseInv, NarrationInv, RunInv, PastBegin, PastFeatures, PastNews, PastSentiment,
      PastScore, PastRules, PastAssemble, PastSynthesis, PastCompose

(* A stage is one of ten, so what is past a stage is settled by its name.   *)
LEMMA StageNames ==
  /\ PastBegin \subseteq Stages /\ "idle" \in Stages \ PastBegin
  /\ PastBegin = PastFeatures \cup {"features"} /\ "features" \notin PastFeatures
  /\ PastFeatures = PastNews \cup {"news"} /\ "news" \notin PastNews
  /\ PastNews = PastSentiment \cup {"sentiment"} /\ "sentiment" \notin PastSentiment
  /\ PastSentiment = PastScore \cup {"score"} /\ "score" \notin PastScore
  /\ PastScore = PastRules \cup {"rules"} /\ "rules" \notin PastRules
  /\ PastRules = PastAssemble \cup {"assemble"} /\ "assemble" \notin PastAssemble
  /\ PastAssemble = PastSynthesis \cup {"synthesis"} /\ "synthesis" \notin PastSynthesis
  /\ PastSynthesis = PastCompose \cup {"compose"} /\ "compose" \notin PastCompose
  /\ PastCompose = {"done"} /\ "idle" \notin PastBegin
BY DEF Stages, PastBegin, PastFeatures, PastNews, PastSentiment, PastScore, PastRules,
       PastAssemble, PastSynthesis, PastCompose

LEMMA TickKeeps == AnalysisInv /\ Tick => AnalysisInv'
<1> SUFFICES ASSUME AnalysisInv, Tick PROVE AnalysisInv'
  OBVIOUS
<1>1. stage = "idle" /\ stage' = stage /\ stage \notin PastBegin
  BY StageNames DEF Tick
<1>2. now' \in Noon..MaxTime
  BY OrchestratorAssumption DEF AnalysisInv, Tick
<1> QED
  BY <1>1, <1>2, StageNames
  DEF Tick, AnalysisInv, BundleInv, FeaturesInv, NewsInv, SentimentInv, ScoresInv, RulesInv,
      BaseInv, NarrationInv, RunInv

LEMMA BeginKeeps == ASSUME NEW case \in Cases PROVE AnalysisInv /\ Begin(case) => AnalysisInv'
<1> SUFFICES ASSUME AnalysisInv, Begin(case) PROVE AnalysisInv'
  OBVIOUS
<1>1. /\ stage = "idle" /\ stage' = "features"
      /\ stage' \in PastBegin \ PastFeatures
  BY StageNames DEF Begin, At
<1>2. BundleInv'
  BY <1>1 DEF Begin, BundleInv
<1> QED
  BY <1>1, <1>2, StageNames
  DEF Begin, At, AnalysisInv, FeaturesInv, NewsInv, SentimentInv, ScoresInv, RulesInv,
      BaseInv, NarrationInv, RunInv

LEMMA ComputeFeaturesKeeps == AnalysisInv /\ ComputeFeatures => AnalysisInv'
<1> SUFFICES ASSUME AnalysisInv, ComputeFeatures PROVE AnalysisInv'
  OBVIOUS
<1>1. /\ stage = "features" /\ stage' = "news" /\ now' = now /\ ingest' = ingest
      /\ stage' \in PastFeatures \ PastNews
  BY StageNames DEF ComputeFeatures, At
<1>2. BundleInv'
  BY <1>1, StageNames DEF AnalysisInv, BundleInv
<1>3. FeaturesInv'
  BY <1>1 DEF ComputeFeatures, FeaturesInv
<1> QED
  BY <1>1, <1>2, <1>3, StageNames
  DEF ComputeFeatures, AnalysisInv, NewsInv, SentimentInv, ScoresInv, RulesInv,
      BaseInv, NarrationInv, RunInv

LEMMA WeighNewsKeeps == AnalysisInv /\ WeighNews => AnalysisInv'
<1> SUFFICES ASSUME AnalysisInv, WeighNews PROVE AnalysisInv'
  OBVIOUS
<1>1. /\ stage = "news" /\ stage' = "sentiment" /\ now' = now /\ ingest' = ingest
      /\ stage' \in PastNews \ PastSentiment
  BY StageNames DEF WeighNews, At
<1>2. BundleInv' /\ FeaturesInv'
  BY <1>1, StageNames DEF WeighNews, AnalysisInv, BundleInv, FeaturesInv
<1>3. NewsInv'
  BY <1>1 DEF WeighNews, NewsInv
<1> QED
  BY <1>1, <1>2, <1>3, StageNames
  DEF WeighNews, AnalysisInv, SentimentInv, ScoresInv, RulesInv, BaseInv, NarrationInv, RunInv

LEMMA AskSentimentKeeps == AnalysisInv /\ AskSentiment => AnalysisInv'
<1> SUFFICES ASSUME AnalysisInv, AskSentiment PROVE AnalysisInv'
  OBVIOUS
<1>1. /\ stage = "sentiment" /\ stage' = "score" /\ now' = now /\ ingest' = ingest
      /\ digest' = digest /\ stage' \in PastSentiment \ PastScore
  BY StageNames DEF AskSentiment, At
<1>2. BundleInv' /\ FeaturesInv' /\ NewsInv'
  BY <1>1, StageNames DEF AskSentiment, AnalysisInv, BundleInv, FeaturesInv, NewsInv
<1>3. SentimentInv'
  <2>1. sentiment_assets' = sentiment_assets
    BY <1>1 DEF sentiment_assets
  <2>2. \/ sentiment' = None
        \/ /\ sentiment_assets # {}
           /\ \E answer \in Sentiments : sentiment' = OfEvidence(answer, sentiment_assets)
    BY DEF AskSentiment
  <2> QED
    BY <2>1, <2>2 DEF SentimentInv
<1> QED
  BY <1>1, <1>2, <1>3, StageNames
  DEF AskSentiment, AnalysisInv, ScoresInv, RulesInv, BaseInv, NarrationInv, RunInv

LEMMA ScoreRunKeeps == AnalysisInv /\ ScoreRun => AnalysisInv'
<1> SUFFICES ASSUME AnalysisInv, ScoreRun PROVE AnalysisInv'
  OBVIOUS
<1>1. /\ stage = "score" /\ stage' = "rules" /\ now' = now /\ ingest' = ingest
      /\ digest' = digest /\ sentiment' = sentiment
      /\ stage' \in PastScore \ PastRules
  BY StageNames DEF ScoreRun, At
<1>2. BundleInv' /\ FeaturesInv' /\ NewsInv'
  BY <1>1, StageNames DEF ScoreRun, AnalysisInv, BundleInv, FeaturesInv, NewsInv
<1>3. SentimentInv'
  BY <1>1, StageNames DEF AnalysisInv, SentimentInv, sentiment_assets
<1>4. ScoresInv'
  BY <1>1 DEF ScoreRun, ScoresInv, PreviousState
<1> QED
  BY <1>1, <1>2, <1>3, <1>4, StageNames
  DEF ScoreRun, AnalysisInv, RulesInv, BaseInv, NarrationInv, RunInv

LEMMA MatchRulesKeeps == AnalysisInv /\ MatchRules => AnalysisInv'
<1> SUFFICES ASSUME AnalysisInv, MatchRules PROVE AnalysisInv'
  OBVIOUS
<1>1. /\ stage = "rules" /\ stage' = "assemble" /\ now' = now /\ ingest' = ingest
      /\ digest' = digest /\ sentiment' = sentiment
      /\ stage' \in PastRules \ PastAssemble
  BY StageNames DEF MatchRules, At
<1>2. BundleInv' /\ FeaturesInv' /\ NewsInv'
  BY <1>1, StageNames DEF MatchRules, AnalysisInv, BundleInv, FeaturesInv, NewsInv
<1>3. SentimentInv' /\ ScoresInv'
  BY <1>1, StageNames
  DEF MatchRules, AnalysisInv, SentimentInv, ScoresInv, sentiment_assets, PreviousState
<1>4. RulesInv'
  BY <1>1 DEF MatchRules, RulesInv
<1> QED
  BY <1>1, <1>2, <1>3, <1>4, StageNames
  DEF MatchRules, AnalysisInv, BaseInv, NarrationInv, RunInv

LEMMA AssembleBaseKeeps == AnalysisInv /\ AssembleBase => AnalysisInv'
<1> SUFFICES ASSUME AnalysisInv, AssembleBase PROVE AnalysisInv'
  OBVIOUS
<1>1. /\ stage = "assemble" /\ stage' = "synthesis" /\ now' = now /\ ingest' = ingest
      /\ digest' = digest /\ sentiment' = sentiment
      /\ stage' \in PastAssemble \ PastSynthesis
  BY StageNames DEF AssembleBase, At
<1>2. BundleInv' /\ FeaturesInv' /\ NewsInv'
  BY <1>1, StageNames DEF AssembleBase, AnalysisInv, BundleInv, FeaturesInv, NewsInv
<1>3. SentimentInv' /\ ScoresInv' /\ RulesInv'
  BY <1>1, StageNames
  DEF AssembleBase, AnalysisInv, SentimentInv, ScoresInv, RulesInv, sentiment_assets,
      PreviousState
<1>4. BaseInv'
  BY <1>1 DEF AssembleBase, BaseInv
<1> QED
  BY <1>1, <1>2, <1>3, <1>4, StageNames DEF AssembleBase, AnalysisInv, NarrationInv, RunInv

LEMMA AskSynthesisKeeps == AnalysisInv /\ AskSynthesis => AnalysisInv'
<1> SUFFICES ASSUME AnalysisInv, AskSynthesis PROVE AnalysisInv'
  OBVIOUS
<1>1. /\ stage = "synthesis" /\ stage' = "compose" /\ now' = now /\ ingest' = ingest
      /\ digest' = digest /\ sentiment' = sentiment
      /\ stage' \in PastSynthesis \ PastCompose
  BY StageNames DEF AskSynthesis, At
<1>2. BundleInv' /\ FeaturesInv' /\ NewsInv'
  BY <1>1, StageNames DEF AskSynthesis, AnalysisInv, BundleInv, FeaturesInv, NewsInv
<1>3. SentimentInv' /\ ScoresInv' /\ RulesInv' /\ BaseInv'
  BY <1>1, StageNames
  DEF AskSynthesis, AnalysisInv, SentimentInv, ScoresInv, RulesInv, BaseInv,
      sentiment_assets, PreviousState
<1>4. NarrationInv'
  BY <1>1 DEF AskSynthesis, NarrationInv
<1> QED
  BY <1>1, <1>2, <1>3, <1>4, StageNames DEF AskSynthesis, AnalysisInv, RunInv

LEMMA ComposeRunKeeps == AnalysisInv /\ ComposeRun => AnalysisInv'
<1> SUFFICES ASSUME AnalysisInv, ComposeRun PROVE AnalysisInv'
  OBVIOUS
<1>1. /\ stage = "compose" /\ stage' = "done" /\ now' = now /\ ingest' = ingest
      /\ digest' = digest /\ sentiment' = sentiment /\ base' = base /\ narration' = narration
      /\ stage' \in PastCompose
  BY StageNames DEF ComposeRun, At
<1>2. BundleInv' /\ FeaturesInv' /\ NewsInv'
  BY <1>1, StageNames DEF ComposeRun, AnalysisInv, BundleInv, FeaturesInv, NewsInv
<1>3. SentimentInv' /\ ScoresInv' /\ RulesInv' /\ BaseInv' /\ NarrationInv'
  BY <1>1, StageNames
  DEF ComposeRun, AnalysisInv, SentimentInv, ScoresInv, RulesInv, BaseInv, NarrationInv,
      sentiment_assets, PreviousState
<1>4. RunInv'
  <2>1. sentiment_failed' = sentiment_failed
    BY <1>1 DEF sentiment_failed, sentiment_assets
  <2>2. Composed' = Composed
    BY <1>1, <2>1 DEF Composed
  <2> QED
    BY <1>1, <2>2 DEF ComposeRun, RunInv
<1> QED
  BY <1>1, <1>2, <1>3, <1>4, StageNames DEF ComposeRun, AnalysisInv

LEMMA FinishKeeps == AnalysisInv /\ Finish => AnalysisInv'
<1> SUFFICES ASSUME AnalysisInv, Finish PROVE AnalysisInv'
  OBVIOUS
<1>1. stage' = "idle" /\ now' = now /\ stage' \notin PastBegin
  BY StageNames DEF Finish, At
<1> QED
  BY <1>1, StageNames
  DEF Finish, AnalysisInv, BundleInv, FeaturesInv, NewsInv, SentimentInv, ScoresInv, RulesInv,
      BaseInv, NarrationInv, RunInv

LEMMA AnalysisStutters == AnalysisInv /\ UNCHANGED vars => AnalysisInv'
BY DEF vars, AnalysisInv, BundleInv, FeaturesInv, NewsInv, SentimentInv, ScoresInv, RulesInv,
       BaseInv, NarrationInv, RunInv, Composed, sentiment_failed, sentiment_assets

(* What each stage made is what it makes of the bundle of this run, the     *)
(* answers of the two jobs and the time, until the run is over: no later    *)
(* stage touches it, and nothing of a run is left for the next one          *)
(* (orchestrator.py:140).                                                   *)
THEOREM AnalysisInvariant == Spec => []AnalysisInv
<1>1. Init => AnalysisInv
  BY AnalysisInit
<1>2. AnalysisInv /\ [Next]_vars => AnalysisInv'
  <2>1. CASE UNCHANGED vars
    BY <2>1, AnalysisStutters
  <2>2. CASE Next
    BY <2>2, TickKeeps, BeginKeeps, ComputeFeaturesKeeps, WeighNewsKeeps, AskSentimentKeeps,
       ScoreRunKeeps, MatchRulesKeeps, AssembleBaseKeeps, AskSynthesisKeeps,
       ComposeRunKeeps, FinishKeeps
    DEF Next
  <2> QED
    BY <2>1, <2>2
<1> QED
  BY <1>1, <1>2, PTL DEF Spec

-----------------------------------------------------------------------------
(* The document: what a finished run has of the stages before it.           *)

Scored == IF sentiment = None THEN <<>> ELSE sentiment
Told(a) == sentiment # None /\ a \in DOMAIN sentiment
Plain(a) == AssembleAsset(a, features[a], scoring, activations, ingest.prices[a])
Acts(a) == IF a \in DOMAIN activations THEN <<activations[a]>> ELSE <<>>

(* The base is what the stages made; the composition adds sentiment and     *)
(* narration to it, and nothing else but flags.                             *)
LEMMA BaseDocument ==
  ASSUME AnalysisInv, stage = "done"
  PROVE  /\ DOMAIN features = Assets
         /\ base.is_degraded = TRUE
         /\ base.regime = scoring.regime
         /\ base.global = Global(ingest.globals, event_features)
         /\ base.assets = [a \in Assets |-> Plain(a)]
<1>1. stage \in PastFeatures /\ stage \in PastAssemble
  BY StageNames
<1>2. DOMAIN features = Assets
  BY <1>1 DEF AnalysisInv, FeaturesInv, Features
<1>3. base = Assemble(features, scoring, activations, conflicts, ingest.prices,
                      ingest.globals, event_features)
  BY <1>1 DEF AnalysisInv, BaseInv
<1> QED
  BY <1>2, <1>3 DEF Assemble, Plain

LEMMA RunDocument ==
  ASSUME AnalysisInv, stage = "done"
  PROVE  /\ run.is_degraded = (sentiment_failed \/ narration = None)
         /\ run.regime = scoring.regime
         /\ run.global = Global(ingest.globals, event_features)
         /\ DOMAIN run.assets = Assets
         /\ run.guardrail_flags = Validate(Composed).flags
         /\ published = Validate(Composed).publish
<1>1. stage \in PastCompose
  BY StageNames
<1>2. /\ run = [Composed EXCEPT !.guardrail_flags = Validate(Composed).flags]
      /\ published = Validate(Composed).publish
  BY <1>1 DEF AnalysisInv, RunInv
<1>3. stage \in PastAssemble
  BY StageNames
<1>4. base = Assemble(features, scoring, activations, conflicts, ingest.prices,
                      ingest.globals, event_features)
  BY <1>3 DEF AnalysisInv, BaseInv
<1> QED
  BY <1>2, <1>4, BaseDocument DEF Composed, Compose, Assemble

LEMMA PlainAsset ==
  ASSUME NEW a
  PROVE  /\ Plain(a).price = Price(ingest.prices[a])
         /\ Plain(a).changes = [h \in Horizons |-> OrZero(features[a].changes[h])]
         /\ Plain(a).indicators = [x \in DOMAIN features[a] \ {"changes"} |-> features[a][x]]
         /\ Plain(a).scores = [trend |-> scoring.trend[a], risk |-> scoring.risk[a],
                               sentiment |-> None, confidence |-> scoring.confidence[a]]
         /\ Plain(a).market_health_index = scoring.mhi[a]
         /\ Plain(a).activated_rules =
               [i \in DOMAIN Acts(a) |-> [rule |-> Acts(a)[i].rule, strength |-> Acts(a)[i].strength,
                                          halvings |-> Acts(a)[i].halvings]]
         /\ Plain(a).causal_links =
               IF a \in DOMAIN activations /\ activations[a].direction # "neutral"
               THEN <<CausalLink(activations[a])>> ELSE <<>>
         /\ Plain(a).summary = FALSE
         /\ Plain(a).data_gaps = DataGaps(a, features[a].changes)
<1>1. Plain(a).causal_links =
         IF a \in DOMAIN activations /\ activations[a].direction # "neutral"
         THEN <<CausalLink(activations[a])>> ELSE <<>>
  <2>1. CASE a \in DOMAIN activations /\ activations[a].direction # "neutral"
    <3>1. Plain(a).causal_links =
             [i \in DOMAIN <<activations[a]>> |-> CausalLink(<<activations[a]>>[i])]
      BY <2>1 DEF Plain, AssembleAsset
    <3>2. DOMAIN <<activations[a]>> = {1} /\ <<activations[a]>>[1] = activations[a]
      OBVIOUS
    <3>3. Plain(a).causal_links = [i \in {1} |-> CausalLink(activations[a])]
      BY <3>1, <3>2
    <3>4. <<CausalLink(activations[a])>> = [i \in {1} |-> CausalLink(activations[a])]
      OBVIOUS
    <3> QED
      BY <2>1, <3>3, <3>4
  <2>2. CASE ~(a \in DOMAIN activations /\ activations[a].direction # "neutral")
    <3>1. Plain(a).causal_links = [i \in DOMAIN <<>> |-> CausalLink(<<>>[i])]
      BY <2>2 DEF Plain, AssembleAsset
    <3> QED
      BY <2>2, <3>1
  <2> QED
    BY <2>1, <2>2
<1>2. Plain(a).activated_rules =
         [i \in DOMAIN Acts(a) |-> [rule |-> Acts(a)[i].rule, strength |-> Acts(a)[i].strength,
                                    halvings |-> Acts(a)[i].halvings]]
  BY DEF Plain, AssembleAsset, Acts
<1> QED
  BY <1>1, <1>2 DEF Plain, AssembleAsset

LEMMA ComposedAssets ==
  ASSUME AnalysisInv, stage = "done"
  PROVE  /\ run.assets = Composed.assets
         /\ DOMAIN run.assets = Assets
         /\ \A a \in Assets :
               run.assets[a] =
                  [Plain(a) EXCEPT !.scores.sentiment = IF Told(a) THEN sentiment[a] ELSE None,
                                   !.summary = narration # None /\ a \in narration]
<1>1. run = [Composed EXCEPT !.guardrail_flags = Validate(Composed).flags]
  <2>1. stage \in PastCompose
    BY StageNames
  <2> QED
    BY <2>1 DEF AnalysisInv, RunInv
<1>2. stage \in PastAssemble
  BY StageNames
<1>3. base = Assemble(features, scoring, activations, conflicts, ingest.prices,
                      ingest.globals, event_features)
  BY <1>2 DEF AnalysisInv, BaseInv
<1>4. run.assets = Composed.assets
  BY <1>1, <1>3 DEF Composed, Compose, Assemble
<1>5. Composed.assets =
         [a \in DOMAIN base.assets |->
            [base.assets[a] EXCEPT
                !.scores.sentiment = IF Told(a) THEN sentiment[a]
                                     ELSE base.assets[a].scores.sentiment,
                !.summary = narration # None /\ a \in narration]]
  BY <1>3 DEF Composed, Compose, Assemble, Told
<1>6. base.assets = [a \in Assets |-> Plain(a)]
  BY BaseDocument
<1>7. ASSUME NEW a \in Assets
      PROVE  run.assets[a] =
                [Plain(a) EXCEPT !.scores.sentiment = IF Told(a) THEN sentiment[a] ELSE None,
                                 !.summary = narration # None /\ a \in narration]
  <2>1. base.assets[a] = Plain(a) /\ a \in DOMAIN base.assets
    BY <1>6
  <2>2. run.assets[a] =
           [Plain(a) EXCEPT !.scores.sentiment = IF Told(a) THEN sentiment[a]
                                                 ELSE Plain(a).scores.sentiment,
                            !.summary = narration # None /\ a \in narration]
    BY <1>4, <1>5, <2>1
  <2>3. Plain(a).scores.sentiment = None
    <3>1. Plain(a).scores = [trend |-> scoring.trend[a], risk |-> scoring.risk[a],
                             sentiment |-> None, confidence |-> scoring.confidence[a]]
      BY PlainAsset
    <3> QED
      BY <3>1
  <2> QED
    BY <2>2, <2>3
<1> QED
  BY <1>4, <1>5, <1>6, <1>7

-----------------------------------------------------------------------------
(* Events and rules. *)

Happened == [id : Int, type : EventTypes, surprise : Int, proximity : Int]

(* The features of events are numbers, of the events that have happened.    *)
LEMMA EventsTyped ==
  ASSUME NEW events \in Seq(Events), NEW at \in Int
  PROVE  EventFeatures(events, at) \in Seq(Happened)
<1> DEFINE K == {i \in DOMAIN events : events[i].actual # None}
<1>1. K \in SUBSET DOMAIN events
  OBVIOUS
<1>2. PICK recorded : recorded = Chosen(events, K)
  OBVIOUS
<1>3. /\ recorded \in Seq(Events)
      /\ \A i \in 1..Len(recorded) : \E k \in K : recorded[i] = events[k]
  <2> HIDE DEF K
  <2> QED
    BY <1>1, <1>2, ChosenTyped
<1>4. EventFeatures(events, at) = [i \in DOMAIN recorded |-> EventFeature(recorded[i], at)]
  BY <1>2 DEF EventFeatures
<1>5. ASSUME NEW i \in 1..Len(recorded) PROVE EventFeature(recorded[i], at) \in Happened
  <2>1. PICK k \in K : recorded[i] = events[k]
    BY <1>3
  <2>2. events[k] \in Events /\ events[k].actual # None
    BY <2>1
  <2>3. PICK e \in Events : e = events[k] /\ e = recorded[i]
    BY <2>1, <2>2
  <2>4. /\ e.actual \in Int /\ e.consensus \in Int /\ e.at \in Int /\ e.id \in Int
        /\ e.type \in EventTypes
    BY <2>2, <2>3 DEF Events, Optional
  <2>5. EventFeature(e, at) \in Happened
    BY <2>4 DEF EventFeature, Happened
  <2> QED
    BY <2>3, <2>5
<1>6. PICK n \in Nat : n = Len(recorded) /\ DOMAIN recorded = 1..n
  BY <1>3
<1>7. [i \in 1..n |-> EventFeature(recorded[i], at)] \in Seq(Happened)
  BY <1>5, <1>6
<1> QED
  BY <1>4, <1>6, <1>7

LEMMA RunEvents ==
  ASSUME AnalysisInv, stage \in PastFeatures
  PROVE  event_features \in Seq(Happened)
<1>1. PICK case \in Cases : ingest = Bundle(case, now)
  BY StageNames DEF AnalysisInv, BundleInv
<1>2. case.events \in Seq(Events)
  BY OrchestratorAssumption DEF IsCase
<1>3. ingest.events = case.events
  BY <1>1 DEF Bundle
<1>4. event_features = EventFeatures(case.events, 12 * now)
  BY <1>3 DEF AnalysisInv, FeaturesInv
<1>5. 12 * now \in Int
  BY OrchestratorAssumption DEF AnalysisInv
<1> QED
  BY <1>2, <1>4, <1>5, EventsTyped

(* Of the candidates there is a strongest, and of equally strong ones one   *)
(* with the greatest id.                                                    *)
LEMMA WinnerIsStrongest ==
  ASSUME NEW C, IsFiniteSet(C), C # {},
         \A c \in C : c.rule.id \in Int /\ c.effect.strength \in OrdinalLevels
  PROVE  /\ Winner(C) \in C
         /\ \A d \in C :
               \/ Rank[d.effect.strength] < Rank[Winner(C).effect.strength]
               \/ /\ d.effect.strength = Winner(C).effect.strength
                  /\ d.rule.id <= Winner(C).rule.id
<1> DEFINE ranks == {Rank[c.effect.strength] : c \in C}
<1>0. /\ \A l \in OrdinalLevels : Rank[l] \in Int
      /\ \A l, m \in OrdinalLevels : Rank[l] = Rank[m] => l = m
  BY DEF OrdinalLevels, Rank
<1>1. ranks \in SUBSET Int /\ IsFiniteSet(ranks) /\ ranks # {}
  <2>1. IsFiniteSet(ranks)
    <3> DEFINE f == [c \in C |-> Rank[c.effect.strength]]
    <3>1. ranks = {f[c] : c \in C}
      OBVIOUS
    <3> HIDE DEF f, ranks
    <3> QED
      BY <3>1, ImageFinite
  <2>2. ranks \in SUBSET Int /\ ranks # {}
    BY <1>0
  <2> QED
    BY <2>1, <2>2
<1>2. PICK r \in ranks : \A x \in ranks : x <= r
  <2> HIDE DEF ranks
  <2> QED
    BY <1>1, Largest
<1> DEFINE top == {c \in C : Rank[c.effect.strength] = r}
           ids == {c.rule.id : c \in top}
<1>3. ids \in SUBSET Int /\ IsFiniteSet(ids) /\ ids # {}
  <2>1. IsFiniteSet(top)
    BY FS_Subset
  <2>2. top # {}
    BY <1>2
  <2>3. IsFiniteSet(ids)
    <3> HIDE DEF top
    <3> DEFINE f == [c \in top |-> c.rule.id]
    <3>1. ids = {f[c] : c \in top}
      OBVIOUS
    <3> HIDE DEF f, ids
    <3> QED
      BY <2>1, <3>1, ImageFinite
  <2>4. ids \in SUBSET Int
    OBVIOUS
  <2> QED
    BY <2>2, <2>3, <2>4
<1>4. PICK m \in ids : \A x \in ids : x <= m
  <2> HIDE DEF ids
  <2> QED
    BY <1>3, Largest
<1>5. PICK w \in top : w.rule.id = m
  BY <1>4
<1>6. ASSUME NEW d \in C
      PROVE  \/ Rank[d.effect.strength] < Rank[w.effect.strength]
             \/ d.effect.strength = w.effect.strength /\ d.rule.id <= w.rule.id
  <2>1. Rank[d.effect.strength] <= r /\ Rank[d.effect.strength] \in Int /\ r \in Int
    BY <1>0, <1>1, <1>2
  <2>2. CASE Rank[d.effect.strength] = r
    <3>1. d \in top /\ d.rule.id \in ids
      BY <2>2
    <3>2. d.rule.id <= w.rule.id
      BY <1>4, <1>5, <3>1
    <3>3. d.effect.strength = w.effect.strength
      BY <1>0, <1>5, <2>2
    <3> QED
      BY <3>2, <3>3
  <2>3. CASE Rank[d.effect.strength] # r
    BY <1>5, <2>1, <2>3
  <2> QED
    BY <2>2, <2>3
<1>7. w \in C
  BY <1>5
<1> HIDE DEF top, ids, ranks
<1> QED
  BY <1>6, <1>7 DEF Winner

(* What a candidate is: a rule of the book that matches, and what the       *)
(* regime leaves of its effect on the asset.                                *)
LEMMA CandidatesSound ==
  ASSUME NEW a, NEW events, NEW regime
  PROVE  /\ IsFiniteSet(Candidates(a, events, regime))
         /\ \A c \in Candidates(a, events, regime) :
               /\ RuleMatches(c.rule, events)
               /\ a \in DOMAIN ResolvedEffects(c.rule, regime)
               /\ c.effect = ResolvedEffects(c.rule, regime)[a]
               /\ c.effect \in RuleEffects
               /\ c.rule.id \in Int /\ RuleOf(c.rule.id) = c.rule
<1>0. /\ Rulebook \in Seq(Range(Rulebook))
      /\ \A i, j \in DOMAIN Rulebook : Rulebook[i].id = Rulebook[j].id => i = j
  BY RulesAssumption DEF Loads
<1>1. ToSet(Rulebook) = Range(Rulebook)
  BY DEF ToSet, Range
<1>2. IsFiniteSet(ToSet(Rulebook))
  <2>1. DOMAIN Rulebook = 1..Len(Rulebook) /\ Len(Rulebook) \in Nat
    BY <1>0
  <2>2. IsFiniteSet(DOMAIN Rulebook)
    BY <2>1, FS_Interval
  <2> QED
    BY <2>2, ImageFinite DEF ToSet
<1>3. IsFiniteSet(Candidates(a, events, regime))
  <2> DEFINE S == {r \in ToSet(Rulebook) :
                     RuleMatches(r, events) /\ a \in DOMAIN ResolvedEffects(r, regime)}
  <2>1. IsFiniteSet(S)
    BY <1>2, FS_Subset
  <2>2. Candidates(a, events, regime) =
           {[rule |-> rule, effect |-> ResolvedEffects(rule, regime)[a]] : rule \in S}
    BY DEF Candidates
  <2> DEFINE f == [rule \in S |->
                     [rule |-> rule, effect |-> ResolvedEffects(rule, regime)[a]]]
  <2>3. Candidates(a, events, regime) = {f[rule] : rule \in S}
    BY <2>2
  <2> HIDE DEF S, f
  <2> QED
    BY <2>1, <2>3, ImageFinite
<1>4. ASSUME NEW c \in Candidates(a, events, regime)
      PROVE  /\ c.rule \in ToSet(Rulebook) /\ RuleMatches(c.rule, events)
             /\ c.rule.active
             /\ a \in DOMAIN ResolvedEffects(c.rule, regime)
             /\ c.effect = ResolvedEffects(c.rule, regime)[a]
  BY DEF Candidates, RuleMatches
<1>5. ASSUME NEW rule \in ToSet(Rulebook)
      PROVE  /\ rule.id \in Int /\ RuleOf(rule.id) = rule
             /\ \A x \in DOMAIN rule.effects : rule.effects[x] \in RuleEffects
             /\ rule.active /\ rule.guard # None => rule.guard.otherwise \in Policies
  <2>1. PICK i \in DOMAIN Rulebook : rule = Rulebook[i]
    BY DEF ToSet
  <2>2. \A other \in Range(Rulebook) : other.id = rule.id => other = rule
    BY <1>0, <2>1 DEF Range
  <2>3. RuleOf(rule.id) = rule
    BY <1>1, <2>2 DEF RuleOf
  <2> QED
    BY <2>1, <2>3, RulesAssumption, ReadableAssumption DEF Loads, Readable
<1>6. ASSUME NEW rule \in ToSet(Rulebook), rule.active,
             NEW x \in DOMAIN ResolvedEffects(rule, regime)
      PROVE  ResolvedEffects(rule, regime)[x] \in RuleEffects
  <2>1. CASE rule.guard = None \/ regime \in rule.guard.applies_in
    BY <1>5, <2>1 DEF ResolvedEffects
  <2>2. CASE ~(rule.guard = None \/ regime \in rule.guard.applies_in)
    <3>1. rule.guard.otherwise \in Policies
      BY <1>5, <1>6, <2>2
    <3>2. CASE rule.guard.otherwise = "suppress"
      BY <1>6, <2>2, <3>2 DEF ResolvedEffects
    <3>3. CASE rule.guard.otherwise = "downgrade_to_minor"
      <4>1. ResolvedEffects(rule, regime) =
               [y \in DOMAIN rule.effects |->
                  [rule.effects[y] EXCEPT !.strength = "minor", !.uncertain = TRUE]]
        BY <2>2, <3>3 DEF ResolvedEffects
      <4>2. rule.effects[x] \in RuleEffects /\ x \in DOMAIN rule.effects
        BY <1>5, <1>6, <4>1
      <4> QED
        BY <4>1, <4>2 DEF RuleEffects, OrdinalLevels
    <3>4. CASE rule.guard.otherwise = "flag_uncertain"
      <4>1. ResolvedEffects(rule, regime) =
               [y \in DOMAIN rule.effects |-> [rule.effects[y] EXCEPT !.uncertain = TRUE]]
        BY <2>2, <3>4 DEF ResolvedEffects
      <4>2. rule.effects[x] \in RuleEffects /\ x \in DOMAIN rule.effects
        BY <1>5, <1>6, <4>1
      <4> QED
        BY <4>1, <4>2 DEF RuleEffects
    <3> QED
      BY <3>1, <3>2, <3>3, <3>4 DEF Policies
  <2> QED
    BY <2>1, <2>2
<1> QED
  BY <1>3, <1>4, <1>5, <1>6

Facing(a) == Candidates(a, event_features, scoring.regime.state)

(* The activation of an asset is that of the strongest of its candidates.   *)
LEMMA ActivationOfWinner ==
  ASSUME AnalysisInv, stage \in PastRules
  PROVE  /\ DOMAIN activations = {a \in Assets : Facing(a) # {}}
         /\ conflicts = {a \in Assets : Facing(a) # {} /\ Conflict(Facing(a))}
         /\ \A a \in DOMAIN activations :
               /\ Winner(Facing(a)) \in Facing(a)
               /\ activations[a] = ToActivation(Facing(a), event_features)
               /\ activations[a].rule = Winner(Facing(a)).rule.id
               /\ activations[a].strength = Winner(Facing(a)).effect.strength
               /\ activations[a].direction =
                     IF Conflict(Facing(a)) THEN "neutral" ELSE Winner(Facing(a)).effect.direction
<1>1. /\ activations = Activations(Assets, event_features, scoring.regime.state)
      /\ conflicts = ConflictFlags(Assets, event_features, scoring.regime.state)
  BY DEF AnalysisInv, RulesInv
<1>2. activations = [a \in {b \in Assets : Facing(b) # {}} |-> ToActivation(Facing(a), event_features)]
  BY <1>1 DEF Activations, Facing
<1>3. conflicts = {a \in Assets : Facing(a) # {} /\ Conflict(Facing(a))}
  BY <1>1 DEF ConflictFlags, Facing
<1>4. ASSUME NEW a \in DOMAIN activations PROVE Winner(Facing(a)) \in Facing(a)
  <2>1. Facing(a) # {}
    BY <1>2
  <2>2. /\ IsFiniteSet(Facing(a))
        /\ \A c \in Facing(a) : c.rule.id \in Int /\ c.effect \in RuleEffects
    BY CandidatesSound DEF Facing
  <2>3. \A c \in Facing(a) : c.effect.strength \in OrdinalLevels
    BY <2>2 DEF RuleEffects
  <2> QED
    BY <2>1, <2>2, <2>3, WinnerIsStrongest
<1>5. ASSUME NEW a \in DOMAIN activations
      PROVE  /\ activations[a] = ToActivation(Facing(a), event_features)
             /\ activations[a].rule = Winner(Facing(a)).rule.id
             /\ activations[a].strength = Winner(Facing(a)).effect.strength
             /\ activations[a].direction =
                   IF Conflict(Facing(a)) THEN "neutral" ELSE Winner(Facing(a)).effect.direction
  <2>1. activations[a] = ToActivation(Facing(a), event_features)
    BY <1>2
  <2> QED
    BY <2>1 DEF ToActivation
<1> QED
  BY <1>2, <1>3, <1>4, <1>5

(* What a finished run shows of the rules.                                  *)
LEMMA PublishedRules ==
  ASSUME AnalysisInv, stage = "done", NEW a \in Assets
  PROVE  /\ stage \in PastRules /\ stage \in PastFeatures
         /\ run.regime.state = scoring.regime.state
         /\ a \notin DOMAIN activations =>
               run.assets[a].activated_rules = <<>> /\ run.assets[a].causal_links = <<>>
         /\ a \in DOMAIN activations =>
               /\ run.assets[a].activated_rules =
                     <<[rule |-> activations[a].rule, strength |-> activations[a].strength,
                        halvings |-> activations[a].halvings]>>
               /\ run.assets[a].causal_links =
                     IF activations[a].direction # "neutral" THEN <<CausalLink(activations[a])>>
                     ELSE <<>>
<1>1. stage \in PastRules /\ stage \in PastFeatures
  BY StageNames
<1>2. run.regime.state = scoring.regime.state
  BY RunDocument
<1>3. /\ run.assets[a].activated_rules = Plain(a).activated_rules
      /\ run.assets[a].causal_links = Plain(a).causal_links
  <2>1. run.assets[a] =
           [Plain(a) EXCEPT !.scores.sentiment = IF Told(a) THEN sentiment[a] ELSE None,
                            !.summary = narration # None /\ a \in narration]
    BY ComposedAssets
  <2> QED
    BY <2>1 DEF Plain, AssembleAsset
<1>4. CASE a \in DOMAIN activations
  <2>1. Acts(a) = <<activations[a]>> /\ DOMAIN <<activations[a]>> = {1}
    BY <1>4 DEF Acts
  <2>2. Plain(a).activated_rules =
           [i \in {1} |-> [rule |-> activations[a].rule, strength |-> activations[a].strength,
                           halvings |-> activations[a].halvings]]
    <3>1. Plain(a).activated_rules =
             [i \in {1} |-> [rule |-> Acts(a)[i].rule, strength |-> Acts(a)[i].strength,
                             halvings |-> Acts(a)[i].halvings]]
      <4>1. DOMAIN Acts(a) = {1}
        BY <2>1
      <4>2. Plain(a).activated_rules =
               [i \in DOMAIN Acts(a) |-> [rule |-> Acts(a)[i].rule, strength |-> Acts(a)[i].strength,
                                          halvings |-> Acts(a)[i].halvings]]
        BY PlainAsset
      <4> QED
        BY <4>1, <4>2
    <3>2. Acts(a)[1] = activations[a]
      BY <2>1
    <3> QED
      BY <3>1, <3>2
  <2>3. Plain(a).activated_rules =
           <<[rule |-> activations[a].rule, strength |-> activations[a].strength,
              halvings |-> activations[a].halvings]>>
    BY <2>2
  <2> QED
    BY <1>1, <1>2, <1>3, <1>4, <2>3, PlainAsset
<1>5. CASE a \notin DOMAIN activations
  <2>1. Acts(a) = <<>> /\ DOMAIN <<>> = {}
    BY <1>5 DEF Acts
  <2>2. Plain(a).activated_rules = <<>>
    <3>1. Plain(a).activated_rules =
             [i \in {} |-> [rule |-> Acts(a)[i].rule, strength |-> Acts(a)[i].strength,
                            halvings |-> Acts(a)[i].halvings]]
      BY <2>1, PlainAsset
    <3> QED
      BY <3>1
  <2> QED
    BY <1>1, <1>2, <1>3, <1>5, <2>2, PlainAsset
<1> QED
  BY <1>4, <1>5

(* In a run with a material event no activation comes of a rule at full     *)
(* strength whose guard leaves event_driven out (rules/matcher.py:44).      *)
LEMMA GuardedRulesWaitHere == AnalysisInv => GuardedRulesWait
<1> SUFFICES ASSUME AnalysisInv, stage = "done", MaterialEvents(event_features) # {},
                    NEW a \in Assets, NEW act \in Range(run.assets[a].activated_rules),
                    RuleOf(act.rule).guard # None,
                    "event_driven" \notin RuleOf(act.rule).guard.applies_in
             PROVE  CASE RuleOf(act.rule).guard.otherwise = "suppress" -> FALSE
                      [] RuleOf(act.rule).guard.otherwise = "downgrade_to_minor" ->
                            act.strength = "minor"
                      [] OTHER -> TRUE
  BY DEF GuardedRulesWait
<1>1. stage \in PastRules /\ stage \in PastScore
  BY StageNames
<1>2. scoring.regime.state = "event_driven"
  BY <1>1 DEF AnalysisInv, ScoresInv, Score, Classify
<1>3. a \in DOMAIN activations
  <2>1. Range(<<>>) = {} /\ run.assets[a].activated_rules # <<>>
    BY DEF Range
  <2> QED
    BY <2>1, PublishedRules
<1>4. act.rule = activations[a].rule /\ act.strength = activations[a].strength
  <2>1. run.assets[a].activated_rules =
           <<[rule |-> activations[a].rule, strength |-> activations[a].strength,
              halvings |-> activations[a].halvings]>>
    BY <1>3, PublishedRules
  <2> QED
    BY <2>1 DEF Range
<1>5. PICK w : w = Winner(Facing(a))
  OBVIOUS
<1>6. w \in Facing(a) /\ act.rule = w.rule.id /\ act.strength = w.effect.strength
  BY <1>1, <1>3, <1>4, <1>5, ActivationOfWinner
<1>7. /\ a \in DOMAIN ResolvedEffects(w.rule, "event_driven")
      /\ w.effect = ResolvedEffects(w.rule, "event_driven")[a]
      /\ RuleOf(act.rule) = w.rule
  BY <1>2, <1>6, CandidatesSound DEF Facing
<1>8. w.rule.guard # None /\ "event_driven" \notin w.rule.guard.applies_in
  BY <1>7
<1>9. CASE w.rule.guard.otherwise = "suppress"
  <2>1. ResolvedEffects(w.rule, "event_driven") = <<>>
    BY <1>8, <1>9 DEF ResolvedEffects
  <2> QED
    BY <1>7, <2>1
<1>10. CASE w.rule.guard.otherwise = "downgrade_to_minor"
  <2>1. ResolvedEffects(w.rule, "event_driven") =
           [y \in DOMAIN w.rule.effects |->
              [w.rule.effects[y] EXCEPT !.strength = "minor", !.uncertain = TRUE]]
    BY <1>8, <1>10 DEF ResolvedEffects
  <2>2. w.effect \in RuleEffects
    BY <1>6, CandidatesSound DEF Facing
  <2>3. w.effect = [w.rule.effects[a] EXCEPT !.strength = "minor", !.uncertain = TRUE]
    BY <1>7, <2>1
  <2>4. w.effect.strength = "minor"
    BY <2>2, <2>3 DEF RuleEffects
  <2> QED
    BY <1>6, <1>7, <1>10, <2>4
<1> QED
  BY <1>7, <1>9, <1>10

(* See GuardedRulesWait in OrchestratorProperties.                          *)
THEOREM RulesWaitForTheirRegime == Spec => []GuardedRulesWait
<1>1. AnalysisInv => GuardedRulesWait
  BY GuardedRulesWaitHere
<1> QED
  BY <1>1, AnalysisInvariant, PTL

LEMMA EventNamedHere == AnalysisInv => ActivationsNameTheirEvent
<1> SUFFICES ASSUME AnalysisInv, stage = "done", NEW a \in Assets,
                    NEW link \in Range(run.assets[a].causal_links),
                    RuleOf(link.via_rule).type = RuleOf(link.via_rule).var
             PROVE  \E i \in DOMAIN event_features :
                       /\ event_features[i].id = link.from
                       /\ EvaluateCondition(RuleOf(link.via_rule), event_features[i].surprise)
  BY DEF ActivationsNameTheirEvent
<1>1. stage \in PastRules /\ stage \in PastFeatures
  BY StageNames
<1>2. a \in DOMAIN activations
  <2>1. Range(<<>>) = {} /\ run.assets[a].causal_links # <<>>
    BY DEF Range
  <2> QED
    BY <2>1, PublishedRules
<1>3. link = CausalLink(activations[a])
  <2>1. run.assets[a].causal_links =
           IF activations[a].direction # "neutral" THEN <<CausalLink(activations[a])>> ELSE <<>>
    BY <1>2, PublishedRules
  <2> QED
    BY <2>1 DEF Range
<1>4. PICK w : w = Winner(Facing(a))
  OBVIOUS
<1>5. /\ w \in Facing(a) /\ activations[a].rule = w.rule.id
      /\ activations[a] = ToActivation(Facing(a), event_features)
  BY <1>1, <1>2, <1>4, ActivationOfWinner
<1>6. RuleMatches(w.rule, event_features) /\ RuleOf(w.rule.id) = w.rule
  BY <1>5, CandidatesSound DEF Facing
<1>7. link.via_rule = w.rule.id /\ RuleOf(link.via_rule) = w.rule
  BY <1>3, <1>5, <1>6 DEF CausalLink
<1>8. w.rule.type = w.rule.var
  BY <1>7
<1> DEFINE those == {i \in DOMAIN event_features : event_features[i].type = w.rule.type}
<1>9. /\ w.rule.type \in Types(event_features)
      /\ EvaluateCondition(w.rule, LastOf(event_features, w.rule.type).surprise)
  BY <1>6, <1>8 DEF RuleMatches, BuildConditionVars
<1>10. event_features \in Seq(Happened)
  BY <1>1, RunEvents
<1>11. Max(those) \in those
  <2>1. PICK n \in Nat : n = Len(event_features) /\ DOMAIN event_features = 1..n
    BY <1>10
  <2>2. IsFiniteSet(1..n) /\ those \subseteq 1..n
    BY <2>1, FS_Interval
  <2>3. IsFiniteSet(those) /\ those \in SUBSET Int
    BY <2>2, FS_Subset
  <2>4. those # {}
    BY <1>9 DEF Types
  <2> HIDE DEF those
  <2> QED
    BY <2>3, <2>4, MaxIsLargest
<1>12. LastOf(event_features, w.rule.type) = event_features[Max(those)]
  BY DEF LastOf
<1>13. link.from = LastOf(event_features, w.rule.type).id
  <2>1. activations[a].event = EventByType(event_features)[w.rule.type].id
    BY <1>4, <1>5, <1>9 DEF ToActivation
  <2>2. EventByType(event_features)[w.rule.type] = LastOf(event_features, w.rule.type)
    BY <1>9 DEF EventByType
  <2>3. LastOf(event_features, w.rule.type).id \in Int
    <3>1. Max(those) \in DOMAIN event_features
      BY <1>11
    <3> HIDE DEF those
    <3>2. event_features[Max(those)] \in Happened
      BY <1>10, <3>1
    <3> QED
      BY <1>12, <3>2 DEF Happened
  <2> QED
    BY <1>3, <2>1, <2>2, <2>3, CoreDataAssumption DEF CausalLink
<1> QED
  BY <1>7, <1>9, <1>11, <1>12, <1>13

(* See ActivationsNameTheirEvent in OrchestratorProperties.                 *)
THEOREM LinksNameTheEventOfTheirRule == Spec => []ActivationsNameTheirEvent
<1>1. AnalysisInv => ActivationsNameTheirEvent
  BY EventNamedHere
<1> QED
  BY <1>1, AnalysisInvariant, PTL

-----------------------------------------------------------------------------
(* Features are numbers in their ranges, or missing.                        *)

LEMMA AveragesNumbers ==
  ASSUME NEW s \in Seq(Int), NEW period \in Nat \ {0}, NEW weight \in Nat \ {0},
         period <= Len(s)
  PROVE  /\ Averages(s, period, weight) \in Seq(Int)
         /\ Len(Averages(s, period, weight)) = Len(s) - period + 1
         /\ (\A i \in 1..Len(s) : s[i] >= 0) =>
               \A i \in 1..Len(Averages(s, period, weight)) : Averages(s, period, weight)[i] >= 0
<1>1. PICK n \in Nat : n = Len(s) /\ DOMAIN s = 1..n /\ period <= n
  OBVIOUS
<1>2. PICK first : first = Total(SubSeq(s, 1, period)) \div period
  OBVIOUS
<1>3. first \in Int /\ ((\A i \in 1..n : s[i] >= 0) => first >= 0)
  <2>1. \A i \in 1..period : s[i] \in Int
    BY <1>1
  <2>2. /\ SubSeq(s, 1, period) \in Seq(Int) /\ Len(SubSeq(s, 1, period)) = period
        /\ \A i \in 1..period : SubSeq(s, 1, period)[i] = s[i]
    BY <2>1, SubSeqProperties
  <2>3. Total(SubSeq(s, 1, period)) \in Int
    BY <2>2, TotalInt
  <2>4. ASSUME \A i \in 1..n : s[i] >= 0 PROVE Total(SubSeq(s, 1, period)) >= 0
    <3>1. SubSeq(s, 1, period) \in Seq(Nat)
      <4>1. \A i \in 1..period : s[i] \in Nat
        BY <1>1, <2>1, <2>4
      <4> QED
        BY <4>1, SubSeqProperties
    <3>2. Total(SubSeq(s, 1, period)) \in Nat
      BY <3>1, TotalNat
    <3> QED
      BY <3>2
  <2>5. first \in Int
    BY <1>2, <2>3, Division
  <2>6. ASSUME Total(SubSeq(s, 1, period)) >= 0 PROVE first >= 0
    <3>1. 0 * period <= Total(SubSeq(s, 1, period))
      BY <2>3, <2>6
    <3>2. 0 <= Total(SubSeq(s, 1, period)) \div period
      BY <2>3, <3>1, Division
    <3> QED
      BY <1>2, <2>5, <3>2
  <2> QED
    BY <2>4, <2>5, <2>6
<1>4. ASSUME NEW m \in Int, NEW v \in Int
      PROVE  /\ Smooth(m, v, period, weight) \in Int
             /\ m >= 0 /\ v >= 0 => Smooth(m, v, period, weight) >= 0
  <2>1. period - 1 + weight \in Nat \ {0} /\ weight * v + (period - 1) * m \in Int
    OBVIOUS
  <2>2. m >= 0 /\ v >= 0 => weight * v + (period - 1) * m >= 0
    <3>1. v >= 0 => weight * v >= 0
      OBVIOUS
    <3>2. m >= 0 => (period - 1) * m >= 0
      OBVIOUS
    <3>3. weight * v \in Int /\ (period - 1) * m \in Int
      OBVIOUS
    <3> QED
      BY <3>1, <3>2, <3>3
  <2>3. PICK d \in Nat \ {0} : d = period - 1 + weight
    BY <2>1
  <2>4. PICK e \in Int : e = weight * v + (period - 1) * m
    BY <2>1
  <2>5. e \div d \in Int /\ (e >= 0 => e \div d >= 0)
    <3>1. e >= 0 => 0 * d <= e
      OBVIOUS
    <3> QED
      BY <3>1, Division
  <2> QED
    BY <2>2, <2>3, <2>4, <2>5 DEF Smooth
<1> DEFINE Means(g) == g = [i \in period..n |-> IF i = period THEN first
                                                ELSE Smooth(g[i - 1], s[i], period, weight)]
<1>5. \E g : Means(g)
  <2> DEFINE I == (period + 1)..n
             F == [i \in I |-> [v \in Int |-> Smooth(v, s[i], period, weight)]]
  <2>1. F \in [I -> [Int -> Int]]
    <3>1. ASSUME NEW i \in I, NEW v \in Int PROVE Smooth(v, s[i], period, weight) \in Int
      <4>1. s[i] \in Int
        BY <1>1
      <4> QED
        BY <1>4, <4>1
    <3> QED
      BY <3>1
  <2>2. ASSUME NEW v \in Int, NEW i \in (period + 1)..n
        PROVE  F[i][v] = Smooth(v, s[i], period, weight)
    OBVIOUS
  <2> HIDE DEF F
  <2>3. PICK g \in [period..n -> Int] : Follows(g, period, n, first, F)
    <3>1. period \in Int /\ n \in Int /\ period <= n /\ first \in Int
      BY <1>1, <1>3
    <3> QED
      BY <2>1, <3>1, RecursionExists
  <2>4. ASSUME NEW i \in period..n
        PROVE  g[i] = IF i = period THEN first ELSE Smooth(g[i - 1], s[i], period, weight)
    <3>1. CASE i = period
      BY <2>3, <3>1 DEF Follows
    <3>2. CASE i # period
      <4>1. i \in (period + 1)..n /\ g[i - 1] \in Int
        BY <3>2
      <4> QED
        BY <2>2, <2>3, <3>2, <4>1 DEF Follows
    <3> QED
      BY <3>1, <3>2
  <2>5. g = [i \in period..n |-> g[i]]
    OBVIOUS
  <2> QED
    BY <2>4, <2>5
<1>6. PICK g : Means(g) /\ Averages(s, period, weight) = [i \in 1..(n - period + 1) |-> g[i + period - 1]]
  <2>1. Averages(s, period, weight) =
           [i \in 1..(n - period + 1) |-> (CHOOSE g : Means(g))[i + period - 1]]
    BY <1>1, <1>2 DEF Averages
  <2>2. PICK g : g = CHOOSE h : Means(h)
    OBVIOUS
  <2> HIDE DEF Means
  <2>3. Means(g)
    BY <1>5, <2>2
  <2> QED
    BY <2>1, <2>2, <2>3
<1> DEFINE P == {i \in period..n : g[i] \in Int /\ ((\A j \in 1..n : s[j] >= 0) => g[i] >= 0)}
<1>7. period \in P
  BY <1>1, <1>3, <1>6
<1>8. ASSUME NEW i \in (period + 1)..n, i - 1 \in P PROVE i \in P
  <2>1. g[i] = Smooth(g[i - 1], s[i], period, weight)
    BY <1>6
  <2>2. s[i] \in Int /\ i \in 1..n /\ i \in period..n
    BY <1>1
  <2>3. g[i - 1] \in Int /\ ((\A j \in 1..n : s[j] >= 0) => g[i - 1] >= 0)
    BY <1>8
  <2>4. g[i] \in Int /\ (g[i - 1] >= 0 /\ s[i] >= 0 => g[i] >= 0)
    BY <1>4, <2>1, <2>2, <2>3
  <2>5. (\A j \in 1..n : s[j] >= 0) => g[i] >= 0
    BY <2>2, <2>3, <2>4
  <2> QED
    BY <2>2, <2>4, <2>5
<1>9. \A i \in period..n : i \in P
  <2> HIDE DEF P
  <2>1. period \in Int /\ n \in Int
    BY <1>1
  <2> QED
    BY <1>7, <1>8, <2>1, Climb
<1>10. \A i \in 1..(n - period + 1) : i + period - 1 \in period..n
  OBVIOUS
<1>11. PICK a : a = Averages(s, period, weight)
  OBVIOUS
<1>12. a = [i \in 1..(n - period + 1) |-> g[i + period - 1]]
  BY <1>6, <1>11
<1>13. /\ a \in [1..(n - period + 1) -> Int]
       /\ (\A j \in 1..n : s[j] >= 0) => \A i \in 1..(n - period + 1) : a[i] >= 0
  BY <1>9, <1>10, <1>12
<1>14. a \in Seq(Int) /\ Len(a) = n - period + 1
  <2>1. n - period + 1 \in Nat
    BY <1>1
  <2>2. PICK k \in Nat : k = n - period + 1
    BY <2>1
  <2>3. a \in [1..k -> Int]
    BY <1>13, <2>2
  <2> QED
    BY <2>2, <2>3
<1> QED
  BY <1>1, <1>11, <1>13, <1>14

LEMMA WilderNumber ==
  ASSUME NEW s \in Seq(Nat), NEW period \in Nat \ {0}, period <= Len(s)
  PROVE  Wilder(Scaled(s), period) \in Nat
<1>1. PICK n \in Nat : n = Len(s) /\ DOMAIN s = 1..n
  OBVIOUS
<1>2. PICK t : t = Scaled(s)
  OBVIOUS
<1>3. t = [i \in 1..n |-> s[i] * Precision] /\ Precision \in Nat
  BY <1>1, <1>2, MarketFeaturesAssumption DEF Scaled
<1>4. \A i \in 1..n : s[i] * Precision \in Nat
  BY <1>1, <1>3
<1>5. t \in Seq(Int) /\ Len(t) = n /\ \A i \in 1..n : t[i] >= 0
  BY <1>3, <1>4
<1>6. PICK a : a = Averages(t, period, 1)
  OBVIOUS
<1>7. /\ a \in Seq(Int) /\ Len(a) = n - period + 1
      /\ \A i \in 1..Len(a) : a[i] >= 0
  <2>1. 1 \in Nat \ {0} /\ period <= Len(t)
    BY <1>1, <1>5
  <2>2. /\ Averages(t, period, 1) \in Seq(Int)
        /\ Len(Averages(t, period, 1)) = Len(t) - period + 1
        /\ (\A i \in 1..Len(t) : t[i] >= 0) =>
              \A i \in 1..Len(Averages(t, period, 1)) : Averages(t, period, 1)[i] >= 0
    BY <1>5, <2>1, AveragesNumbers
  <2> QED
    BY <1>5, <1>6, <2>2
<1>8. Len(a) \in 1..Len(a)
  BY <1>1, <1>7
<1>9. a[Len(a)] \in Int /\ a[Len(a)] >= 0
  BY <1>7, <1>8
<1> QED
  BY <1>2, <1>6, <1>9 DEF Wilder, Last

LEMMA RsiBetween ==
  ASSUME NEW closes \in Seq(Nat)
  PROVE  Rsi(closes) \in Optional(RsiRange)
<1> DEFINE Moves(sign) == [i \in 1..(Len(closes) - 1) |->
                              Max({0, sign * (closes[i + 1] - closes[i])})]
           gain == Wilder(Scaled(Moves(1)), RsiPeriod)
           loss == Wilder(Scaled(Moves(-1)), RsiPeriod)
<1>1. CASE Len(closes) < RsiPeriod + 1
  BY <1>1 DEF Rsi, Optional
<1>2. CASE ~(Len(closes) < RsiPeriod + 1)
  <2>1. PICK n \in Nat : n = Len(closes) /\ DOMAIN closes = 1..n
    OBVIOUS
  <2>2. RsiPeriod \in Nat \ {0} /\ n - 1 \in Nat /\ RsiPeriod <= n - 1
    BY <1>2, <2>1, MarketFeaturesAssumption
  <2>3. ASSUME NEW sign \in {-1, 1}
        PROVE  Moves(sign) \in Seq(Nat) /\ Len(Moves(sign)) = n - 1
    <3>1. ASSUME NEW i \in 1..(n - 1) PROVE Max({0, sign * (closes[i + 1] - closes[i])}) \in Nat
      <4>1. closes[i + 1] \in Nat /\ closes[i] \in Nat
        BY <2>1
      <4>2. sign * (closes[i + 1] - closes[i]) \in Int
        BY <4>1
      <4>3. PICK y \in Int : y = sign * (closes[i + 1] - closes[i])
        BY <4>2
      <4>4. Max({0, y}) \in Nat
        <5>1. Max({0, y}) = IF 0 >= y THEN 0 ELSE y
          BY MaxOfTwo
        <5> QED
          BY <5>1
      <4> QED
        BY <4>3, <4>4
    <3>2. Moves(sign) = [i \in 1..(n - 1) |-> Max({0, sign * (closes[i + 1] - closes[i])})]
      BY <2>1
    <3>3. PICK m : m = Moves(sign)
      OBVIOUS
    <3>4. m \in [1..(n - 1) -> Nat]
      BY <3>1, <3>2, <3>3
    <3>5. m \in Seq(Nat) /\ Len(m) = n - 1
      <4>1. PICK k \in Nat : k = n - 1
        BY <2>2
      <4>2. m \in [1..k -> Nat]
        BY <3>4, <4>1
      <4> QED
        BY <4>1, <4>2
    <3> QED
      BY <3>3, <3>5
  <2>4. gain \in Nat /\ loss \in Nat
    <3>1. /\ Moves(1) \in Seq(Nat) /\ RsiPeriod <= Len(Moves(1))
          /\ Moves(-1) \in Seq(Nat) /\ RsiPeriod <= Len(Moves(-1))
      BY <2>2, <2>3
    <3> HIDE DEF Moves
    <3> QED
      BY <2>2, <3>1, WilderNumber
  <2>5. Rsi(closes) = IF loss = 0 THEN 10000 ELSE ((1000 * gain) \div (gain + loss)) * 10
    BY <1>2 DEF Rsi
  <2> HIDE DEF gain, loss
  <2>6. CASE loss = 0
    BY <2>5, <2>6 DEF Optional, RsiRange
  <2>7. CASE loss # 0
    <3>1. PICK b \in Nat \ {0} : b = gain + loss
      BY <2>4, <2>7
    <3>2. PICK e \in Nat : e = 1000 * gain
      BY <2>4
    <3>3. 0 * b <= e /\ e <= 1000 * b
      BY <2>4, <3>1, <3>2
    <3>4. e \div b \in Int /\ 0 <= e \div b /\ e \div b <= 1000
      BY <3>3, Division
    <3>5. Rsi(closes) = (e \div b) * 10
      BY <2>5, <2>7, <3>1, <3>2
    <3> QED
      BY <3>4, <3>5 DEF Optional, RsiRange
  <2> QED
    BY <2>6, <2>7
<1> QED
  BY <1>1, <1>2

LEMMA AtrNumber ==
  ASSUME NEW series, IsSeries(series)
  PROVE  AtrPct(series) \in Optional(Nat)
<1> DEFINE n == Len(series.closes)
           Range3(i) == LET h == series.highs[i + 1]
                            l == series.lows[i + 1]
                            c == series.closes[i]
                        IN  Max({h - l, Absolute(h - c), Absolute(l - c)})
           ranges == [i \in 1..(n - 1) |-> Range3(i)]
           atr == Wilder(Scaled(ranges), AtrPeriod)
<1>1. CASE n < AtrPeriod + 1 \/ {Len(series.highs), Len(series.lows)} # {n}
  BY <1>1 DEF AtrPct, Optional
<1>2. CASE ~(n < AtrPeriod + 1 \/ {Len(series.highs), Len(series.lows)} # {n})
  <2>1. /\ series.closes \in Seq(Nat \ {0}) /\ series.highs \in Seq(Nat)
        /\ series.lows \in Seq(Nat)
    BY DEF IsSeries
  <2>2. /\ n \in Nat /\ AtrPeriod \in Nat \ {0} /\ AtrPeriod <= n - 1 /\ n - 1 \in Nat
        /\ Len(series.highs) = n /\ Len(series.lows) = n
    <3>1. n \in Nat /\ AtrPeriod \in Nat \ {0} /\ ~(n < AtrPeriod + 1)
      BY <1>2, <2>1, MarketFeaturesAssumption
    <3>2. Len(series.highs) = n /\ Len(series.lows) = n
      BY <1>2
    <3> QED
      BY <3>1, <3>2
  <2>3. ASSUME NEW i \in 1..(n - 1) PROVE Range3(i) \in Nat
    <3>1. PICK h \in Int, l \in Int, c \in Int :
             h = series.highs[i + 1] /\ l = series.lows[i + 1] /\ c = series.closes[i]
      <4>0. PICK k \in Nat : k = n /\ i \in 1..(k - 1)
        BY <2>2
      <4>1. i + 1 \in 1..k /\ i \in 1..k
        BY <4>0
      <4>2. series.highs[i + 1] \in Nat
        <5>1. PICK s \in Seq(Nat) : s = series.highs /\ Len(s) = k
          BY <2>1, <2>2, <4>0
        <5> QED
          BY <4>1, <5>1
      <4>3. series.lows[i + 1] \in Nat
        <5>1. PICK s \in Seq(Nat) : s = series.lows /\ Len(s) = k
          BY <2>1, <2>2, <4>0
        <5> QED
          BY <4>1, <5>1
      <4>4. series.closes[i] \in Nat
        BY <2>1, <4>0, <4>1
      <4> QED
        BY <4>2, <4>3, <4>4
    <3>2. PICK x \in Int, y \in Nat, z \in Nat :
             x = h - l /\ y = Absolute(h - c) /\ z = Absolute(l - c)
      <4>1. h - l \in Int /\ Absolute(h - c) \in Nat /\ Absolute(l - c) \in Nat
        BY DEF Absolute
      <4> QED
        BY <4>1
    <3>3. {x, y, z} \in SUBSET Int /\ IsFiniteSet({x, y, z}) /\ {x, y, z} # {}
      <4>1. IsFiniteSet({} \cup {x})
        BY FS_EmptySet, FS_AddElement
      <4>2. IsFiniteSet(({} \cup {x}) \cup {y})
        BY <4>1, FS_AddElement
      <4>3. IsFiniteSet((({} \cup {x}) \cup {y}) \cup {z})
        BY <4>2, FS_AddElement
      <4>4. {x, y, z} = (({} \cup {x}) \cup {y}) \cup {z}
        OBVIOUS
      <4>5. IsFiniteSet({x, y, z})
        BY <4>3, <4>4
      <4>6. {x, y, z} \in SUBSET Int /\ {x, y, z} # {}
        OBVIOUS
      <4> QED
        BY <4>5, <4>6
    <3>4. Max({x, y, z}) \in {x, y, z} /\ y <= Max({x, y, z})
      BY <3>3, MaxIsLargest
    <3>5. PICK m : m = Max({x, y, z})
      OBVIOUS
    <3>6. m \in Int /\ y <= m
      BY <3>4, <3>5
    <3>7. Range3(i) = m
      BY <3>1, <3>2, <3>5
    <3> QED
      BY <3>6, <3>7
  <2>4. ranges \in Seq(Nat) /\ Len(ranges) = n - 1
    <3> HIDE DEF Range3
    <3>1. PICK k \in Nat : k = n - 1
      BY <2>2
    <3>2. ranges \in [1..k -> Nat]
      BY <2>3, <3>1
    <3> QED
      BY <3>1, <3>2
  <2>5. atr \in Nat
    <3> HIDE DEF ranges
    <3> QED
      BY <2>2, <2>4, WilderNumber
  <2>6. AtrPct(series) = (atr * 10000) \div (Last(series.closes) * Precision)
    BY <1>2 DEF AtrPct
  <2> HIDE DEF atr
  <2>7. PICK b \in Nat \ {0} : b = Last(series.closes) * Precision
    <3>1. PICK c \in Nat \ {0} : c = Last(series.closes)
      <4>1. n \in 1..n
        BY <2>2
      <4> QED
        BY <2>1, <4>1 DEF Last
    <3>2. Precision \in Nat \ {0}
      BY MarketFeaturesAssumption
    <3>3. c * Precision \in Nat \ {0}
      BY <3>2
    <3> QED
      BY <3>1, <3>3
  <2>8. PICK e \in Nat : e = atr * 10000
    BY <2>5
  <2>9. 0 * b <= e
    OBVIOUS
  <2>10. e \div b \in Int /\ 0 <= e \div b
    BY <2>9, Division
  <2>11. AtrPct(series) = e \div b
    BY <2>6, <2>7, <2>8
  <2> QED
    BY <2>10, <2>11 DEF Optional
<1> QED
  BY <1>1, <1>2

LEMMA VolumeNumber ==
  ASSUME NEW volumes \in Seq(Nat)
  PROVE  VolumeRatio(volumes) \in Optional(Nat)
<1> DEFINE window == Total(SubSeq(volumes, Len(volumes) - VolumePeriod, Len(volumes) - 1))
<1>1. CASE Len(volumes) < VolumePeriod + 1 \/ window = 0
  BY <1>1 DEF VolumeRatio, Optional
<1>2. CASE ~(Len(volumes) < VolumePeriod + 1) /\ window # 0
  <2>1. PICK n \in Nat : n = Len(volumes) /\ DOMAIN volumes = 1..n
    OBVIOUS
  <2>2. VolumePeriod \in Nat \ {0} /\ n - VolumePeriod \in 1..n /\ n \in 1..n
    BY <1>2, <2>1, MarketFeaturesAssumption
  <2>3. \A i \in (n - VolumePeriod)..(n - 1) : volumes[i] \in Nat
    BY <2>1, <2>2
  <2>4. SubSeq(volumes, n - VolumePeriod, n - 1) \in Seq(Nat)
    <3>1. n - VolumePeriod \in Int /\ n - 1 \in Int
      BY <2>2
    <3> QED
      BY <2>3, <3>1, SubSeqProperties
  <2>5. window \in Nat \ {0}
    BY <1>2, <2>1, <2>4, TotalNat
  <2>6. VolumeRatio(volumes) = (1000 * VolumePeriod * volumes[n]) \div window
    BY <1>2, <2>1 DEF VolumeRatio
  <2> HIDE DEF window
  <2>7. PICK e \in Nat : e = 1000 * VolumePeriod * volumes[n]
    <3>1. volumes[n] \in Nat
      BY <2>1, <2>2
    <3> QED
      BY <2>2, <3>1
  <2>8. PICK w \in Nat \ {0} : w = window
    BY <2>5
  <2>9. 0 * w <= e
    OBVIOUS
  <2>10. e \div w \in Int /\ 0 <= e \div w
    BY <2>9, Division
  <2> QED
    BY <2>6, <2>7, <2>8, <2>10 DEF Optional
<1> QED
  BY <1>1, <1>2

LEMMA StatesNamed ==
  ASSUME NEW closes
  PROVE  MacdState(closes) \in Optional(MacdStates) /\ EmaState(closes) \in Optional(EmaStates)
<1>1. MacdState(closes) \in Optional(MacdStates)
  BY DEF MacdState, MacdStates, Optional
<1>2. EmaState(closes) \in Optional(EmaStates)
  BY DEF EmaState, EmaStates, Optional
<1> QED
  BY <1>1, <1>2

LEMMA ChangesNumbers ==
  ASSUME NEW series, IsSeries(series)
  PROVE  Changes(series) \in [Horizons -> Optional(Int)]
<1>1. CASE series.changes # None
  BY <1>1 DEF Changes, IsSeries
<1>2. CASE series.changes = None
  <2>1. ASSUME NEW h \in Horizons
        PROVE  HorizonChange(series.closes, Bars[h]) \in Optional(Int)
    <3>1. PICK s \in Seq(Nat \ {0}) : s = series.closes
      BY DEF IsSeries
    <3>2. PICK b \in Nat \ {0} : b = Bars[h]
      BY MarketFeaturesAssumption
    <3>3. CASE Len(s) <= b
      BY <3>1, <3>2, <3>3 DEF HorizonChange, Optional
    <3>4. CASE ~(Len(s) <= b)
      <4>1. PICK n \in Nat : n = Len(s) /\ DOMAIN s = 1..n
        OBVIOUS
      <4>2. n \in 1..n /\ n - b \in 1..n
        BY <3>4, <4>1
      <4>3. PICK last \in Nat \ {0}, then \in Nat \ {0} : last = s[n] /\ then = s[n - b]
        BY <4>1, <4>2
      <4>4. PctChange(last, then) \in Int
        <5>1. (last - then) * 10000 \in Int
          OBVIOUS
        <5> QED
          BY <5>1, Division DEF PctChange
      <4>5. HorizonChange(series.closes, Bars[h]) = PctChange(last, then)
        BY <3>1, <3>2, <3>4, <4>1, <4>3 DEF HorizonChange, Last, Back
      <4> QED
        BY <4>4, <4>5 DEF Optional
    <3> QED
      BY <3>3, <3>4
  <2>2. Changes(series) = [h \in Horizons |-> HorizonChange(series.closes, Bars[h])]
    BY <1>2 DEF Changes
  <2> QED
    BY <2>1, <2>2
<1> QED
  BY <1>1, <1>2

IsFeatures(f) ==
    /\ DOMAIN f = {"rsi", "macd", "ema", "atr", "volume", "changes"}
    /\ f.rsi \in Optional(RsiRange)
    /\ f.macd \in Optional(MacdStates)
    /\ f.ema \in Optional(EmaStates)
    /\ f.atr \in Optional(Nat)
    /\ f.volume \in Optional(Nat)
    /\ f.changes \in [Horizons -> Optional(Int)]

(* The features of an asset are each a value in its range, or missing.      *)
LEMMA FeaturesInRange ==
  ASSUME NEW class, NEW series, series # None => IsSeries(series)
  PROVE  IsFeatures(AssetFeatures(class, series))
<1>1. CASE series = None
  <2>1. AssetFeatures(class, series) = NoFeatures
    BY <1>1 DEF AssetFeatures
  <2>2. IsFeatures(NoFeatures)
    BY DEF IsFeatures, NoFeatures, Optional
  <2> QED
    BY <2>1, <2>2
<1>2. CASE series # None
  <2>1. /\ series.closes \in Seq(Nat) /\ series.volumes \in Seq(Nat)
        /\ IsSeries(series)
    <3>1. IsSeries(series)
      BY <1>2
    <3>2. series.closes \in Seq(Nat \ {0})
      BY <3>1 DEF IsSeries
    <3>3. series.closes \in Seq(Nat)
      BY <3>2
    <3>4. series.volumes \in Seq(Nat)
      BY <3>1 DEF IsSeries
    <3> QED
      BY <3>1, <3>3, <3>4
  <2>2. None \in Optional(RsiRange) /\ None \in Optional(MacdStates)
        /\ None \in Optional(EmaStates) /\ None \in Optional(Nat)
    BY DEF Optional
  <2>3. PICK f : f = AssetFeatures(class, series)
    OBVIOUS
  <2>4. f = [rsi |-> IF class # "index" THEN Rsi(series.closes) ELSE None,
             macd |-> IF class # "index" THEN MacdState(series.closes) ELSE None,
             ema |-> IF class # "index" THEN EmaState(series.closes) ELSE None,
             atr |-> AtrPct(series),
             volume |-> IF class # "index" THEN VolumeRatio(series.volumes) ELSE None,
             changes |-> Changes(series)]
    BY <1>2, <2>3 DEF AssetFeatures
  <2>5. f.rsi \in Optional(RsiRange) /\ f.macd \in Optional(MacdStates)
        /\ f.ema \in Optional(EmaStates)
    BY <2>1, <2>2, <2>4, RsiBetween, StatesNamed
  <2>6. f.atr \in Optional(Nat) /\ f.volume \in Optional(Nat)
    BY <2>1, <2>2, <2>4, AtrNumber, VolumeNumber
  <2>7. f.changes \in [Horizons -> Optional(Int)]
    BY <2>1, <2>4, ChangesNumbers
  <2>8. DOMAIN f = {"rsi", "macd", "ema", "atr", "volume", "changes"}
    BY <2>4
  <2> QED
    BY <2>3, <2>5, <2>6, <2>7, <2>8 DEF IsFeatures
<1> QED
  BY <1>1, <1>2

(* The bundle of a run is one that the outside offers.                      *)
LEMMA RunBundle ==
  ASSUME AnalysisInv, stage \in PastBegin
  PROVE  \E case \in Cases : IsCase(case) /\ ingest = Bundle(case, now) /\ now \in Nat
<1>1. PICK case \in Cases : ingest = Bundle(case, now)
  BY DEF AnalysisInv, BundleInv
<1>2. now \in Nat
  BY OrchestratorAssumption DEF AnalysisInv
<1> QED
  BY <1>1, <1>2, OrchestratorAssumption

LEMMA RunFeatures ==
  ASSUME AnalysisInv, stage \in PastFeatures
  PROVE  /\ DOMAIN features = Assets
         /\ \A a \in Assets :
               /\ ingest.series[a] # None => IsSeries(ingest.series[a])
               /\ features[a] = AssetFeatures(Class[a], ingest.series[a])
               /\ IsFeatures(features[a])
<1>1. stage \in PastBegin
  BY StageNames
<1>2. PICK case \in Cases : IsCase(case) /\ ingest = Bundle(case, now)
  BY <1>1, RunBundle
<1>3. ingest.series = case.series
  BY <1>2 DEF Bundle
<1>4. \A a \in Assets : ingest.series[a] # None => IsSeries(ingest.series[a])
  BY <1>2, <1>3 DEF IsCase
<1>5. features = [a \in Assets |-> AssetFeatures(Class[a], ingest.series[a])]
  BY DEF AnalysisInv, FeaturesInv, Features
<1> QED
  BY <1>4, <1>5, FeaturesInRange

(* A change over a horizon within the series is the exact one, rounded down *)
(* to a hundredth of a percent.                                             *)
LEMMA HorizonChangeExact ==
  ASSUME NEW s \in Seq(Nat \ {0}), NEW b \in Nat \ {0}, Len(s) > b
  PROVE  /\ HorizonChange(s, b) \in Int
         /\ 10000 * (Last(s) - Back(s, b)) - HorizonChange(s, b) * Back(s, b)
               \in 0..(Back(s, b) - 1)
<1>1. PICK n \in Nat : n = Len(s) /\ DOMAIN s = 1..n
  OBVIOUS
<1>2. n \in 1..n /\ n - b \in 1..n
  BY <1>1
<1>3. PICK last \in Nat \ {0}, then \in Nat \ {0} : last = s[n] /\ then = s[n - b]
  BY <1>1, <1>2
<1>4. PICK e \in Int : e = (last - then) * 10000
  OBVIOUS
<1>5. PICK q \in Int : q = e \div then /\ q * then <= e /\ e < q * then + then
  BY Division
<1>6. HorizonChange(s, b) = q
  BY <1>1, <1>3, <1>4, <1>5 DEF HorizonChange, PctChange, Last, Back
<1>7. Last(s) = last /\ Back(s, b) = then
  BY <1>1, <1>3 DEF Last, Back
<1>8. 10000 * (last - then) = e
  BY <1>4
<1>9. q * then \in Int
  OBVIOUS
<1>10. e - q * then \in 0..(then - 1)
  BY <1>5, <1>9
<1> QED
  BY <1>6, <1>7, <1>8, <1>10

LEMMA PublishedChanges ==
  ASSUME AnalysisInv, stage = "done", NEW a \in Assets
  PROVE  /\ run.assets[a].changes = [h \in Horizons |-> OrZero(features[a].changes[h])]
         /\ run.assets[a].data_gaps = DataGaps(a, features[a].changes)
<1>1. run.assets[a] =
         [Plain(a) EXCEPT !.scores.sentiment = IF Told(a) THEN sentiment[a] ELSE None,
                          !.summary = narration # None /\ a \in narration]
  BY ComposedAssets
<1> QED
  BY <1>1 DEF Plain, AssembleAsset

LEMMA ChangesRealHere == AnalysisInv => ChangesAreReal
<1> SUFFICES ASSUME AnalysisInv, stage = "done", NEW a \in Assets, NEW h \in Horizons
             PROVE  LET asset == run.assets[a]
                        series == ingest.series[a]
                        known == /\ series # None
                                 /\ IF series.changes = None THEN Len(series.closes) > Bars[h]
                                    ELSE series.changes[h] # None
                        then == Back(series.closes, Bars[h])
                    IN  /\ h \in asset.data_gaps <=> ~known /\ (h = "6h" \/ a = "TOTAL_MCAP")
                        /\ ~known => asset.changes[h] = 0
                        /\ known /\ series.changes = None =>
                              LET exact == 10000 * (Last(series.closes) - then)
                              IN  exact - asset.changes[h] * then \in 0..(then - 1)
  BY DEF ChangesAreReal
<1> DEFINE series == ingest.series[a]
           known == /\ series # None
                    /\ IF series.changes = None THEN Len(series.closes) > Bars[h]
                       ELSE series.changes[h] # None
           then == Back(series.closes, Bars[h])
           change == features[a].changes[h]
<1>1. stage \in PastFeatures
  BY StageNames
<1>2. /\ series # None => IsSeries(series)
      /\ features[a] = AssetFeatures(Class[a], series)
      /\ IsFeatures(features[a])
  BY <1>1, RunFeatures
<1>3. run.assets[a].changes[h] = OrZero(change)
  BY PublishedChanges
<1>4. h \in run.assets[a].data_gaps <=> change = None /\ (h = "6h" \/ a = "TOTAL_MCAP")
  BY PublishedChanges DEF DataGaps
<1>5. Bars[h] \in Nat \ {0}
  BY MarketFeaturesAssumption
<1>6. CASE series = None
  <2>1. change = None
    BY <1>2, <1>6 DEF AssetFeatures, NoFeatures
  <2> QED
    BY <1>3, <1>4, <1>6, <2>1 DEF OrZero
<1>7. CASE series # None /\ series.changes # None
  <2>1. change = series.changes[h]
    BY <1>2, <1>7 DEF AssetFeatures, Changes
  <2> QED
    BY <1>3, <1>4, <1>7, <2>1 DEF OrZero
<1>8. CASE series # None /\ series.changes = None
  <2>1. change = HorizonChange(series.closes, Bars[h])
    BY <1>2, <1>8 DEF AssetFeatures, Changes
  <2>2. PICK s \in Seq(Nat \ {0}) : s = series.closes
    BY <1>2, <1>8 DEF IsSeries
  <2>3. PICK b \in Nat \ {0} : b = Bars[h]
    BY <1>5
  <2>4. CASE Len(s) > b
    <3>1. /\ change \in Int
          /\ 10000 * (Last(s) - Back(s, b)) - change * Back(s, b) \in 0..(Back(s, b) - 1)
      BY <2>1, <2>2, <2>3, <2>4, HorizonChangeExact
    <3>2. change # None /\ run.assets[a].changes[h] = change
      BY <1>3, <3>1, CoreDataAssumption DEF OrZero
    <3>3. 10000 * (Last(series.closes) - then) - run.assets[a].changes[h] * then
             \in 0..(then - 1)
      BY <2>2, <2>3, <3>1, <3>2
    <3>4. known
      BY <1>8, <2>2, <2>3, <2>4
    <3> QED
      BY <1>4, <3>2, <3>3, <3>4
  <2>5. CASE ~(Len(s) > b)
    <3>1. Len(s) <= b
      BY <2>5
    <3>2. change = None
      BY <2>1, <2>2, <2>3, <3>1 DEF HorizonChange
    <3>3. ~known
      BY <1>8, <2>2, <2>3, <2>5
    <3> QED
      BY <1>3, <1>4, <3>2, <3>3 DEF OrZero
  <2> QED
    BY <2>4, <2>5
<1> QED
  BY <1>6, <1>7, <1>8

(* See ChangesAreReal in OrchestratorProperties.                            *)
THEOREM PublishedChangesAreReal == Spec => []ChangesAreReal
<1>1. AnalysisInv => ChangesAreReal
  BY ChangesRealHere
<1> QED
  BY <1>1, AnalysisInvariant, PTL

-----------------------------------------------------------------------------
(* Scores.                                                                  *)

LEMMA ClampValue ==
  ASSUME NEW v \in Int, NEW low \in Int, NEW high \in Int, low <= high
  PROVE  Clamp(v, low, high) = IF v < low THEN low ELSE IF v > high THEN high ELSE v
<1>1. Min({high, v}) = IF high <= v THEN high ELSE v
  BY MinOfTwo
<1>2. PICK m \in Int : m = Min({high, v})
  BY <1>1
<1>3. Max({low, m}) = IF low >= m THEN low ELSE m
  BY MaxOfTwo
<1>4. Clamp(v, low, high) = Max({low, m})
  BY <1>2 DEF Clamp
<1> QED
  BY <1>1, <1>2, <1>3, <1>4

LEMMA UnitNumber ==
  ASSUME NEW v \in Int
  PROVE  Unit(v) \in UnitRange
<1>1. Clamp(v, 0, 1000) = IF v < 0 THEN 0 ELSE IF v > 1000 THEN 1000 ELSE v
  BY ClampValue
<1> QED
  BY <1>1 DEF Unit, UnitRange

LEMMA SymmetricNumber ==
  ASSUME NEW v \in Int
  PROVE  /\ Symmetric(v) \in SymmetricRange
         /\ v > -500 => Symmetric(v) > -500
         /\ v < 500 => Symmetric(v) < 500
<1>1. PICK low \in Int : low = -1000
  OBVIOUS
<1>2. Clamp(v, low, 1000) = IF v < low THEN low ELSE IF v > 1000 THEN 1000 ELSE v
  BY <1>1, ClampValue
<1>3. Symmetric(v) = Clamp(v, low, 1000)
  BY <1>1 DEF Symmetric
<1>4. PICK c : c = Symmetric(v)
  OBVIOUS
<1>5. c = IF v < low THEN low ELSE IF v > 1000 THEN 1000 ELSE v
  BY <1>2, <1>3, <1>4
<1>6. c \in Int /\ -1000 <= c /\ c <= 1000
  BY <1>1, <1>5
<1>7. /\ v > -500 => c > -500
      /\ v < 500 => c < 500
  BY <1>1, <1>5
<1> QED
  BY <1>4, <1>6, <1>7 DEF SymmetricRange

Parts(pairs) == [i \in DOMAIN pairs |-> IF pairs[i][1] # None THEN pairs[i][1] * pairs[i][2] ELSE 0]
Weights(pairs) == [i \in DOMAIN pairs |-> IF pairs[i][1] # None THEN pairs[i][2] ELSE 0]

LEMMA WeightedMeanIs ==
  ASSUME NEW pairs
  PROVE  WeightedMean(pairs) = IF Total(Weights(pairs)) = 0 THEN 0
                               ELSE Total(Parts(pairs)) \div Total(Weights(pairs))
BY DEF WeightedMean, Parts, Weights

LEMMA PartsTyped ==
  ASSUME NEW pairs \in Seq(Optional(Int) \X Nat)
  PROVE  /\ Parts(pairs) \in Seq(Int) /\ Len(Parts(pairs)) = Len(pairs)
         /\ Weights(pairs) \in Seq(Nat) /\ Len(Weights(pairs)) = Len(pairs)
<1>1. PICK n \in Nat : n = Len(pairs) /\ DOMAIN pairs = 1..n
  OBVIOUS
<1>2. ASSUME NEW i \in 1..n
      PROVE  /\ pairs[i][1] # None => pairs[i][1] \in Int
             /\ pairs[i][2] \in Nat
  <2>1. pairs[i] \in Optional(Int) \X Nat
    BY <1>1
  <2> QED
    BY <2>1 DEF Optional
<1>3. PICK p, w : p = Parts(pairs) /\ w = Weights(pairs)
  OBVIOUS
<1>4. p \in [1..n -> Int]
  <2>1. p = [i \in 1..n |-> IF pairs[i][1] # None THEN pairs[i][1] * pairs[i][2] ELSE 0]
    BY <1>1, <1>3 DEF Parts
  <2>2. ASSUME NEW i \in 1..n
        PROVE  (IF pairs[i][1] # None THEN pairs[i][1] * pairs[i][2] ELSE 0) \in Int
    <3>1. CASE pairs[i][1] # None
      <4>1. pairs[i][1] \in Int /\ pairs[i][2] \in Int
        BY <1>2, <3>1
      <4>2. pairs[i][1] * pairs[i][2] \in Int
        BY <4>1
      <4> QED
        BY <3>1, <4>2
    <3>2. CASE pairs[i][1] = None
      BY <3>2
    <3> QED
      BY <3>1, <3>2
  <2> QED
    BY <2>1, <2>2
<1>5. w \in [1..n -> Nat]
  BY <1>1, <1>2, <1>3 DEF Weights
<1>6. /\ p \in Seq(Int) /\ Len(p) = n
      /\ w \in Seq(Nat) /\ Len(w) = n
  BY <1>4, <1>5
<1> QED
  BY <1>1, <1>3, <1>6

LEMMA WeightedMeanNumber ==
  ASSUME NEW pairs \in Seq(Optional(Int) \X Nat)
  PROVE  WeightedMean(pairs) \in Int
<1>1. PICK p : p = Total(Parts(pairs))
  OBVIOUS
<1>2. PICK w : w = Total(Weights(pairs))
  OBVIOUS
<1>3. p \in Int
  BY <1>1, PartsTyped, TotalInt
<1>4. w \in Nat
  BY <1>2, PartsTyped, TotalNat
<1>5. WeightedMean(pairs) = IF w = 0 THEN 0 ELSE p \div w
  BY <1>1, <1>2, WeightedMeanIs
<1>6. w # 0 => p \div w \in Int
  BY <1>3, <1>4, Division
<1> QED
  BY <1>5, <1>6

(* The signals of an asset, in their order: each in its range or missing.   *)
LEMMA SubsignalsTyped ==
  ASSUME NEW f, IsFeatures(f)
  PROVE  /\ DOMAIN TrendSubsignals(f) = 1..5
         /\ TrendSubsignals(f) \in Seq(Optional(SymmetricRange) \X (Nat \ {0}))
         /\ \A i \in 1..5 : /\ TrendSubsignals(f)[i][1] \in Optional(SymmetricRange)
                            /\ TrendSubsignals(f)[i][2] \in Nat \ {0}
         /\ TrendSubsignals(f)[1][2] = 30 /\ TrendSubsignals(f)[2][2] = 25
         /\ TrendSubsignals(f)[3][2] = 15 /\ TrendSubsignals(f)[4][2] = 15
         /\ TrendSubsignals(f)[5][2] = 15
         /\ Bullish(f) => TrendSubsignals(f)[1][1] \in {500, 1000}
                          /\ TrendSubsignals(f)[2][1] \in {500, 1000}
         /\ Bearish(f) => TrendSubsignals(f)[1][1] \in {-500, -1000}
                          /\ TrendSubsignals(f)[2][1] \in {-500, -1000}
<1>1. PICK e : e = IF f.ema = None THEN None ELSE EmaSignal[f.ema]
  OBVIOUS
<1>2. PICK m : m = IF f.macd = None THEN None ELSE MacdSignals[f.macd]
  OBVIOUS
<1>3. PICK r : r = IF f.rsi = None THEN None ELSE Symmetric((f.rsi - 5000) \div 5)
  OBVIOUS
<1>4. PICK x : x = IF f.changes["24h"] = None THEN None ELSE Symmetric(f.changes["24h"] * 2)
  OBVIOUS
<1>5. PICK y : y = IF f.changes["7d"] = None THEN None
                   ELSE Symmetric((f.changes["7d"] * 2) \div 3)
  OBVIOUS
<1>6. PICK t : t = TrendSubsignals(f)
  OBVIOUS
<1>7. t = <<<<e, 30>>, <<m, 25>>, <<r, 15>>, <<x, 15>>, <<y, 15>>>>
  BY <1>1, <1>2, <1>3, <1>4, <1>5, <1>6 DEF TrendSubsignals, TrendWeight
<1>8. e \in Optional(SymmetricRange)
  BY <1>1 DEF IsFeatures, Optional, EmaSignal, EmaStates, SymmetricRange
<1>9. m \in Optional(SymmetricRange)
  BY <1>2 DEF IsFeatures, Optional, MacdSignals, MacdStates, SymmetricRange
<1>10. r \in Optional(SymmetricRange)
  <2>1. CASE f.rsi = None
    BY <1>3, <2>1 DEF Optional
  <2>2. CASE f.rsi # None
    <3>1. PICK v \in Int : v = f.rsi
      <4>1. f.rsi \in Optional(RsiRange)
        BY DEF IsFeatures
      <4>2. f.rsi \in RsiRange
        BY <2>2, <4>1 DEF Optional
      <4>3. \A v \in RsiRange : v \in Int
        BY DEF RsiRange
      <4> QED
        BY ONLY <4>2, <4>3
    <3>2. (v - 5000) \div 5 \in Int
      OBVIOUS
    <3> QED
      BY <1>3, <2>2, <3>1, <3>2, SymmetricNumber DEF Optional
  <2> QED
    BY <2>1, <2>2
<1>11. x \in Optional(SymmetricRange)
  <2>1. CASE f.changes["24h"] = None
    BY <1>4, <2>1 DEF Optional
  <2>2. CASE f.changes["24h"] # None
    <3>1. PICK v \in Int : v = f.changes["24h"]
      BY <2>2 DEF IsFeatures, Optional, Horizons
    <3>2. v * 2 \in Int
      OBVIOUS
    <3> QED
      BY <1>4, <2>2, <3>1, <3>2, SymmetricNumber DEF Optional
  <2> QED
    BY <2>1, <2>2
<1>12. y \in Optional(SymmetricRange)
  <2>1. CASE f.changes["7d"] = None
    BY <1>5, <2>1 DEF Optional
  <2>2. CASE f.changes["7d"] # None
    <3>1. PICK v \in Int : v = f.changes["7d"]
      BY <2>2 DEF IsFeatures, Optional, Horizons
    <3>2. (v * 2) \div 3 \in Int
      OBVIOUS
    <3> QED
      BY <1>5, <2>2, <3>1, <3>2, SymmetricNumber DEF Optional
  <2> QED
    BY <2>1, <2>2
<1>13. /\ t[1] = <<e, 30>> /\ t[2] = <<m, 25>> /\ t[3] = <<r, 15>>
       /\ t[4] = <<x, 15>> /\ t[5] = <<y, 15>>
       /\ DOMAIN t = 1..5 /\ Len(t) = 5
  BY <1>7
<1>14. ASSUME NEW i \in 1..5
       PROVE  t[i] \in Optional(SymmetricRange) \X (Nat \ {0})
  <2>1. i = 1 \/ i = 2 \/ i = 3 \/ i = 4 \/ i = 5
    OBVIOUS
  <2>2. /\ t[1] \in Optional(SymmetricRange) \X (Nat \ {0})
        /\ t[2] \in Optional(SymmetricRange) \X (Nat \ {0})
        /\ t[3] \in Optional(SymmetricRange) \X (Nat \ {0})
        /\ t[4] \in Optional(SymmetricRange) \X (Nat \ {0})
        /\ t[5] \in Optional(SymmetricRange) \X (Nat \ {0})
    BY <1>8, <1>9, <1>10, <1>11, <1>12, <1>13
  <2> QED
    BY <2>1, <2>2
<1>15. t \in Seq(Optional(SymmetricRange) \X (Nat \ {0}))
  <2>1. PICK S : S = Optional(SymmetricRange) \X (Nat \ {0})
    OBVIOUS
  <2>2. t[1] \in S /\ t[2] \in S /\ t[3] \in S /\ t[4] \in S /\ t[5] \in S
    BY <1>14, <2>1
  <2>3. t = <<t[1], t[2], t[3], t[4], t[5]>>
    BY <1>7
  <2>4. <<t[1], t[2], t[3], t[4], t[5]>> \in Seq(S)
    BY <2>2
  <2> QED
    BY <2>1, <2>3, <2>4
<1>16. Bullish(f) => e \in {500, 1000} /\ m \in {500, 1000}
  <2>1. "bullish" # None /\ "bullish_cross" # None
        /\ "above_diverging" # None /\ "above_converging" # None
    BY CoreDataAssumption DEF MacdStates, EmaStates
  <2> QED
    BY <1>1, <1>2, <2>1 DEF Bullish, EmaSignal, MacdSignals
<1>17. Bearish(f) => e \in {-500, -1000} /\ m \in {-500, -1000}
  <2>1. "bearish" # None /\ "bearish_cross" # None
        /\ "below_diverging" # None /\ "below_converging" # None
    BY CoreDataAssumption DEF MacdStates, EmaStates
  <2> QED
    BY <1>1, <1>2, <2>1 DEF Bearish, EmaSignal, MacdSignals
<1>18. /\ t[1][1] = e /\ t[2][1] = m
       /\ t[1][2] = 30 /\ t[2][2] = 25 /\ t[3][2] = 15 /\ t[4][2] = 15 /\ t[5][2] = 15
  BY <1>13
<1>19. ASSUME NEW i \in 1..5
       PROVE  t[i][1] \in Optional(SymmetricRange) /\ t[i][2] \in Nat \ {0}
  BY <1>14
<1> QED
  BY <1>6, <1>13, <1>15, <1>16, <1>17, <1>18, <1>19

(* The indicators outweigh the changes: where both point up the trend is    *)
(* not strongly down, and the other way round, whatever else is missing.    *)
LEMMA TrendFollowsIndicators ==
  ASSUME NEW f, IsFeatures(f)
  PROVE  /\ TrendScore(f) \in SymmetricRange
         /\ Bullish(f) => TrendScore(f) > -500
         /\ Bearish(f) => TrendScore(f) < 500
<1>1. PICK t : t = TrendSubsignals(f)
  OBVIOUS
<1>2. /\ DOMAIN t = 1..5
      /\ \A i \in 1..5 : t[i][1] \in Optional(SymmetricRange)
      /\ t[1][2] = 30 /\ t[2][2] = 25 /\ t[3][2] = 15 /\ t[4][2] = 15 /\ t[5][2] = 15
      /\ Bullish(f) => t[1][1] \in {500, 1000} /\ t[2][1] \in {500, 1000}
      /\ Bearish(f) => t[1][1] \in {-500, -1000} /\ t[2][1] \in {-500, -1000}
  BY <1>1, SubsignalsTyped
<1>3. PICK p, w : p = Parts(t) /\ w = Weights(t)
  OBVIOUS
<1>4. /\ p = [i \in 1..5 |-> IF t[i][1] # None THEN t[i][1] * t[i][2] ELSE 0]
      /\ w = [i \in 1..5 |-> IF t[i][1] # None THEN t[i][2] ELSE 0]
  BY <1>2, <1>3 DEF Parts, Weights
<1>5. ASSUME NEW i \in 1..5
      PROVE  /\ t[i][1] # None => t[i][1] \in Int /\ -1000 <= t[i][1] /\ t[i][1] <= 1000
             /\ t[i][1] = None => p[i] = 0 /\ w[i] = 0
             /\ t[i][1] # None => p[i] = t[i][1] * t[i][2] /\ w[i] = t[i][2]
  <2>1. t[i][1] # None => t[i][1] \in SymmetricRange
    BY <1>2 DEF Optional
  <2>2. t[i][1] # None => t[i][1] \in Int /\ -1000 <= t[i][1] /\ t[i][1] <= 1000
    <3>1. ASSUME NEW x \in SymmetricRange PROVE x \in Int /\ -1000 <= x /\ x <= 1000
      BY DEF SymmetricRange
    <3> QED
      BY <2>1, <3>1
  <2>3. /\ t[i][1] = None => p[i] = 0 /\ w[i] = 0
        /\ t[i][1] # None => p[i] = t[i][1] * t[i][2] /\ w[i] = t[i][2]
    BY <1>4
  <2> QED
    BY <2>2, <2>3
<1>6. ASSUME NEW i \in {3, 4, 5}
      PROVE  p[i] \in Int /\ w[i] \in 0..15 /\ -1000 * w[i] <= p[i] /\ p[i] <= 1000 * w[i]
  <2>1. i \in 1..5 /\ t[i][2] = 15
    BY <1>2
  <2>2. CASE t[i][1] = None
    BY <1>5, <2>1, <2>2
  <2>3. CASE t[i][1] # None
    <3>1. PICK x \in Int : x = t[i][1] /\ -1000 <= x /\ x <= 1000
      BY <1>5, <2>1, <2>3
    <3>2. p[i] = x * 15 /\ w[i] = 15
      BY <1>5, <2>1, <2>3, <3>1
    <3> QED
      BY <3>1, <3>2
  <2> QED
    BY <2>2, <2>3
<1>7. ASSUME NEW i \in {1, 2}
      PROVE  p[i] \in Int /\ w[i] \in 0..30
  <2>1. i \in 1..5 /\ t[i][2] \in 0..30
    BY <1>2
  <2>2. CASE t[i][1] = None
    BY <1>5, <2>1, <2>2
  <2>3. CASE t[i][1] # None
    <3>1. PICK x \in Int, v \in 0..30 : x = t[i][1] /\ v = t[i][2]
      BY <1>5, <2>1, <2>3
    <3>2. p[i] = x * v /\ w[i] = v
      BY <1>5, <2>1, <2>3, <3>1
    <3>3. x * v \in Int
      OBVIOUS
    <3> QED
      BY <3>2, <3>3
  <2> QED
    BY <2>2, <2>3
<1>8. p \in [1..5 -> Int] /\ w \in [1..5 -> Int]
  <2>1. ASSUME NEW i \in 1..5 PROVE p[i] \in Int /\ w[i] \in Int
    <3>1. i \in {1, 2} \/ i \in {3, 4, 5}
      OBVIOUS
    <3> QED
      BY <1>6, <1>7, <3>1
  <2>2. p = [i \in 1..5 |-> p[i]] /\ w = [i \in 1..5 |-> w[i]]
    BY <1>4
  <2> QED
    BY <2>1, <2>2
<1>9. PICK P \in Int, W \in Int :
         /\ P = Total(p) /\ P = p[1] + p[2] + p[3] + p[4] + p[5]
         /\ W = Total(w) /\ W = w[1] + w[2] + w[3] + w[4] + w[5]
  <2>1. /\ Total(p) = p[1] + p[2] + p[3] + p[4] + p[5]
        /\ Total(w) = w[1] + w[2] + w[3] + w[4] + w[5]
    BY <1>8, TotalOfFive
  <2>2. p[1] + p[2] + p[3] + p[4] + p[5] \in Int
    BY <1>6, <1>7
  <2>3. w[1] + w[2] + w[3] + w[4] + w[5] \in Int
    BY <1>6, <1>7
  <2> QED
    BY <2>1, <2>2, <2>3
<1>10. W \in Nat
  BY <1>6, <1>7, <1>9
<1>11. WeightedMean(t) = IF W = 0 THEN 0 ELSE P \div W
  BY <1>3, <1>9, WeightedMeanIs
<1>12. WeightedMean(t) \in Int
  BY <1>9, <1>10, <1>11, Division
<1>13. ASSUME Bullish(f) PROVE WeightedMean(t) > -500
  <2>1. PICK x \in {500, 1000}, y \in {500, 1000} : x = t[1][1] /\ y = t[2][1]
    BY <1>2, <1>13
  <2>2. x # None /\ y # None
    BY CoreDataAssumption
  <2>3. p[1] = x * 30 /\ w[1] = 30 /\ p[2] = y * 25 /\ w[2] = 25
    BY <1>2, <1>5, <2>1, <2>2
  <2>4. p[1] >= 15000 /\ p[2] >= 12500 /\ p[1] \in Int /\ p[2] \in Int
    BY <2>3
  <2>5. W \in Nat \ {0} /\ -499 * W <= P
    <3>1. PICK a \in 0..15, b \in 0..15, c \in 0..15 : a = w[3] /\ b = w[4] /\ c = w[5]
      BY <1>6
    <3>2. p[3] >= -1000 * a /\ p[4] >= -1000 * b /\ p[5] >= -1000 * c
          /\ p[3] \in Int /\ p[4] \in Int /\ p[5] \in Int
      BY <1>6, <3>1
    <3>3. W = 55 + a + b + c
      BY <1>9, <2>3, <3>1
    <3>4. P >= 27500 - 1000 * a - 1000 * b - 1000 * c
      BY <1>9, <2>4, <3>2
    <3> QED
      BY <3>3, <3>4
  <2>6. PICK k \in Int : k = -499
    OBVIOUS
  <2>7. k <= P \div W
    BY <2>5, <2>6, Division
  <2> QED
    BY <1>11, <1>12, <2>5, <2>6, <2>7
<1>14. ASSUME Bearish(f) PROVE WeightedMean(t) < 500
  <2>1. PICK x \in {-500, -1000}, y \in {-500, -1000} : x = t[1][1] /\ y = t[2][1]
    BY <1>2, <1>14
  <2>2. x # None /\ y # None
    BY CoreDataAssumption
  <2>3. p[1] = x * 30 /\ w[1] = 30 /\ p[2] = y * 25 /\ w[2] = 25
    BY <1>2, <1>5, <2>1, <2>2
  <2>4. p[1] <= -15000 /\ p[2] <= -12500 /\ p[1] \in Int /\ p[2] \in Int
    BY <2>3
  <2>5. W \in Nat \ {0} /\ P <= 499 * W
    <3>1. PICK a \in 0..15, b \in 0..15, c \in 0..15 : a = w[3] /\ b = w[4] /\ c = w[5]
      BY <1>6
    <3>2. p[3] <= 1000 * a /\ p[4] <= 1000 * b /\ p[5] <= 1000 * c
          /\ p[3] \in Int /\ p[4] \in Int /\ p[5] \in Int
      BY <1>6, <3>1
    <3>3. W = 55 + a + b + c
      BY <1>9, <2>3, <3>1
    <3>4. P <= -27500 + 1000 * a + 1000 * b + 1000 * c
      BY <1>9, <2>4, <3>2
    <3> QED
      BY <3>3, <3>4
  <2>6. P \div W <= 499
    BY <2>5, Division
  <2> QED
    BY <1>11, <1>12, <2>5, <2>6
<1>15. TrendScore(f) = Symmetric(WeightedMean(t))
  BY <1>1 DEF TrendScore
<1> QED
  BY <1>12, <1>13, <1>14, <1>15, SymmetricNumber

-----------------------------------------------------------------------------
(* Guardrails.                                                              *)

(* A document that shows the stages as they are.                            *)
Shows(doc) ==
    /\ DOMAIN doc.assets = Assets
    /\ doc.regime = scoring.regime
    /\ \A a \in Assets :
          /\ doc.assets[a].indicators = Plain(a).indicators
          /\ doc.assets[a].scores.trend = Plain(a).scores.trend
          /\ doc.assets[a].activated_rules = Plain(a).activated_rules
          /\ doc.assets[a].causal_links = Plain(a).causal_links

LEMMA LinksResolve ==
  ASSUME AnalysisInv, stage \in PastRules, NEW doc, Shows(doc)
  PROVE  CheckCausalLinksResolve(doc) = {}
<1>1. ASSUME NEW b \in Assets, NEW link \in Range(doc.assets[b].causal_links)
      PROVE  \E act \in Range(doc.assets[b].activated_rules) : act.rule = link.via_rule
  <2>1. doc.assets[b].causal_links =
           IF b \in DOMAIN activations /\ activations[b].direction # "neutral"
           THEN <<CausalLink(activations[b])>> ELSE <<>>
    BY PlainAsset DEF Shows
  <2>2. Range(<<>>) = {}
    BY DEF Range
  <2>3. b \in DOMAIN activations /\ link = CausalLink(activations[b])
    BY <1>1, <2>1, <2>2 DEF Range
  <2>4. Acts(b) = <<activations[b]>> /\ DOMAIN Acts(b) = {1} /\ Acts(b)[1] = activations[b]
    BY <2>3 DEF Acts
  <2>5. doc.assets[b].activated_rules =
           [i \in DOMAIN Acts(b) |-> [rule |-> Acts(b)[i].rule, strength |-> Acts(b)[i].strength,
                                      halvings |-> Acts(b)[i].halvings]]
    BY PlainAsset DEF Shows
  <2>6. PICK act : act = doc.assets[b].activated_rules[1]
    OBVIOUS
  <2>7. act \in Range(doc.assets[b].activated_rules) /\ act.rule = activations[b].rule
    BY <2>4, <2>5, <2>6 DEF Range
  <2>8. link.via_rule = activations[b].rule
    BY <2>3 DEF CausalLink
  <2> QED
    BY <2>7, <2>8
<1>2. ASSUME NEW b \in DOMAIN doc.assets, NEW link \in Range(doc.assets[b].causal_links)
      PROVE  link.via_rule \in UNION {{act.rule : act \in Range(doc.assets[a].activated_rules)} :
                                        a \in DOMAIN doc.assets}
  <2>1. PICK act \in Range(doc.assets[b].activated_rules) : act.rule = link.via_rule
    BY <1>1 DEF Shows
  <2>2. link.via_rule \in {a.rule : a \in Range(doc.assets[b].activated_rules)}
    BY <2>1
  <2> QED
    BY <2>2
<1> QED
  BY <1>2 DEF CheckCausalLinksResolve

LEMMA TrendsAgree ==
  ASSUME AnalysisInv, stage \in PastScore, NEW doc, Shows(doc)
  PROVE  CheckTrendIndicatorConsistency(doc) = {}
<1>0. stage \in PastFeatures
  BY StageNames
<1>1. ASSUME NEW a \in Assets
      PROVE  /\ ~(Bullish(doc.assets[a].indicators) /\ doc.assets[a].scores.trend <= -500)
             /\ ~(Bearish(doc.assets[a].indicators) /\ doc.assets[a].scores.trend >= 500)
  <2>1. PICK f : f = features[a]
    OBVIOUS
  <2>2. IsFeatures(f) /\ DOMAIN features = Assets
    BY <1>0, <2>1, RunFeatures
  <2>3. doc.assets[a].indicators = [x \in DOMAIN f \ {"changes"} |-> f[x]]
    <3>1. Plain(a).indicators = [x \in DOMAIN features[a] \ {"changes"} |-> features[a][x]]
      BY PlainAsset
    <3> QED
      BY <2>1, <3>1 DEF Shows
  <2>4. doc.assets[a].indicators.macd = f.macd /\ doc.assets[a].indicators.ema = f.ema
    BY <2>2, <2>3 DEF IsFeatures
  <2>5. /\ Bullish(doc.assets[a].indicators) <=> Bullish(f)
        /\ Bearish(doc.assets[a].indicators) <=> Bearish(f)
    BY <2>4 DEF Bullish, Bearish
  <2>6. doc.assets[a].scores.trend = TrendScore(f)
    <3>1. doc.assets[a].scores.trend = Plain(a).scores.trend
      BY DEF Shows
    <3>2. Plain(a).scores.trend = scoring.trend[a]
      BY DEF Plain, AssembleAsset
    <3>3. scoring.trend[a] = TrendScore(f)
      BY <2>1, <2>2 DEF AnalysisInv, ScoresInv, Score
    <3> QED
      BY <3>1, <3>2, <3>3
  <2>7. PICK t \in Int : t = TrendScore(f)
    BY <2>2, TrendFollowsIndicators DEF SymmetricRange
  <2>8. (Bullish(f) => t > -500) /\ (Bearish(f) => t < 500)
    BY <2>2, <2>7, TrendFollowsIndicators
  <2> QED
    BY <2>5, <2>6, <2>7, <2>8
<1> QED
  BY <1>1 DEF Shows, CheckTrendIndicatorConsistency

LEMMA ChangeFlagAgrees ==
  ASSUME AnalysisInv, stage \in PastScore, NEW doc, Shows(doc)
  PROVE  CheckRegimeChangeFlag(doc) = {}
BY DEF Shows, CheckRegimeChangeFlag, AnalysisInv, ScoresInv, Score, Classify

(* A guarded document without a false word about failures keeps its flags.  *)
LEMMA NothingFound ==
  ASSUME AnalysisInv, stage \in PastRules, NEW doc, Shows(doc), CheckDegradedHonesty(doc) = {},
         NEW T, doc.guardrail_flags \in Seq(T)
  PROVE  Validate(doc).flags = doc.guardrail_flags /\ Validate(doc).publish = TRUE
<1>1. stage \in PastScore
  BY StageNames
<1>2. UNION {CheckDegradedHonesty(doc), CheckCausalLinksResolve(doc),
             CheckTrendIndicatorConsistency(doc), CheckRegimeChangeFlag(doc)} = {}
  BY <1>1, LinksResolve, TrendsAgree, ChangeFlagAgrees
<1>3. /\ Validate(doc).flags = doc.guardrail_flags \o Listed({})
      /\ Validate(doc).publish = \A f \in {} : f.code \notin Critical
  BY <1>2 DEF Validate
<1>4. Listed({}) = <<>>
  BY ListedNone DEF Listed
<1>5. PICK flags \in Seq(T) : flags = doc.guardrail_flags
  OBVIOUS
<1>6. flags \o <<>> = flags
  OBVIOUS
<1> QED
  BY <1>3, <1>4, <1>5, <1>6

FlagCodes == {"degraded_run", "rule_conflict", "sentiment_degraded", "synthesis_degraded"}
Flags == [code : FlagCodes, asset : Optional(Assets)]
Conflicts == {Flag("rule_conflict", a) : a \in conflicts}

\* The base before its guardrails.
Draft ==
    [is_degraded |-> TRUE, regime |-> scoring.regime, assets |-> [a \in Assets |-> Plain(a)],
     global |-> Global(ingest.globals, event_features),
     guardrail_flags |-> <<Flag("degraded_run", None)>> \o Listed(Conflicts)]

LEMMA ConflictsListed ==
  ASSUME AnalysisInv, stage \in PastRules
  PROVE  /\ IsFiniteSet(Conflicts) /\ Conflicts \subseteq Flags
         /\ \A f \in Conflicts : f.code = "rule_conflict"
         /\ Listed(Conflicts) \in Seq(Flags) /\ NoRepeats(Listed(Conflicts))
         /\ Range(Listed(Conflicts)) = Conflicts
<1>1. conflicts \in SUBSET Assets
  BY ActivationOfWinner
<1>2. IsFiniteSet(conflicts)
  BY <1>1, CoreDataAssumption, FS_Subset
<1>3. IsFiniteSet(Conflicts)
  <2> DEFINE f == [a \in conflicts |-> Flag("rule_conflict", a)]
  <2>1. Conflicts = {f[a] : a \in conflicts}
    BY DEF Conflicts
  <2> HIDE DEF f
  <2> QED
    BY <1>2, <2>1, ImageFinite
<1>4. Conflicts \subseteq Flags /\ \A f \in Conflicts : f.code = "rule_conflict"
  BY <1>1 DEF Conflicts, Flag, Flags, FlagCodes, Optional
<1>5. PICK s : s = SetToSeq(Conflicts)
  OBVIOUS
<1>6. PICK n : n = Cardinality(Conflicts)
  OBVIOUS
<1>7. /\ s \in [1..n -> Conflicts] /\ DOMAIN s = 1..n /\ s \in Seq(Conflicts)
      /\ \A i, j \in 1..n : s[i] = s[j] => i = j
      /\ \A x \in Conflicts : \E i \in 1..n : s[i] = x
  BY <1>3, <1>5, <1>6, ListedOnce
<1>8. s \in Seq(Flags)
  BY <1>4, <1>7
<1>9. NoRepeats(s)
  BY <1>7 DEF NoRepeats
<1>10. Range(s) = Conflicts
  BY <1>7 DEF Range
<1> QED
  BY <1>3, <1>4, <1>5, <1>8, <1>9, <1>10 DEF Listed

(* The base has the flag of the missing language model, and the conflicts.  *)
LEMMA BaseFlags ==
  ASSUME AnalysisInv, stage \in PastAssemble
  PROVE  base.guardrail_flags = <<Flag("degraded_run", None)>> \o Listed(Conflicts)
<1>1. /\ base = Assemble(features, scoring, activations, conflicts, ingest.prices,
                         ingest.globals, event_features)
  BY DEF AnalysisInv, BaseInv
<1>2. DOMAIN features = Assets
  BY StageNames DEF AnalysisInv, FeaturesInv, Features
<1>3. base = [Draft EXCEPT !.guardrail_flags = Validate(Draft).flags]
  BY <1>1, <1>2 DEF Assemble, Draft, Plain, Conflicts
<1>4. Shows(Draft)
  BY DEF Shows, Draft
<1>5. CheckDegradedHonesty(Draft) = {}
  <2>1. ASSUME NEW b \in Assets
        PROVE  /\ Draft.assets[b].scores.sentiment = None
               /\ ~Draft.assets[b].summary
    BY DEF Draft, Plain, AssembleAsset
  <2>2. DOMAIN Draft.assets = Assets
    BY DEF Draft
  <2> QED
    BY <2>1, <2>2 DEF CheckDegradedHonesty
<1>6. Draft.guardrail_flags \in Seq(Flags)
  <2>1. Draft.guardrail_flags = <<Flag("degraded_run", None)>> \o Listed(Conflicts)
    BY DEF Draft
  <2>2. Flag("degraded_run", None) \in Flags
    BY DEF Flag, Flags, FlagCodes, Optional
  <2>3. <<Flag("degraded_run", None)>> \in Seq(Flags)
    BY <2>2
  <2>4. Listed(Conflicts) \in Seq(Flags)
    BY StageNames, ConflictsListed
  <2> QED
    BY <2>1, <2>3, <2>4
<1>7. stage \in PastRules
  BY StageNames
<1>8. Validate(Draft).flags = Draft.guardrail_flags
  BY <1>4, <1>5, <1>6, <1>7, NothingFound
<1> QED
  BY <1>3, <1>8 DEF Draft

(* What the composition keeps of them is the conflicts.                     *)
LEMMA FlagsKept ==
  ASSUME AnalysisInv, stage \in PastAssemble
  PROVE  /\ KeptFlags(base) \in Seq(Flags) /\ NoRepeats(KeptFlags(base))
         /\ Range(KeptFlags(base)) = Conflicts
<1>0. stage \in PastRules
  BY StageNames
<1>1. PICK s : s = Listed(Conflicts)
  OBVIOUS
<1>2. /\ s \in Seq(Flags) /\ NoRepeats(s) /\ Range(s) = Conflicts
      /\ \A f \in Conflicts : f.code = "rule_conflict"
  BY <1>0, <1>1, ConflictsListed
<1>3. PICK n \in Nat : n = Len(s) /\ DOMAIN s = 1..n
  BY <1>2
<1>4. PICK d : d = Flag("degraded_run", None)
  OBVIOUS
<1>5. d \in Flags /\ d.code = "degraded_run"
  BY <1>4 DEF Flag, Flags, FlagCodes, Optional
<1>6. PICK flags : flags = base.guardrail_flags
  OBVIOUS
<1>7. flags = <<d>> \o s
  BY <1>1, <1>4, <1>6, BaseFlags
<1>8. /\ flags \in Seq(Flags) /\ Len(flags) = n + 1 /\ DOMAIN flags = 1..(n + 1)
      /\ flags[1] = d /\ \A i \in 2..(n + 1) : flags[i] = s[i - 1]
  BY <1>2, <1>3, <1>5, <1>7
<1> DEFINE K == {i \in DOMAIN flags : flags[i].code # "degraded_run"}
<1>9. K = 2..(n + 1)
  <2>1. ASSUME NEW i \in 2..(n + 1) PROVE flags[i].code = "rule_conflict"
    <3>1. i - 1 \in 1..n
      OBVIOUS
    <3>2. s[i - 1] \in Conflicts
      BY <1>2, <1>3, <3>1 DEF Range
    <3> QED
      BY <1>2, <1>8, <3>2
  <2> QED
    BY <1>5, <1>8, <2>1
<1>10. PICK kept : kept = Chosen(flags, K) /\ kept = KeptFlags(base)
  BY <1>6 DEF KeptFlags
<1>11. K \in SUBSET DOMAIN flags /\ K \in SUBSET Int
  BY <1>8
<1> HIDE DEF K
<1>12. /\ IsFiniteSet(K) /\ kept \in Seq(Flags)
       /\ \A i \in 1..Len(kept) : \E k \in K : kept[i] = flags[k]
       /\ \A k \in K : \E i \in 1..Len(kept) : kept[i] = flags[k]
  <2>1. flags \in Seq(Flags)
    BY <1>8
  <2>2. /\ IsFiniteSet(K) /\ Chosen(flags, K) \in Seq(Flags)
        /\ \A i \in 1..Len(Chosen(flags, K)) : \E k \in K : Chosen(flags, K)[i] = flags[k]
        /\ \A k \in K : \E i \in 1..Len(Chosen(flags, K)) : Chosen(flags, K)[i] = flags[k]
    BY <1>11, <2>1, ChosenTyped
  <2>3. kept = Chosen(flags, K)
    BY <1>10
  <2> QED
    BY ONLY <2>2, <2>3
<1>13. PICK m \in Nat : m = Cardinality(K) /\ DOMAIN kept = 1..m /\ Len(kept) = m
  BY <1>10, <1>11, <1>12, ChosenList
<1>14. PICK places \in [1..m -> K] :
          /\ \A i, j \in 1..m : i < j => places[i] < places[j]
          /\ \A i \in 1..m : kept[i] = flags[places[i]]
  <2>1. \E places \in [1..Cardinality(K) -> K] :
           /\ \A i, j \in 1..Cardinality(K) : i < j => places[i] < places[j]
           /\ \A k \in K : \E i \in 1..Cardinality(K) : places[i] = k
           /\ \A i \in 1..Cardinality(K) : Chosen(flags, K)[i] = flags[places[i]]
    BY <1>11, <1>12, ChosenList, Zenon
  <2>2. kept = Chosen(flags, K) /\ m = Cardinality(K)
    BY <1>10, <1>13
  <2> QED
    BY ONLY <2>1, <2>2
<1>15. NoRepeats(kept)
  <2>1. SUFFICES ASSUME NEW i \in 1..m, NEW j \in 1..m, kept[i] = kept[j] PROVE i = j
    BY <1>13 DEF NoRepeats
  <2>2. /\ places[i] \in 2..(n + 1) /\ places[j] \in 2..(n + 1)
        /\ flags[places[i]] = flags[places[j]]
    BY <1>9, <1>14, <2>1
  <2>3. places[i] = places[j]
    <3>1. PICK p \in 2..(n + 1), q \in 2..(n + 1) : p = places[i] /\ q = places[j]
      BY <2>2
    <3>2. s[p - 1] = s[q - 1] /\ p - 1 \in 1..n /\ q - 1 \in 1..n
      BY <1>8, <2>2, <3>1
    <3>3. p - 1 = q - 1
      BY <1>2, <1>3, <3>2 DEF NoRepeats
    <3> QED
      BY <3>1, <3>3
  <2>4. ~(i < j) /\ ~(j < i)
    BY <1>14, <2>2, <2>3
  <2> QED
    BY <2>4
<1>16. Range(kept) = Conflicts
  <2>1. ASSUME NEW i \in 1..m PROVE kept[i] \in Conflicts
    <3>1. PICK k \in 2..(n + 1) : kept[i] = flags[k]
      BY <1>9, <1>12, <1>13
    <3>2. k - 1 \in 1..n /\ kept[i] = s[k - 1]
      BY <1>8, <3>1
    <3> QED
      BY <1>2, <1>3, <3>2 DEF Range
  <2>2. ASSUME NEW f \in Conflicts PROVE f \in Range(kept)
    <3>1. PICK j \in 1..n : s[j] = f
      BY <1>2, <1>3 DEF Range
    <3>2. j + 1 \in 2..(n + 1) /\ flags[j + 1] = s[(j + 1) - 1] /\ (j + 1) - 1 = j
      BY <1>8
    <3>3. PICK i \in 1..m : kept[i] = flags[j + 1]
      BY <1>9, <1>12, <1>13, <3>2
    <3> QED
      BY <1>13, <3>1, <3>2, <3>3 DEF Range
  <2> QED
    BY <1>13, <2>1, <2>2 DEF Range
<1> QED
  BY <1>10, <1>12, <1>15, <1>16


Failed == (IF sentiment_failed THEN {"sentiment_degraded"} ELSE {})
          \cup (IF narration = None THEN {"synthesis_degraded"} ELSE {})
FailureCodes == Failed \cup (IF Failed = {} THEN {} ELSE {"degraded_run"})
When(failed, code) == IF failed THEN <<Flag(code, None)>> ELSE <<>>

(* The composition adds the flags of the failed jobs, each once.            *)
LEMMA ComposedFlags ==
  ASSUME AnalysisInv, stage = "done"
  PROVE  /\ Composed.guardrail_flags \in Seq(Flags)
         /\ NoRepeats(Composed.guardrail_flags)
         /\ Range(Composed.guardrail_flags) =
               {Flag(code, None) : code \in FailureCodes} \cup Conflicts
<1>1. stage \in PastAssemble /\ stage \in PastRules
  BY StageNames
<1>2. PICK kept : kept = KeptFlags(base)
  OBVIOUS
<1>3. /\ kept \in Seq(Flags) /\ NoRepeats(kept) /\ Range(kept) = Conflicts
      /\ \A f \in Conflicts : f.code = "rule_conflict"
  BY <1>1, <1>2, FlagsKept, ConflictsListed
<1>4. PICK d : d = Flag("degraded_run", None)
  OBVIOUS
<1>5. PICK s : s = Flag("sentiment_degraded", None)
  OBVIOUS
<1>6. PICK n : n = Flag("synthesis_degraded", None)
  OBVIOUS
<1>7. /\ d \in Flags /\ d.code = "degraded_run"
      /\ s \in Flags /\ s.code = "sentiment_degraded"
      /\ n \in Flags /\ n.code = "synthesis_degraded"
  BY <1>4, <1>5, <1>6 DEF Flag, Flags, FlagCodes, Optional
<1>8. PICK any \in BOOLEAN : any = (sentiment_failed \/ narration = None)
  OBVIOUS
<1>9. PICK sf \in BOOLEAN : sf = sentiment_failed
  BY DEF sentiment_failed
<1>10. PICK nf \in BOOLEAN : nf = (narration = None)
  OBVIOUS
<1>11. PICK one : one = kept \o When(any, "degraded_run")
  OBVIOUS
<1>12. PICK two : two = one \o When(sf, "sentiment_degraded")
  OBVIOUS
<1>13. PICK three : three = two \o When(nf, "synthesis_degraded")
  OBVIOUS
<1>14. Composed.guardrail_flags = three
  <2>1. base = Assemble(features, scoring, activations, conflicts, ingest.prices,
                        ingest.globals, event_features)
    BY <1>1 DEF AnalysisInv, BaseInv
  <2>2. Composed.guardrail_flags =
           KeptFlags(base) \o When(sentiment_failed \/ narration = None, "degraded_run")
                           \o When(sentiment_failed, "sentiment_degraded")
                           \o When(narration = None, "synthesis_degraded")
    BY <2>1 DEF Composed, Compose, Assemble, When
  <2> QED
    BY <1>2, <1>8, <1>9, <1>10, <1>11, <1>12, <1>13, <2>2
<1>15. /\ one \in Seq(Flags) /\ NoRepeats(one)
       /\ Range(one) = Conflicts \cup (IF any THEN {d} ELSE {})
  <2>1. d \notin Range(kept)
    BY <1>3, <1>7
  <2>2. one = kept \o (IF any THEN <<d>> ELSE <<>>)
    BY <1>4, <1>11 DEF When
  <2> QED
    BY <1>3, <1>7, <2>1, <2>2, AddWhen
<1>16. /\ two \in Seq(Flags) /\ NoRepeats(two)
       /\ Range(two) = Range(one) \cup (IF sf THEN {s} ELSE {})
  <2>1. s \notin Range(one)
    BY <1>3, <1>7, <1>15
  <2>2. two = one \o (IF sf THEN <<s>> ELSE <<>>)
    BY <1>5, <1>12 DEF When
  <2>3. one \in Seq(Flags) /\ NoRepeats(one) /\ s \in Flags
    BY <1>7, <1>15
  <2> QED
    BY <2>1, <2>2, <2>3, AddWhen
<1>17. /\ three \in Seq(Flags) /\ NoRepeats(three)
       /\ Range(three) = Range(two) \cup (IF nf THEN {n} ELSE {})
  <2>1. n \notin Range(two)
    BY <1>3, <1>7, <1>15, <1>16
  <2>2. three = two \o (IF nf THEN <<n>> ELSE <<>>)
    BY <1>6, <1>13 DEF When
  <2>3. two \in Seq(Flags) /\ NoRepeats(two) /\ n \in Flags
    BY <1>7, <1>16
  <2> QED
    BY <2>1, <2>2, <2>3, AddWhen
<1>18. Range(three) = {Flag(code, None) : code \in FailureCodes} \cup Conflicts
  <2>1. Range(three) = Conflicts \cup (IF any THEN {d} ELSE {}) \cup (IF sf THEN {s} ELSE {})
                                 \cup (IF nf THEN {n} ELSE {})
    BY <1>15, <1>16, <1>17
  <2>2. FailureCodes = (IF sf THEN {"sentiment_degraded"} ELSE {})
                       \cup (IF nf THEN {"synthesis_degraded"} ELSE {})
                       \cup (IF any THEN {"degraded_run"} ELSE {})
    BY <1>8, <1>9, <1>10 DEF FailureCodes, Failed
  <2>3. {Flag(code, None) : code \in FailureCodes} =
           (IF any THEN {d} ELSE {}) \cup (IF sf THEN {s} ELSE {}) \cup (IF nf THEN {n} ELSE {})
    BY <1>4, <1>5, <1>6, <2>2
  <2> QED
    BY <2>1, <2>3
<1> QED
  BY <1>14, <1>15, <1>16, <1>17, <1>18

(* A run with nothing of a job that failed has its flag, and so its honesty *)
(* is not in doubt.                                                         *)
LEMMA ComposedHonest ==
  ASSUME AnalysisInv, stage = "done"
  PROVE  Shows(Composed) /\ CheckDegradedHonesty(Composed) = {}
<1>1. stage \in PastAssemble /\ stage \in PastRules
  BY StageNames
<1>2. /\ base = Assemble(features, scoring, activations, conflicts, ingest.prices,
                         ingest.globals, event_features)
  BY <1>1 DEF AnalysisInv, BaseInv
<1>3. /\ Composed.is_degraded = (sentiment_failed \/ narration = None)
      /\ Composed.regime = scoring.regime
  BY <1>2 DEF Composed, Compose, Assemble
<1>4. PICK doc : doc = Composed
  OBVIOUS
<1>5. /\ DOMAIN doc.assets = Assets
      /\ \A a \in Assets :
            doc.assets[a] =
               [Plain(a) EXCEPT !.scores.sentiment = IF Told(a) THEN sentiment[a] ELSE None,
                                !.summary = narration # None /\ a \in narration]
  BY <1>4, ComposedAssets
<1>6. Shows(Composed)
  <2>1. ASSUME NEW a \in Assets
        PROVE  /\ doc.assets[a].indicators = Plain(a).indicators
               /\ doc.assets[a].scores.trend = Plain(a).scores.trend
               /\ doc.assets[a].activated_rules = Plain(a).activated_rules
               /\ doc.assets[a].causal_links = Plain(a).causal_links
    <3>1. doc.assets[a] =
             [Plain(a) EXCEPT !.scores.sentiment = IF Told(a) THEN sentiment[a] ELSE None,
                              !.summary = narration # None /\ a \in narration]
      BY <1>5
    <3> QED
      BY <3>1 DEF Plain, AssembleAsset
  <2> QED
    BY <1>3, <1>4, <1>5, <2>1 DEF Shows
<1>7. ASSUME NEW a \in Assets
      PROVE  /\ sentiment_failed => doc.assets[a].scores.sentiment = None
             /\ narration = None => ~doc.assets[a].summary
  <2>1. doc.assets[a] =
           [Plain(a) EXCEPT !.scores.sentiment = IF Told(a) THEN sentiment[a] ELSE None,
                            !.summary = narration # None /\ a \in narration]
    BY <1>5
  <2>2. sentiment_failed => ~Told(a)
    BY DEF Told, sentiment_failed
  <2>3. doc.assets[a].scores.sentiment = IF Told(a) THEN sentiment[a] ELSE None
    BY <2>1 DEF Plain, AssembleAsset
  <2>4. doc.assets[a].summary = (narration # None /\ a \in narration)
    BY <2>1 DEF Plain, AssembleAsset
  <2> QED
    BY <2>2, <2>3, <2>4
<1>8. \A code : code \in Codes(doc) <=> code \in FailureCodes \/ (code = "rule_conflict" /\ Conflicts # {})
  <2>1. \A code : code \in Codes(doc) <=> \E f \in Range(doc.guardrail_flags) : f.code = code
    BY DEF Codes, Range
  <2>2. Range(doc.guardrail_flags) = {Flag(code, None) : code \in FailureCodes} \cup Conflicts
    BY <1>4, ComposedFlags
  <2>3. \A code : Flag(code, None).code = code
    BY DEF Flag
  <2>4. \A f \in Conflicts : f.code = "rule_conflict"
    BY DEF Conflicts, Flag
  <2> QED
    BY <2>1, <2>2, <2>3, <2>4
<1>9. /\ "sentiment_degraded" \in Codes(doc) <=> sentiment_failed
      /\ "synthesis_degraded" \in Codes(doc) <=> narration = None
  BY <1>8 DEF FailureCodes, Failed
<1>10. doc.is_degraded => Codes(doc) \cap {"sentiment_degraded", "synthesis_degraded"} # {}
  BY <1>3, <1>4, <1>9
<1>11. CheckDegradedHonesty(doc) = {}
  <2>1. ASSUME NEW a \in DOMAIN doc.assets,
               "sentiment_degraded" \in Codes(doc)
                  \/ (doc.is_degraded
                      /\ ~(Codes(doc) \cap {"sentiment_degraded", "synthesis_degraded"} # {}))
        PROVE  doc.assets[a].scores.sentiment = None
    BY <1>5, <1>7, <1>9, <1>10, <2>1
  <2>2. ASSUME NEW a \in DOMAIN doc.assets,
               "synthesis_degraded" \in Codes(doc)
                  \/ (doc.is_degraded
                      /\ ~(Codes(doc) \cap {"sentiment_degraded", "synthesis_degraded"} # {}))
        PROVE  ~doc.assets[a].summary
    BY <1>5, <1>7, <1>9, <1>10, <2>2
  <2> QED
    BY <2>1, <2>2, Zenon DEF CheckDegradedHonesty
<1> QED
  BY <1>4, <1>6, <1>11

LEMMA PublishedFlags ==
  ASSUME AnalysisInv, stage = "done"
  PROVE  published = TRUE /\ run.guardrail_flags = Composed.guardrail_flags
<1>1. stage \in PastRules
  BY StageNames
<1>2. Validate(Composed).flags = Composed.guardrail_flags /\ Validate(Composed).publish = TRUE
  BY <1>1, ComposedFlags, ComposedHonest, NothingFound
<1> QED
  BY <1>2, RunDocument

LEMMA GuardrailsSilentHere == AnalysisInv => GuardrailsSilent
<1> SUFFICES ASSUME AnalysisInv, stage = "done" PROVE GuardrailsSilent
  BY DEF GuardrailsSilent
<1>1. PICK flags : flags = run.guardrail_flags
  OBVIOUS
<1>2. /\ published /\ flags \in Seq(Flags) /\ NoRepeats(flags)
      /\ Range(flags) = {Flag(code, None) : code \in FailureCodes} \cup Conflicts
  BY <1>1, PublishedFlags, ComposedFlags
<1>3. Len(flags) = Cardinality(Range(flags))
  BY <1>2, CountOnce
<1>4. run.is_degraded = (Failed # {})
  BY RunDocument DEF Failed, sentiment_failed
<1> QED
  BY <1>1, <1>2, <1>3, <1>4 DEF GuardrailsSilent, Failed, FailureCodes, Conflicts

(* See GuardrailsSilent in OrchestratorProperties.                          *)
THEOREM NothingToFlag == Spec => []GuardrailsSilent
<1>1. AnalysisInv => GuardrailsSilent
  BY GuardrailsSilentHere
<1> QED
  BY <1>1, AnalysisInvariant, PTL


(* Only two directions oppose each other.                                   *)
LEMMA ConflictIsOpposition ==
  ASSUME NEW C, \A c \in C : c.effect \in RuleEffects
  PROVE  Conflict(C) <=> {"bullish", "bearish"} \subseteq TopDirections(C)
<1>1. PICK T : T = TopDirections(C)
  OBVIOUS
<1>2. T \subseteq {"bullish", "bearish"}
  BY <1>1 DEF TopDirections, RuleEffects, Directions
<1>3. \A x : IsFiniteSet({x}) /\ Cardinality({x}) = 1
  BY FS_Singleton
<1>4. CASE {"bullish", "bearish"} \subseteq T
  <2>1. T = {"bullish"} \cup {"bearish"}
    BY <1>2, <1>4
  <2>2. Cardinality({"bullish"} \cup {"bearish"}) = Cardinality({"bullish"}) + 1
    BY <1>3, FS_AddElement
  <2>3. Cardinality(T) = 2
    BY <1>3, <2>1, <2>2
  <2> QED
    BY <1>1, <1>4, <2>3 DEF Conflict
<1>5. CASE ~({"bullish", "bearish"} \subseteq T)
  <2>1. PICK x : T \subseteq {x}
    BY <1>2, <1>5
  <2>2. Cardinality(T) <= Cardinality({x}) /\ Cardinality(T) \in Nat
    BY <1>3, <2>1, FS_Subset, FS_CardinalityType
  <2>3. ~(Cardinality(T) > 1)
    BY <1>3, <2>2
  <2> QED
    BY <1>1, <1>5, <2>3 DEF Conflict
<1> QED
  BY <1>4, <1>5

(* A conflict is flagged for the assets that have one.                      *)
LEMMA ConflictFlagged ==
  ASSUME AnalysisInv, stage = "done", NEW a \in Assets
  PROVE  Flag("rule_conflict", a) \in Range(run.guardrail_flags) <=> a \in conflicts
<1>1. Range(run.guardrail_flags) = {Flag(code, None) : code \in FailureCodes} \cup Conflicts
  BY PublishedFlags, ComposedFlags
<1>2. "rule_conflict" \notin FailureCodes
  BY DEF FailureCodes, Failed
<1>3. Flag("rule_conflict", a) \notin {Flag(code, None) : code \in FailureCodes}
  BY <1>2 DEF Flag
<1>4. Flag("rule_conflict", a) \in Conflicts <=> a \in conflicts
  BY DEF Flag, Conflicts
<1> QED
  BY <1>1, <1>3, <1>4

LEMMA StrongestWinsHere == AnalysisInv => StrongestEffectWins
<1> SUFFICES ASSUME AnalysisInv, stage = "done", NEW a \in Assets
             PROVE  LET asset == run.assets[a]
                        flagged == Flag("rule_conflict", a) \in Range(run.guardrail_flags)
                        Opposed(strength) ==
                           {"bullish", "bearish"} \subseteq
                               {e.direction : e \in {x \in Effects(a) : x.strength = strength}}
                    IN  /\ Effects(a) = {} => asset.activated_rules = <<>> /\ ~flagged
                        /\ Effects(a) # {} =>
                              LET strength == asset.activated_rules[1].strength
                              IN  /\ \A e \in Effects(a) : ~Stronger(e, strength)
                                  /\ flagged <=> Opposed(strength)
                                  /\ flagged => asset.causal_links = <<>>
                                  /\ \A link \in Range(asset.causal_links) :
                                        \E e \in Effects(a) :
                                            e.strength = strength /\ e.direction = link.direction
  BY DEF StrongestEffectWins
<1>1. stage \in PastRules /\ run.regime.state = scoring.regime.state
  BY PublishedRules
<1>2. PICK C : C = Facing(a)
  OBVIOUS
<1>3. PICK E : E = Effects(a)
  OBVIOUS
<1>4. E = {c.effect : c \in C}
  BY <1>1, <1>2, <1>3 DEF Effects, Facing
<1>5. IsFiniteSet(C) /\ \A c \in C : c.effect \in RuleEffects /\ c.rule.id \in Int
  BY <1>2, CandidatesSound DEF Facing
<1>6. PICK flagged \in BOOLEAN :
         flagged <=> Flag("rule_conflict", a) \in Range(run.guardrail_flags)
  <2>1. (Flag("rule_conflict", a) \in Range(run.guardrail_flags)) \in BOOLEAN
    OBVIOUS
  <2> QED
    BY <2>1
<1>7. flagged <=> a \in conflicts
  BY <1>6, ConflictFlagged
<1>8. PICK links : links = run.assets[a].causal_links
  OBVIOUS
<1>9. PICK rules : rules = run.assets[a].activated_rules
  OBVIOUS
<1>10. CASE E = {}
  <2>1. C = {}
    BY <1>4, <1>10
  <2>2. a \notin DOMAIN activations /\ a \notin conflicts
    BY <1>1, <1>2, <2>1, ActivationOfWinner
  <2>3. rules = <<>>
    BY <1>9, <2>2, PublishedRules
  <2> QED
    BY <1>3, <1>6, <1>7, <1>9, <1>10, <2>2, <2>3
<1>11. CASE E # {}
  <2>1. C # {}
    BY <1>4, <1>11
  <2>2. PICK w : w = Winner(C)
    OBVIOUS
  <2>3. /\ a \in DOMAIN activations /\ (a \in conflicts <=> Conflict(C))
        /\ activations[a].strength = w.effect.strength
        /\ activations[a].direction = IF Conflict(C) THEN "neutral" ELSE w.effect.direction
    BY <1>1, <1>2, <2>1, <2>2, ActivationOfWinner
  <2>4. /\ w \in C
        /\ \A d \in C : \/ Rank[d.effect.strength] < Rank[w.effect.strength]
                        \/ d.effect.strength = w.effect.strength
    <3>1. \A c \in C : c.rule.id \in Int /\ c.effect.strength \in OrdinalLevels
      BY <1>5 DEF RuleEffects
    <3> QED
      BY <1>5, <2>1, <2>2, <3>1, WinnerIsStrongest
  <2>5. PICK strength : strength = rules[1].strength
    OBVIOUS
  <2>6. strength = w.effect.strength
    <3>1. rules = <<[rule |-> activations[a].rule, strength |-> activations[a].strength,
                     halvings |-> activations[a].halvings]>>
      BY <1>9, <2>3, PublishedRules
    <3> QED
      BY <2>3, <2>5, <3>1
  <2>7. \A e \in E : ~Stronger(e, strength)
    <3>1. ASSUME NEW d \in C PROVE ~(Rank[d.effect.strength] > Rank[strength])
      <4>1. d.effect.strength \in OrdinalLevels /\ strength \in OrdinalLevels
        BY <1>5, <2>4, <2>6 DEF RuleEffects
      <4>2. Rank[d.effect.strength] \in Int /\ Rank[strength] \in Int
        BY <4>1 DEF Rank, OrdinalLevels
      <4> QED
        BY <2>4, <2>6, <4>2
    <3> QED
      BY <1>4, <3>1 DEF Stronger
  <2>8. flagged <=> {"bullish", "bearish"} \subseteq
                       {e.direction : e \in {x \in E : x.strength = strength}}
    <3>1. TopDirections(C) =
             {e.direction : e \in {x \in E : x.strength = strength}} \ {"neutral"}
      BY <1>4, <2>2, <2>6 DEF TopDirections
    <3>2. Conflict(C) <=> {"bullish", "bearish"} \subseteq TopDirections(C)
      BY <1>5, ConflictIsOpposition
    <3> QED
      BY <1>7, <2>3, <3>1, <3>2
  <2>9. links = IF activations[a].direction # "neutral" THEN <<CausalLink(activations[a])>>
                ELSE <<>>
    BY <1>8, <2>3, PublishedRules
  <2>10. flagged => links = <<>>
    BY <1>7, <2>3, <2>9
  <2>11. ASSUME NEW link \in Range(links)
         PROVE  \E e \in E : e.strength = strength /\ e.direction = link.direction
    <3>1. Range(<<>>) = {}
      BY DEF Range
    <3>2. activations[a].direction # "neutral" /\ links = <<CausalLink(activations[a])>>
      BY <2>9, <2>11, <3>1
    <3>3. link = CausalLink(activations[a])
      BY <2>11, <3>2 DEF Range
    <3>4. link.direction = w.effect.direction
      BY <2>3, <3>2, <3>3 DEF CausalLink
    <3>5. w.effect \in E
      BY <1>4, <2>4
    <3> QED
      BY <2>6, <3>4, <3>5
  <2>12. /\ \A e \in E : ~Stronger(e, strength)
         /\ flagged <=> {"bullish", "bearish"} \subseteq
                           {e.direction : e \in {x \in E : x.strength = strength}}
         /\ flagged => links = <<>>
         /\ \A link \in Range(links) :
               \E e \in E : e.strength = strength /\ e.direction = link.direction
    BY <2>7, <2>8, <2>10, <2>11
  <2> QED
    BY ONLY <1>3, <1>6, <1>8, <1>9, <1>11, <2>5, <2>12
<1> QED
  BY <1>10, <1>11

(* See StrongestEffectWins in OrchestratorProperties.                       *)
THEOREM StrongestOfTheRules == Spec => []StrongestEffectWins
<1>1. AnalysisInv => StrongestEffectWins
  BY StrongestWinsHere
<1> QED
  BY <1>1, AnalysisInvariant, PTL


-----------------------------------------------------------------------------
(* The document is one of the contract.                                     *)

LEMMA VolatilityNumber ==
  ASSUME NEW f, IsFeatures(f)
  PROVE  Volatility(f) \in Optional(UnitRange)
<1>1. CASE f.atr = None
  BY <1>1 DEF Volatility, Optional
<1>2. CASE f.atr # None
  <2>1. PICK v \in Int : v = f.atr
    BY <1>2 DEF IsFeatures, Optional
  <2>2. v * 2 \in Int
    OBVIOUS
  <2>3. Volatility(f) = Unit(v * 2)
    BY <1>2, <2>1 DEF Volatility
  <2> QED
    BY <2>2, <2>3, UnitNumber DEF Optional
<1> QED
  BY <1>1, <1>2

LEMMA RiskNumber ==
  ASSUME NEW f, IsFeatures(f), NEW proximity \in Optional(Int)
  PROVE  RiskScore(f, proximity) \in UnitRange
<1>1. PICK x : x = Volatility(f)
  OBVIOUS
<1>2. PICK y : y = IF proximity = None THEN None
                   ELSE Unit(1000 - (Absolute(proximity) * 1000) \div 48)
  OBVIOUS
<1>3. PICK z : z = IF f.volume = None THEN None ELSE Unit((f.volume - 1000) \div 2)
  OBVIOUS
<1>4. x \in Optional(Int)
  BY <1>1, VolatilityNumber DEF Optional, UnitRange
<1>5. y \in Optional(Int)
  <2>1. CASE proximity = None
    BY <1>2, <2>1 DEF Optional
  <2>2. CASE proximity # None
    <3>1. proximity \in Int
      BY <2>2 DEF Optional
    <3>2. Absolute(proximity) \in Int
      BY <3>1 DEF Absolute
    <3>3. 1000 - (Absolute(proximity) * 1000) \div 48 \in Int
      BY <3>2
    <3>4. y \in UnitRange
      BY <1>2, <2>2, <3>3, UnitNumber
    <3> QED
      BY <3>4 DEF Optional, UnitRange
  <2> QED
    BY <2>1, <2>2
<1>6. z \in Optional(Int)
  <2>1. CASE f.volume = None
    BY <1>3, <2>1 DEF Optional
  <2>2. CASE f.volume # None
    <3>1. PICK v \in Int : v = f.volume
      BY <2>2 DEF IsFeatures, Optional
    <3>2. (v - 1000) \div 2 \in Int
      OBVIOUS
    <3>3. z \in UnitRange
      BY <1>3, <2>2, <3>1, <3>2, UnitNumber
    <3> QED
      BY <3>3 DEF Optional, UnitRange
  <2> QED
    BY <2>1, <2>2
<1>7. <<<<x, 50>>, <<y, 30>>, <<z, 20>>>> \in Seq(Optional(Int) \X Nat)
  BY <1>4, <1>5, <1>6
<1>8. WeightedMean(<<<<x, 50>>, <<y, 30>>, <<z, 20>>>>) \in Int
  BY <1>7, WeightedMeanNumber
<1>9. RiskScore(f, proximity) = Unit(WeightedMean(<<<<x, 50>>, <<y, 30>>, <<z, 20>>>>))
  BY <1>1, <1>2, <1>3 DEF RiskScore
<1> QED
  BY <1>8, <1>9, UnitNumber

LEMMA ConcordanceNumber ==
  ASSUME NEW pairs, NEW n \in Nat, n = Len(pairs), \A i \in 1..n : pairs[i][1] \in Int
  PROVE  Concordance(pairs) \in UnitRange
<1>1. CASE n < 2
  BY <1>1 DEF Concordance, UnitRange
<1>2. CASE ~(n < 2)
  <2>1. PICK sum : sum = Total([i \in 1..n |-> pairs[i][1]])
    OBVIOUS
  <2>2. sum \in Int
    <3>1. [i \in 1..n |-> pairs[i][1]] \in Seq(Int)
      OBVIOUS
    <3> QED
      BY <2>1, <3>1, TotalInt
  <2>3. PICK mean \in Int : mean = sum \div n
    BY <1>2, <2>2
  <2>4. PICK away : away = Total([i \in 1..n |-> Absolute(pairs[i][1] - mean)])
    OBVIOUS
  <2>5. away \in Int
    <3>1. ASSUME NEW i \in 1..n PROVE Absolute(pairs[i][1] - mean) \in Int
      <4>1. PICK v \in Int : v = pairs[i][1]
        OBVIOUS
      <4>2. v - mean \in Int
        OBVIOUS
      <4> QED
        BY <4>1, <4>2 DEF Absolute
    <3>2. [i \in 1..n |-> Absolute(pairs[i][1] - mean)] \in Seq(Int)
      BY <3>1
    <3> QED
      BY <2>4, <3>2, TotalInt
  <2>6. 1000 - away \div n \in Int
    BY <1>2, <2>5
  <2>7. Concordance(pairs) = Unit(1000 - away \div n)
    <3>1. Concordance(pairs) =
             IF n < 2 THEN 500
             ELSE Unit(1000 - Total([i \in 1..n |->
                                        Absolute(pairs[i][1] - Total([j \in 1..n |-> pairs[j][1]])
                                                                  \div n)]) \div n)
      BY DEF Concordance
    <3>2. mean = Total([i \in 1..n |-> pairs[i][1]]) \div n
      BY <2>1, <2>3
    <3> QED
      BY ONLY <1>2, <2>4, <3>1, <3>2
  <2> QED
    BY <2>6, <2>7, UnitNumber
<1> QED
  BY <1>1, <1>2

LEMMA ConfidenceNumber ==
  ASSUME NEW f, IsFeatures(f), NEW a
  PROVE  SystemConfidence(f, a) \in UnitRange
<1>1. PICK t : t = TrendSubsignals(f)
  OBVIOUS
<1>2. t \in Seq(Optional(SymmetricRange) \X (Nat \ {0})) /\ DOMAIN t = 1..5
  BY <1>1, SubsignalsTyped
<1> DEFINE K == {i \in DOMAIN t : t[i][1] # None}
<1>3. PICK signals : signals = Chosen(t, K)
  OBVIOUS
<1>4. /\ signals \in Seq(Optional(SymmetricRange) \X (Nat \ {0}))
      /\ \A i \in 1..Len(signals) : \E k \in K : signals[i] = t[k]
  <2>1. K \in SUBSET DOMAIN t
    OBVIOUS
  <2> HIDE DEF K
  <2> QED
    BY <1>2, <1>3, <2>1, ChosenTyped
<1>5. PICK n \in Nat : n = Len(signals)
  BY <1>4
<1>6. ASSUME NEW i \in 1..n PROVE signals[i][1] \in Int
  <2>1. PICK k \in K : signals[i] = t[k]
    BY <1>4, <1>5
  <2>2. k \in DOMAIN t /\ t[k][1] # None
    BY <2>1
  <2>3. t[k] \in Optional(SymmetricRange) \X (Nat \ {0})
    BY <1>2, <2>2
  <2>4. t[k][1] \in SymmetricRange
    BY <2>2, <2>3 DEF Optional
  <2>5. PICK v \in -1000..1000 : v = t[k][1]
    BY <2>4 DEF SymmetricRange
  <2> QED
    BY <2>1, <2>5
<1>7. PICK c : c = Concordance(signals)
  OBVIOUS
<1>8. c \in Int
  <2>1. \A i \in 1..n : signals[i][1] \in Int
    BY <1>6
  <2>2. c \in UnitRange
    BY <1>5, <1>7, <2>1, ConcordanceNumber
  <2> QED
    BY <2>2 DEF UnitRange
<1>9. PICK e \in Nat \ {0} : e = ExpectedSignals(a)
  BY DEF ExpectedSignals
<1>10. PICK u : u = Unit((n * 1000) \div e)
  OBVIOUS
<1>11. u \in Int
  <2>1. (n * 1000) \div e \in Int
    BY <1>5, <1>9
  <2> QED
    BY <1>10, <2>1, UnitNumber DEF UnitRange
<1>12. (u + c) \div 2 \in Int
  BY <1>8, <1>11
<1>13. Present(TrendSubsignals(f)) = signals
  BY <1>1, <1>3 DEF Present
<1>14. SystemConfidence(f, a) = Unit((u + c) \div 2)
  BY <1>5, <1>7, <1>9, <1>10, <1>13 DEF SystemConfidence
<1> QED
  BY <1>12, <1>14, UnitNumber

LEMMA HealthNumber ==
  ASSUME NEW f, IsFeatures(f), NEW trend \in SymmetricRange, NEW risk \in UnitRange,
         NEW s, s # None => s \in SymmetricRange
  PROVE  MarketHealthIndex(trend, risk, s, f) \in 0..100
<1>1. PICK x \in Int : x = (trend + 1000) \div 2
  BY DEF SymmetricRange
<1>2. PICK y \in Int : y = 1000 - risk
  BY DEF UnitRange
<1>3. PICK z : z = IF s = None THEN None ELSE (s + 1000) \div 2
  OBVIOUS
<1>4. PICK v : v = IF Volatility(f) = None THEN None ELSE 1000 - Volatility(f)
  OBVIOUS
<1>5. z \in Optional(Int)
  <2>1. CASE s = None
    BY <1>3, <2>1 DEF Optional
  <2>2. CASE s # None
    <3>1. s \in Int
      BY <2>2 DEF SymmetricRange
    <3> QED
      BY <1>3, <2>2, <3>1 DEF Optional
  <2> QED
    BY <2>1, <2>2
<1>6. v \in Optional(Int)
  <2>1. CASE Volatility(f) = None
    BY <1>4, <2>1 DEF Optional
  <2>2. CASE Volatility(f) # None
    <3>1. Volatility(f) \in Int
      BY <2>2, VolatilityNumber DEF Optional, UnitRange
    <3> QED
      BY <1>4, <2>2, <3>1 DEF Optional
  <2> QED
    BY <2>1, <2>2
<1>7. PICK health : health = <<<<x, 40>>, <<y, 35>>, <<z, 15>>, <<v, 10>>>>
  OBVIOUS
<1>8. health \in Seq(Optional(Int) \X Nat)
  <2>1. x \in Optional(Int) /\ y \in Optional(Int)
    BY DEF Optional
  <2> QED
    BY <1>5, <1>6, <1>7, <2>1
<1>9. WeightedMean(health) \in Int
  BY <1>8, WeightedMeanNumber
<1>10. PICK u \in 0..1000 : u = Unit(WeightedMean(health))
  BY <1>9, UnitNumber DEF UnitRange
<1>11. MarketHealthIndex(trend, risk, s, f) = (u + 5) \div 10
  BY <1>1, <1>2, <1>3, <1>4, <1>7, <1>10 DEF MarketHealthIndex
<1>12. (u + 5) \div 10 \in 0..100
  OBVIOUS
<1> QED
  BY <1>11, <1>12


(* A mean is between the bounds of what it is the mean of.                  *)
LEMMA MeanBetween ==
  ASSUME NEW f, NEW S, IsFiniteSet(S), NEW lo \in Int, NEW hi \in Int, lo <= 0, 0 <= hi,
         \A a \in S : f[a] \in lo..hi
  PROVE  Mean(f, S) \in Int /\ lo <= Mean(f, S) /\ Mean(f, S) <= hi
<1>1. CASE S = {}
  <2>1. Mean(f, S) = 0
    BY <1>1 DEF Mean
  <2> QED
    BY <2>1
<1>2. CASE S # {}
  <2>1. PICK n \in Nat : n = Cardinality(S)
    BY FS_CardinalityType
  <2>2. n # 0
    BY <1>2, <2>1, FS_EmptySet
  <2>3. PICK members : members = Listed(S)
    OBVIOUS
  <2>4. members \in [1..n -> S] /\ DOMAIN members = 1..n
    BY <2>1, <2>3, ListedOnce DEF Listed
  <2>5. PICK values : values = [i \in 1..n |-> f[members[i]]]
    OBVIOUS
  <2>6. ASSUME NEW i \in 1..n
        PROVE  values[i] \in Int /\ lo <= values[i] /\ values[i] <= hi
    <3>1. values[i] \in lo..hi
      BY <2>4, <2>5
    <3>2. PICK v \in lo..hi : v = values[i]
      BY <3>1
    <3> QED
      BY <3>2
  <2>7. values \in Seq(Int) /\ Len(values) = n
    BY <2>5, <2>6
  <2>8. PICK sum : sum = Total(values)
    OBVIOUS
  <2>9. sum \in Int /\ n * lo <= sum /\ sum <= n * hi
    BY <2>6, <2>7, <2>8, TotalBetween
  <2>10. n * lo = lo * n /\ n * hi = hi * n
    OBVIOUS
  <2>11. sum \div n \in Int /\ lo <= sum \div n /\ sum \div n <= hi
    BY <2>2, <2>9, <2>10, Division
  <2>12. Mean(f, S) = sum \div n
    <3>1. Mean(f, S) = Total([i \in DOMAIN members |-> f[members[i]]]) \div n
      BY <1>2, <2>1, <2>3 DEF Mean
    <3> QED
      BY ONLY <2>4, <2>5, <2>8, <3>1
  <2> QED
    BY <2>11, <2>12
<1> QED
  BY <1>1, <1>2

LEMMA MarginNumber ==
  ASSUME NEW trend \in Int, NEW risk \in Int, NEW state \in {"risk_off", "risk_on", "transition"}
  PROVE  BoundaryMargin(trend, risk, state) \in UnitRange
<1>1. \A x, y \in Int : Min({x, y}) \in Int
  BY MinOfTwo
<1>2. \A x \in Int : Absolute(x) \in Int
  BY DEF Absolute
<1>3. PICK p \in Int : p = risk - RiskHi
  BY DEF RiskHi
<1>4. PICK q \in Int : q = trend + TrendBand
  BY DEF TrendBand
<1>5. PICK r \in Int : r = risk - RiskLo
  BY DEF RiskLo
<1>6. PICK s \in Int : s = trend - TrendBand
  BY DEF TrendBand
<1>7. CASE state = "risk_off"
  <2>1. PICK x \in Int : x = -TrendBand - trend
    BY DEF TrendBand
  <2>2. (Min({p, x}) * 10) \div 4 \in Int
    BY <1>1
  <2>3. BoundaryMargin(trend, risk, state) = Unit((Min({p, x}) * 10) \div 4)
    BY <1>3, <1>7, <2>1 DEF BoundaryMargin
  <2> QED
    BY <2>2, <2>3, UnitNumber
<1>8. CASE state = "risk_on"
  <2>1. PICK x \in Int : x = RiskLo - risk
    BY DEF RiskLo
  <2>2. (Min({x, s}) * 10) \div 4 \in Int
    BY <1>1
  <2>3. BoundaryMargin(trend, risk, state) = Unit((Min({x, s}) * 10) \div 4)
    BY <1>6, <1>8, <2>1 DEF BoundaryMargin
  <2> QED
    BY <2>2, <2>3, UnitNumber
<1>9. CASE state = "transition"
  <2>1. PICK off \in Int : off = Min({Absolute(p), Absolute(q)})
    BY <1>1, <1>2
  <2>2. PICK on \in Int : on = Min({Absolute(r), Absolute(s)})
    BY <1>1, <1>2
  <2>3. (Min({off, on}) * 10) \div 3 \in Int
    BY <1>1
  <2>4. BoundaryMargin(trend, risk, state) = Unit((Min({off, on}) * 10) \div 3)
    BY <1>3, <1>4, <1>5, <1>6, <1>9, <2>1, <2>2 DEF BoundaryMargin
  <2> QED
    BY <2>3, <2>4, UnitNumber
<1> QED
  BY <1>7, <1>8, <1>9

(* Of the material events there is a strongest, and of equally strong ones  *)
(* one with the greatest id.                                                *)
LEMMA ActiveEventExists ==
  ASSUME NEW events \in Seq(Happened), MaterialEvents(events) # {}
  PROVE  ActiveMaterialEvent(events) \in MaterialEvents(events)
<1>1. PICK M : M = MaterialEvents(events)
  OBVIOUS
<1>2. IsFiniteSet(M) /\ M # {} /\ \A i \in M : events[i] \in Happened
  <2>1. PICK n \in Nat : n = Len(events) /\ DOMAIN events = 1..n
    OBVIOUS
  <2>2. IsFiniteSet(1..n) /\ M \subseteq 1..n
    BY <1>1, <2>1, FS_Interval DEF MaterialEvents
  <2>3. IsFiniteSet(M)
    BY <2>2, FS_Subset
  <2> QED
    BY <1>1, <2>1, <2>2, <2>3
<1>3. PICK size : size = [i \in M |-> Absolute(events[i].surprise)]
  OBVIOUS
<1>4. \A i \in M : size[i] = Absolute(events[i].surprise) /\ size[i] \in Int /\ events[i].id \in Int
  BY <1>2, <1>3 DEF Happened, Absolute
<1>5. PICK sizes : sizes = {size[i] : i \in M}
  OBVIOUS
<1>6. sizes \in SUBSET Int /\ IsFiniteSet(sizes) /\ sizes # {}
  <2>1. IsFiniteSet(sizes)
    BY <1>2, <1>5, ImageFinite
  <2> QED
    BY <1>2, <1>4, <1>5, <2>1
<1>7. PICK top \in sizes : \A x \in sizes : x <= top
  BY <1>6, Largest
<1>8. PICK T : T = {i \in M : size[i] = top}
  OBVIOUS
<1>9. PICK named : named = [i \in T |-> events[i].id]
  OBVIOUS
<1>10. PICK ids : ids = {named[i] : i \in T}
  OBVIOUS
<1>11. ids \in SUBSET Int /\ IsFiniteSet(ids) /\ ids # {}
  <2>1. IsFiniteSet(T)
    BY <1>2, <1>8, FS_Subset
  <2>2. IsFiniteSet(ids)
    BY <1>10, <2>1, ImageFinite
  <2>3. T # {}
    BY <1>5, <1>7, <1>8
  <2> QED
    BY <1>4, <1>8, <1>9, <1>10, <2>2, <2>3
<1>12. PICK last \in ids : \A x \in ids : x <= last
  BY <1>11, Largest
<1>13. PICK w \in T : events[w].id = last
  BY <1>9, <1>10, <1>12
<1>14. ASSUME NEW j \in M
       PROVE  \/ Absolute(events[j].surprise) < Absolute(events[w].surprise)
              \/ /\ Absolute(events[j].surprise) = Absolute(events[w].surprise)
                 /\ events[j].id <= events[w].id
  <2>1. size[j] <= top /\ size[w] = top /\ top \in Int /\ w \in M
    BY <1>5, <1>6, <1>7, <1>8, <1>13
  <2>2. CASE size[j] = top
    <3>1. events[j].id \in ids
      BY <1>8, <1>9, <1>10, <2>2
    <3> QED
      BY <1>4, <1>12, <1>13, <2>1, <2>2, <3>1
  <2>3. CASE size[j] # top
    BY <1>4, <2>1, <2>3
  <2> QED
    BY <2>2, <2>3
<1>15. \E i \in M : \A j \in M :
          \/ Absolute(events[j].surprise) < Absolute(events[i].surprise)
          \/ /\ Absolute(events[j].surprise) = Absolute(events[i].surprise)
             /\ events[j].id <= events[i].id
  BY <1>8, <1>13, <1>14
<1> QED
  BY <1>1, <1>15 DEF ActiveMaterialEvent

LEMMA RegimeTyped ==
  ASSUME NEW trend \in [Assets -> SymmetricRange], NEW risk \in [Assets -> UnitRange],
         NEW events \in Seq(Happened)
  PROVE  Classify(trend, risk, events, PreviousState) \in Regimes
<1>1. PICK S : S = Sensitive(Assets)
  OBVIOUS
<1>2. S \subseteq Assets /\ IsFiniteSet(S)
  <2>1. S \subseteq Assets
    BY <1>1 DEF Sensitive
  <2> QED
    BY <2>1, CoreDataAssumption, FS_Subset
<1>3. PICK at : at = Mean(trend, S)
  OBVIOUS
<1>4. PICK ar : ar = Mean(risk, S)
  OBVIOUS
<1>5. at \in SymmetricRange
  <2>1. \A a \in S : trend[a] \in SymmetricRange
    BY <1>2
  <2>2. PICK lo \in Int, hi \in Int : lo = -1000 /\ hi = 1000
    OBVIOUS
  <2>3. SymmetricRange = lo..hi /\ lo <= 0 /\ 0 <= hi
    BY <2>2 DEF SymmetricRange
  <2>4. \A a \in S : trend[a] \in lo..hi
    BY ONLY <2>1, <2>3
  <2>5. Mean(trend, S) \in Int /\ lo <= Mean(trend, S) /\ Mean(trend, S) <= hi
    BY <1>2, <2>3, <2>4, MeanBetween
  <2>6. at \in lo..hi
    BY <1>3, <2>5
  <2> QED
    BY ONLY <2>3, <2>6
<1>6. ar \in UnitRange
  <2>1. \A a \in S : risk[a] \in UnitRange
    BY <1>2
  <2>2. PICK lo \in Int, hi \in Int : lo = 0 /\ hi = 1000
    OBVIOUS
  <2>3. UnitRange = lo..hi /\ lo <= 0 /\ 0 <= hi
    BY <2>2 DEF UnitRange
  <2>4. \A a \in S : risk[a] \in lo..hi
    BY ONLY <2>1, <2>3
  <2>5. Mean(risk, S) \in Int /\ lo <= Mean(risk, S) /\ Mean(risk, S) <= hi
    BY <1>2, <2>3, <2>4, MeanBetween
  <2>6. ar \in lo..hi
    BY <1>4, <2>5
  <2> QED
    BY ONLY <2>3, <2>6
<1>7. PICK t \in -1000..1000 : t = at
  BY <1>5 DEF SymmetricRange
<1>8. PICK r \in 0..1000 : r = ar
  BY <1>6 DEF UnitRange
<1>9. PICK agreed \in Int : agreed = TrendConcordance(trend, S)
  <2>1. CASE S = {}
    BY <2>1 DEF TrendConcordance
  <2>2. CASE S # {}
    <3> DEFINE A == {a \in S : (trend[a] >= 0) = (Mean(trend, S) >= 0)}
    <3>1. A \in SUBSET S
      OBVIOUS
    <3>2. IsFiniteSet(A)
      <4> HIDE DEF A
      <4> QED
        BY <1>2, <3>1, FS_Subset
    <3>3. PICK n \in Nat : n = Cardinality(A)
      BY <3>2, FS_CardinalityType
    <3>4. PICK m \in Nat \ {0} : m = Cardinality(S)
      BY <1>2, <2>2, FS_CardinalityType, FS_EmptySet
    <3>5. (n * 1000) \div m \in Int
      OBVIOUS
    <3>6. TrendConcordance(trend, S) = (n * 1000) \div m
      BY <2>2, <3>3, <3>4 DEF TrendConcordance
    <3> QED
      BY <3>5, <3>6
  <2> QED
    BY <2>1, <2>2
<1>10. PICK driven \in BOOLEAN : driven <=> MaterialEvents(events) # {}
  <2>1. (MaterialEvents(events) # {}) \in BOOLEAN
    OBVIOUS
  <2> QED
    BY <2>1
<1>11. PICK state : state = IF driven THEN "event_driven" ELSE StateFromAggregates(at, ar)
  OBVIOUS
<1>12. /\ state \in RegimeStates
       /\ ~driven => state \in {"risk_off", "risk_on", "transition"}
  BY <1>11 DEF RegimeStates, StateFromAggregates
<1>13. PICK e : e = events[ActiveMaterialEvent(events)]
  OBVIOUS
<1>14. PICK margin : margin = IF driven
                              THEN Unit(((Absolute(e.surprise) - MaterialSurprise) * 1000)
                                           \div MaterialSurprise)
                              ELSE BoundaryMargin(at, ar, state)
  OBVIOUS
<1>15. margin \in UnitRange
  <2>1. CASE driven
    <3>1. ActiveMaterialEvent(events) \in DOMAIN events
      BY <1>10, <2>1, ActiveEventExists DEF MaterialEvents
    <3>2. e \in Happened
      BY <1>13, <3>1
    <3>3. PICK v \in Int : v = Absolute(e.surprise)
      BY <3>2 DEF Happened, Absolute
    <3>4. ((v - 5) * 1000) \div 5 \in Int
      OBVIOUS
    <3>5. margin = Unit(((v - 5) * 1000) \div 5)
      BY <1>14, <2>1, <3>3 DEF MaterialSurprise
    <3> QED
      BY <3>4, <3>5, UnitNumber
  <2>2. CASE ~driven
    <3>1. at \in Int /\ ar \in Int
      BY <1>7, <1>8
    <3> QED
      BY <1>12, <1>14, <2>2, <3>1, MarginNumber
  <2> QED
    BY <2>1, <2>2
<1>16. PICK m \in 0..1000 : m = margin
  BY <1>15 DEF UnitRange
<1>17. PICK confidence : confidence = Unit((margin + agreed) \div 2)
  OBVIOUS
<1>18. confidence \in UnitRange
  <2>1. (m + agreed) \div 2 \in Int
    OBVIOUS
  <2> QED
    BY <1>16, <1>17, <2>1, UnitNumber
<1> DEFINE drivers ==
             IF driven
             THEN <<[name |-> "event", weight |-> Unit(400 + (2 * margin) \div 5)]>>
             ELSE <<[name |-> "avg_trend", weight |-> (at + 1000) \div 2],
                    [name |-> "avg_risk", weight |-> ar]>>
           changed == state # PreviousState
<1>19. drivers \in Seq([name : {"event", "avg_trend", "avg_risk"}, weight : UnitRange])
  <2>1. CASE driven
    <3>1. 400 + (2 * m) \div 5 \in Int
      OBVIOUS
    <3>2. Unit(400 + (2 * margin) \div 5) \in UnitRange
      BY <1>16, <3>1, UnitNumber
    <3> QED
      BY <2>1, <3>2
  <2>2. CASE ~driven
    <3>1. (t + 1000) \div 2 \in 0..1000
      OBVIOUS
    <3>2. (at + 1000) \div 2 \in UnitRange
      BY <1>7, <3>1 DEF UnitRange
    <3> QED
      BY <1>6, <2>2, <3>2
  <2> QED
    BY <2>1, <2>2
<1>20. Classify(trend, risk, events, PreviousState) =
          [state |-> state, previous_state |-> PreviousState, changed_this_run |-> changed,
           confidence |-> confidence, drivers |-> drivers]
  <2>1. DOMAIN trend = Assets
    OBVIOUS
  <2> QED
    BY <1>1, <1>3, <1>4, <1>9, <1>10, <1>11, <1>13, <1>14, <1>17, <2>1 DEF Classify
<1>21. PreviousState \in Optional(RegimeStates)
  BY DEF PreviousState, Optional
<1> QED
  <2>1. changed \in BOOLEAN
    OBVIOUS
  <2> HIDE DEF drivers, changed
  <2> QED
    BY <1>12, <1>18, <1>19, <1>20, <1>21, <2>1 DEF Regimes


LEMMA SentimentInRange ==
  ASSUME AnalysisInv, stage \in PastScore, NEW a, Told(a)
  PROVE  sentiment[a] \in SymmetricRange
<1>1. stage \in PastSentiment /\ sentiment # None /\ a \in DOMAIN sentiment
  BY StageNames DEF Told
<1>2. PICK answer \in Sentiments : sentiment = OfEvidence(answer, sentiment_assets)
  BY <1>1 DEF AnalysisInv, SentimentInv
<1>3. PICK D : D = DOMAIN answer \cap sentiment_assets
  OBVIOUS
<1>4. sentiment = [x \in D |-> answer[x]]
  BY <1>2, <1>3 DEF OfEvidence, Restrict
<1>5. a \in DOMAIN answer /\ sentiment[a] = answer[a]
  BY <1>1, <1>3, <1>4
<1> QED
  BY <1>5, OrchestratorAssumption

(* Every score of a run is in its range.                                    *)
LEMMA ScoresInRange ==
  ASSUME AnalysisInv, stage \in PastScore
  PROVE  /\ scoring.trend \in [Assets -> SymmetricRange]
         /\ scoring.risk \in [Assets -> UnitRange]
         /\ \A a \in Assets : scoring.confidence[a] \in UnitRange
         /\ \A a \in Assets : scoring.mhi[a] \in 0..100
         /\ scoring.regime \in Regimes
<1>1. stage \in PastFeatures
  BY StageNames
<1>2. DOMAIN features = Assets /\ \A a \in Assets : IsFeatures(features[a])
  BY <1>1, RunFeatures
<1>3. event_features \in Seq(Happened)
  BY <1>1, RunEvents
<1>4. PICK near : near = [i \in DOMAIN event_features |-> Absolute(event_features[i].proximity)]
  OBVIOUS
<1>5. PICK proximities : proximities = {near[i] : i \in DOMAIN event_features}
  OBVIOUS
<1>6. proximities = {Absolute(event_features[i].proximity) : i \in DOMAIN event_features}
  BY <1>4, <1>5
<1>7. PICK nearest : nearest = IF proximities = {} THEN None ELSE Min(proximities)
  OBVIOUS
<1>8. nearest \in Optional(Int)
  <2>1. CASE proximities = {}
    BY <1>7, <2>1 DEF Optional
  <2>2. CASE proximities # {}
    <3>1. IsFiniteSet(DOMAIN event_features)
      <4>1. PICK n \in Nat : n = Len(event_features) /\ DOMAIN event_features = 1..n
        BY <1>3
      <4> QED
        BY <4>1, FS_Interval
    <3>2. IsFiniteSet(proximities)
      BY <1>5, <3>1, ImageFinite
    <3>3. proximities \in SUBSET Int
      <4>1. ASSUME NEW i \in DOMAIN event_features PROVE near[i] \in Int
        <5>1. event_features[i] \in Happened
          BY <1>3
        <5> QED
          BY <1>4, <5>1 DEF Happened, Absolute
      <4> QED
        BY <1>5, <4>1
    <3>4. Min(proximities) \in Int
      BY <2>2, <3>2, <3>3, MinIsSmallest
    <3> QED
      BY <1>7, <2>2, <3>4 DEF Optional
  <2> QED
    BY <2>1, <2>2
<1>9. PICK trend : trend = [a \in Assets |-> TrendScore(features[a])]
  OBVIOUS
<1>10. PICK risk : risk = [a \in Assets |-> RiskScore(features[a], nearest)]
  OBVIOUS
<1>11. trend \in [Assets -> SymmetricRange]
  BY <1>2, <1>9, TrendFollowsIndicators
<1>12. risk \in [Assets -> UnitRange]
  BY <1>2, <1>8, <1>10, RiskNumber
<1>13. scoring = Score(features, event_features, PreviousState, Scored)
  BY DEF AnalysisInv, ScoresInv, Scored
<1>14. scoring.trend = trend /\ scoring.risk = risk
  BY <1>2, <1>6, <1>7, <1>9, <1>10, <1>13 DEF Score
<1>15. scoring.regime = Classify(trend, risk, event_features, PreviousState)
  BY <1>2, <1>6, <1>7, <1>9, <1>10, <1>13 DEF Score
<1>16. scoring.confidence = [a \in Assets |-> SystemConfidence(features[a], a)]
  BY <1>2, <1>13 DEF Score
<1>17. ASSUME NEW a \in Assets PROVE scoring.mhi[a] \in 0..100
  <2>1. PICK s : s = IF a \in DOMAIN Scored THEN Scored[a] ELSE None
    OBVIOUS
  <2>2. scoring.mhi[a] = MarketHealthIndex(trend[a], risk[a], s, features[a])
    BY <1>2, <1>6, <1>7, <1>9, <1>10, <1>13, <2>1 DEF Score
  <2>3. s # None => s \in SymmetricRange
    <3>1. CASE sentiment = None
      BY <2>1, <3>1 DEF Scored
    <3>2. CASE sentiment # None
      <4>1. Scored = sentiment
        BY <3>2 DEF Scored
      <4>2. s # None => Told(a) /\ s = sentiment[a]
        BY <2>1, <3>2, <4>1 DEF Told
      <4> QED
        BY <4>2, SentimentInRange
    <3> QED
      BY <3>1, <3>2
  <2>4. trend[a] \in SymmetricRange /\ risk[a] \in UnitRange /\ IsFeatures(features[a])
    BY <1>2, <1>11, <1>12
  <2> QED
    BY <2>2, <2>3, <2>4, HealthNumber
<1> QED
  BY <1>2, <1>3, <1>11, <1>12, <1>14, <1>15, <1>16, <1>17, ConfidenceNumber, RegimeTyped

(* What an activation says.                                                 *)
LEMMA ActivationTyped ==
  ASSUME AnalysisInv, stage \in PastRules, NEW a \in DOMAIN activations
  PROVE  /\ activations[a].strength \in OrdinalLevels
         /\ activations[a].direction \in Directions
         /\ activations[a].halvings \in Nat
<1>1. PICK w : w = Winner(Facing(a))
  OBVIOUS
<1>2. /\ w \in Facing(a)
      /\ activations[a] = ToActivation(Facing(a), event_features)
      /\ activations[a].strength = w.effect.strength
      /\ activations[a].direction = IF Conflict(Facing(a)) THEN "neutral" ELSE w.effect.direction
  BY <1>1, ActivationOfWinner
<1>3. w.effect \in RuleEffects /\ w.rule \in Range(Rulebook)
  BY <1>2, CandidatesSound DEF Facing, Candidates, ToSet, Range
<1>4. activations[a].strength \in OrdinalLevels /\ activations[a].direction \in Directions
  BY <1>2, <1>3 DEF RuleEffects, Directions
<1>5. PICK life \in Nat \ {0} : life = w.rule.half_life
  BY <1>3, RulesAssumption DEF Loads, Range
<1>6. event_features \in Seq(Happened)
  BY StageNames, RunEvents
<1>7. PICK dated \in BOOLEAN : dated <=> w.rule.type \in Types(event_features)
  <2>1. (w.rule.type \in Types(event_features)) \in BOOLEAN
    OBVIOUS
  <2> QED
    BY <2>1
<1>8. PICK e : e = EventByType(event_features)[w.rule.type]
  OBVIOUS
<1>9. activations[a].halvings = IF ~dated THEN 0
                                ELSE (IF e.proximity < 0 THEN -e.proximity ELSE e.proximity) \div life
  BY <1>1, <1>2, <1>5, <1>7, <1>8 DEF ToActivation
<1>10. ASSUME dated PROVE e \in Happened
  <2> DEFINE those == {i \in DOMAIN event_features : event_features[i].type = w.rule.type}
  <2>1. those # {}
    BY <1>7, <1>10 DEF Types
  <2>2. IsFiniteSet(those) /\ those \in SUBSET Int
    <3>1. PICK n \in Nat : n = Len(event_features) /\ DOMAIN event_features = 1..n
      BY <1>6
    <3>2. IsFiniteSet(1..n) /\ those \subseteq 1..n
      BY <3>1, FS_Interval
    <3>3. those \in SUBSET Int
      BY <3>2
    <3> HIDE DEF those
    <3>4. IsFiniteSet(those)
      BY <3>2, FS_Subset
    <3> QED
      BY <3>3, <3>4
  <2>3. Max(those) \in those
    <3> HIDE DEF those
    <3> QED
      BY <2>1, <2>2, MaxIsLargest
  <2>4. e = event_features[Max(those)]
    BY <1>7, <1>8, <1>10 DEF EventByType, LastOf
  <2>5. Max(those) \in DOMAIN event_features
    BY <2>3
  <2> HIDE DEF those
  <2> QED
    BY <1>6, <2>4, <2>5
<1>11. activations[a].halvings \in Nat
  <2>1. CASE ~dated
    BY <1>9, <2>1
  <2>2. CASE dated
    <3>1. PICK p \in Int : p = e.proximity
      BY <1>10, <2>2 DEF Happened
    <3>2. (IF p < 0 THEN -p ELSE p) \div life \in Nat
      OBVIOUS
    <3> QED
      BY <1>9, <2>2, <3>1, <3>2
  <2> QED
    BY <2>1, <2>2
<1> QED
  BY <1>4, <1>11


LEMMA GlobalTyped ==
  ASSUME AnalysisInv, stage = "done"
  PROVE  IsGlobal(run.global)
<1>1. stage \in PastBegin
  BY StageNames
<1>2. PICK case \in Cases : IsCase(case) /\ ingest = Bundle(case, now)
  BY <1>1, RunBundle
<1>3. /\ ingest.globals.fear_greed \in Optional(0..100)
      /\ ingest.globals.total_market_cap \in Optional(Nat)
  BY <1>2 DEF Bundle, IsCase
<1>4. PICK v : v = IF ingest.globals.fear_greed = None THEN 50 ELSE ingest.globals.fear_greed
  OBVIOUS
<1>5. v \in 0..100
  BY <1>3, <1>4 DEF Optional
<1>6. FearGreedLabel(v) \in FearGreedLabels
  <2>1. PICK n \in 0..100 : n = v
    BY <1>5
  <2>2. FearGreedLabel(n) \in FearGreedLabels
    BY DEF FearGreedLabel, FearGreedLabels
  <2> QED
    BY <2>1, <2>2
<1>7. OrZero(ingest.globals.total_market_cap) \in Nat
  BY <1>3 DEF OrZero, Optional
<1>8. /\ run.global.fear_greed = v /\ run.global.label = FearGreedLabel(v)
      /\ run.global.total_market_cap = OrZero(ingest.globals.total_market_cap)
  BY <1>4, RunDocument DEF Global
<1> QED
  BY <1>5, <1>6, <1>7, <1>8 DEF IsGlobal

LEMMA IndicatorsTyped ==
  ASSUME NEW f, IsFeatures(f), NEW i, i = [y \in DOMAIN f \ {"changes"} |-> f[y]]
  PROVE  IsIndicators(i)
<1>1. i.rsi = f.rsi /\ i.macd = f.macd /\ i.ema = f.ema /\ i.atr = f.atr /\ i.volume = f.volume
  BY DEF IsFeatures
<1>2. i.rsi # None => i.rsi \in RsiRange
  BY <1>1 DEF IsFeatures, Optional
<1>3. i.macd \in Optional(MacdStates) /\ i.ema \in Optional(EmaStates)
  BY <1>1 DEF IsFeatures
<1>4. i.atr # None => i.atr \in Nat
  BY <1>1 DEF IsFeatures, Optional
<1>5. i.volume # None => i.volume \in Nat
  BY <1>1 DEF IsFeatures, Optional
<1> QED
  BY <1>2, <1>3, <1>4, <1>5 DEF IsIndicators

LEMMA AssetTyped ==
  ASSUME AnalysisInv, stage = "done", NEW a \in Assets
  PROVE  IsAsset(run.assets[a])
<1>1. stage \in PastBegin /\ stage \in PastFeatures /\ stage \in PastScore /\ stage \in PastRules
  BY StageNames
<1>2. PICK x : x = run.assets[a]
  OBVIOUS
<1>3. x = [Plain(a) EXCEPT !.scores.sentiment = IF Told(a) THEN sentiment[a] ELSE None,
                           !.summary = narration # None /\ a \in narration]
  BY <1>2, ComposedAssets
<1>4. /\ x.price = Plain(a).price /\ x.changes = Plain(a).changes
      /\ x.indicators = Plain(a).indicators
      /\ x.market_health_index = Plain(a).market_health_index
      /\ x.activated_rules = Plain(a).activated_rules
      /\ x.causal_links = Plain(a).causal_links
      /\ x.data_gaps = Plain(a).data_gaps
  BY <1>3 DEF Plain, AssembleAsset
<1>5. x.summary = (narration # None /\ a \in narration)
  BY <1>3 DEF Plain, AssembleAsset
<1>6. /\ x.scores.trend = scoring.trend[a] /\ x.scores.risk = scoring.risk[a]
      /\ x.scores.confidence = scoring.confidence[a]
      /\ x.scores.sentiment = IF Told(a) THEN sentiment[a] ELSE None
  BY <1>3 DEF Plain, AssembleAsset
<1>7. x.price.value \in Nat
  <2>1. PICK case \in Cases : IsCase(case) /\ ingest = Bundle(case, now)
    BY <1>1, RunBundle
  <2>2. ingest.prices[a] \in Optional(Snapshots)
    BY <2>1 DEF Bundle, IsCase
  <2>3. Price(ingest.prices[a]).value \in Nat
    BY <2>2 DEF Price, Optional, Snapshots
  <2> QED
    BY <1>4, <2>3, PlainAsset
<1>8. PICK f : f = features[a]
  OBVIOUS
<1>9. IsFeatures(f)
  BY <1>1, <1>8, RunFeatures
<1>10. x.changes \in [Horizons -> Int]
  <2>1. x.changes = [h \in Horizons |-> OrZero(f.changes[h])]
    <3>1. Plain(a).changes = [h \in Horizons |-> OrZero(features[a].changes[h])]
      BY PlainAsset
    <3> QED
      BY ONLY <1>4, <1>8, <3>1
  <2>2. ASSUME NEW h \in Horizons PROVE OrZero(f.changes[h]) \in Int
    BY <1>9 DEF IsFeatures, OrZero, Optional
  <2> QED
    BY <2>1, <2>2
<1>11. IsIndicators(x.indicators)
  <2>1. x.indicators = [y \in DOMAIN f \ {"changes"} |-> f[y]]
    <3>1. Plain(a).indicators = [y \in DOMAIN features[a] \ {"changes"} |-> features[a][y]]
      BY PlainAsset
    <3> QED
      BY ONLY <1>4, <1>8, <3>1
  <2> QED
    BY <1>9, <2>1, IndicatorsTyped
<1>12. IsScores(x.scores)
  <2>1. /\ x.scores.trend \in SymmetricRange /\ x.scores.risk \in UnitRange
        /\ x.scores.confidence \in UnitRange
    BY <1>1, <1>6, ScoresInRange
  <2>2. x.scores.sentiment # None => x.scores.sentiment \in SymmetricRange
    BY <1>1, <1>6, SentimentInRange
  <2> QED
    BY <2>1, <2>2 DEF IsScores
<1>13. x.market_health_index \in 0..100
  BY <1>1, <1>4, PlainAsset, ScoresInRange
<1>14. /\ \A i \in DOMAIN x.activated_rules :
            x.activated_rules[i].strength \in OrdinalLevels /\ x.activated_rules[i].halvings \in Nat
       /\ \A i \in DOMAIN x.causal_links : x.causal_links[i].direction \in Directions
  <2>1. CASE a \notin DOMAIN activations
    <3>1. x.activated_rules = <<>> /\ x.causal_links = <<>>
      BY <1>2, <2>1, PublishedRules
    <3> QED
      BY <3>1
  <2>2. CASE a \in DOMAIN activations
    <3>1. /\ activations[a].strength \in OrdinalLevels
          /\ activations[a].direction \in Directions
          /\ activations[a].halvings \in Nat
      BY <1>1, <2>2, ActivationTyped
    <3>2. x.activated_rules =
             <<[rule |-> activations[a].rule, strength |-> activations[a].strength,
                halvings |-> activations[a].halvings]>>
      BY <1>2, <2>2, PublishedRules
    <3>3. \/ x.causal_links = <<CausalLink(activations[a])>>
          \/ x.causal_links = <<>>
      BY <1>2, <2>2, PublishedRules
    <3>4. CausalLink(activations[a]).direction \in Directions
      BY <3>1 DEF CausalLink
    <3> QED
      BY <3>1, <3>2, <3>3, <3>4
  <2> QED
    BY <2>1, <2>2
<1>15. x.data_gaps \subseteq Horizons
  <2>1. Plain(a).data_gaps = DataGaps(a, features[a].changes)
    BY PlainAsset
  <2>2. DataGaps(a, features[a].changes) \subseteq Horizons
    BY DEF DataGaps
  <2> QED
    BY <1>4, <2>1, <2>2
<1>16. x.summary \in BOOLEAN
  BY <1>5
<1> QED
  BY <1>2, <1>7, <1>10, <1>11, <1>12, <1>13, <1>14, <1>15, <1>16 DEF IsAsset

LEMMA DocumentTyped ==
  ASSUME AnalysisInv, stage = "done"
  PROVE  IsMarketStateRun(run) /\ run.regime.state \in RegimeStates
<1>1. run.is_degraded \in BOOLEAN
  BY RunDocument
<1>2. run.regime \in Regimes
  BY StageNames, ScoresInRange, RunDocument
<1>3. run.regime.state \in RegimeStates
  BY <1>2 DEF Regimes
<1> QED
  BY <1>1, <1>2, <1>3, RunDocument, AssetTyped, GlobalTyped DEF IsMarketStateRun

RegimeKept == last_regime \in Optional(RegimeStates)

LEMMA RegimeKeptStep == AnalysisInv /\ RegimeKept /\ [Next]_vars => RegimeKept'
<1> SUFFICES ASSUME AnalysisInv, RegimeKept, [Next]_vars PROVE RegimeKept'
  OBVIOUS
<1>1. CASE Finish
  <2>1. stage = "done" /\ last_regime' = run.regime.state
    BY <1>1 DEF Finish, At
  <2> QED
    BY <2>1, DocumentTyped DEF RegimeKept, Optional
<1>2. CASE ~Finish
  <2>1. last_regime' = last_regime
    BY <1>2 DEF Next, vars, Tick, Begin, ComputeFeatures, WeighNews, AskSentiment, ScoreRun,
                MatchRules, AssembleBase, AskSynthesis, ComposeRun
  <2> QED
    BY <2>1 DEF RegimeKept
<1> QED
  BY <1>1, <1>2

LEMMA TypeOKHere == AnalysisInv /\ RegimeKept => TypeOK
<1> SUFFICES ASSUME AnalysisInv, RegimeKept PROVE TypeOK
  OBVIOUS
<1>1. stage # "done" => run = None /\ published = FALSE
  BY StageNames DEF AnalysisInv, RunInv
<1>2. stage = "done" => IsMarketStateRun(run)
  BY DocumentTyped
<1> QED
  BY <1>1, <1>2 DEF TypeOK, RegimeKept, AnalysisInv

(* See TypeOK in OrchestratorProperties.                                    *)
THEOREM DocumentsOfTheContract == Spec => []TypeOK
<1>1. Init => RegimeKept
  BY DEF Init, RegimeKept, Optional
<1>2. AnalysisInv /\ RegimeKept /\ [Next]_vars => RegimeKept'
  BY RegimeKeptStep
<1>3. AnalysisInv /\ RegimeKept => TypeOK
  BY TypeOKHere
<1> QED
  BY <1>1, <1>2, <1>3, AnalysisInvariant, PTL DEF Spec


-----------------------------------------------------------------------------
(* The news: what is collected of the titled entries of the feeds.          *)

Sources == {Feeds[f].source : f \in DOMAIN Feeds}
Items == [id : Int, source : Sources, tags : SUBSET Assets, published : Int, text : Texts]
TitledEntries == {x \in [entry : Entries, feed : Range(Feeds)] : x.entry.id # None}

\* What the parser makes of an entry of a feed.
Article(x, at) ==
    [id |-> x.entry.id, source |-> x.feed.source, tags |-> x.feed.tags,
     published |-> PublishedAt(x.entry, at), text |-> x.entry.text]

LEMMA ArticleTyped ==
  ASSUME NEW x \in TitledEntries, NEW at \in Int
  PROVE  /\ Article(x, at) \in Items
         /\ x.entry.id \in Int /\ PublishedAt(x.entry, at) \in Int /\ x.entry.text.length \in Nat
<1>1. x.entry \in Entries /\ x.feed \in Range(Feeds) /\ x.entry.id # None
  BY DEF TitledEntries
<1>2. PICK f \in DOMAIN Feeds : x.feed = Feeds[f]
  BY <1>1 DEF Range
<1>3. x.feed.source \in Sources /\ x.feed.tags \in SUBSET Assets
  BY <1>2, NewsAssumption DEF Sources
<1>4. /\ x.entry.id \in Int /\ x.entry.at \in Optional(Int)
      /\ x.entry.text \in Texts
  BY <1>1 DEF Entries, Optional
<1>5. PublishedAt(x.entry, at) \in Int
  BY <1>4 DEF PublishedAt, Optional
<1>6. x.entry.text.length \in Nat
  BY <1>4 DEF Texts
<1> QED
  BY <1>3, <1>4, <1>5, <1>6 DEF Article, Items

LEMMA MergeDuplicateIs ==
  ASSUME NEW item \in Items, NEW other \in Items
  PROVE  /\ MergeDuplicate(item, other) \in Items
         /\ MergeDuplicate(item, other).id = item.id
         /\ MergeDuplicate(item, other).tags = item.tags \cup other.tags
         /\ MergeDuplicate(item, other).published =
               IF item.published <= other.published THEN item.published ELSE other.published
         /\ MergeDuplicate(item, other).text =
               IF other.text.length > item.text.length THEN other.text ELSE item.text
<1>1. PICK m : m = MergeDuplicate(item, other)
  OBVIOUS
<1>2. PICK p : p = Min({item.published, other.published})
  OBVIOUS
<1>3. PICK t : t = IF other.text.length > item.text.length THEN other.text ELSE item.text
  OBVIOUS
<1>4. m = [item EXCEPT !.tags = item.tags \cup other.tags, !.published = p, !.text = t]
  BY <1>1, <1>2, <1>3 DEF MergeDuplicate
<1>5. /\ item.id \in Int /\ item.source \in Sources
      /\ item.tags \in SUBSET Assets /\ other.tags \in SUBSET Assets
      /\ item.published \in Int /\ other.published \in Int
      /\ item.text \in Texts /\ other.text \in Texts
      /\ item = [id |-> item.id, source |-> item.source, tags |-> item.tags,
                 published |-> item.published, text |-> item.text]
  BY DEF Items
<1>6. /\ p = (IF item.published <= other.published THEN item.published ELSE other.published)
      /\ p \in Int
  BY <1>2, <1>5, MinOfTwo
<1>7. m = [id |-> item.id, source |-> item.source, tags |-> item.tags \cup other.tags,
           published |-> p, text |-> t]
  BY <1>4, <1>5
<1>8. t \in Texts
  BY <1>3, <1>5
<1>9. item.tags \cup other.tags \in SUBSET Assets
  BY <1>5
<1>10. m \in Items
  BY <1>5, <1>6, <1>7, <1>8, <1>9 DEF Items
<1> QED
  BY <1>1, <1>3, <1>6, <1>7, <1>10

\* What an item has of the copies C of the article.
Made(item, C, at) ==
    /\ item \in Items
    /\ \A x \in C : /\ x.entry.id = item.id
                    /\ item.published <= PublishedAt(x.entry, at)
                    /\ item.text.length >= x.entry.text.length
    /\ item.tags = UNION {x.feed.tags : x \in C}
    /\ \E x \in C : item.published = PublishedAt(x.entry, at)

LEMMA ArticleMade ==
  ASSUME NEW x \in TitledEntries, NEW at \in Int
  PROVE  Made(Article(x, at), {x}, at)
<1>1. PICK n \in Nat : n = x.entry.text.length
  BY ArticleTyped
<1>2. PICK p \in Int : p = PublishedAt(x.entry, at)
  BY ArticleTyped
<1>3. /\ Article(x, at).id = x.entry.id /\ Article(x, at).tags = x.feed.tags
      /\ Article(x, at).published = p /\ Article(x, at).text = x.entry.text
  BY <1>2 DEF Article
<1>4. x.feed.tags = UNION {y.feed.tags : y \in {x}}
  OBVIOUS
<1> QED
  BY <1>1, <1>2, <1>3, <1>4, ArticleTyped DEF Made

LEMMA MergeMade ==
  ASSUME NEW at \in Int, NEW C \in SUBSET TitledEntries, NEW item, Made(item, C, at),
         NEW x \in TitledEntries, x.entry.id = item.id
  PROVE  Made(MergeDuplicate(item, Article(x, at)), C \cup {x}, at)
<1>1. PICK m : m = MergeDuplicate(item, Article(x, at))
  OBVIOUS
<1>2. PICK other : other = Article(x, at)
  OBVIOUS
<1>3. /\ other \in Items /\ other.tags = x.feed.tags
      /\ other.published = PublishedAt(x.entry, at) /\ other.text = x.entry.text
  BY <1>2, ArticleTyped DEF Article
<1>4. item \in Items
  BY DEF Made
<1>5. /\ m \in Items /\ m.id = item.id /\ m.tags = item.tags \cup other.tags
      /\ m.published = IF item.published <= other.published THEN item.published ELSE other.published
      /\ m.text = IF other.text.length > item.text.length THEN other.text ELSE item.text
  BY <1>1, <1>2, <1>3, <1>4, MergeDuplicateIs
<1>6. PICK p \in Int, q \in Int : p = item.published /\ q = other.published
  BY <1>3, <1>4 DEF Items
<1>7. PICK k \in Nat, l \in Nat : k = item.text.length /\ l = other.text.length
  BY <1>3, <1>4 DEF Items, Texts
<1>8. m.published <= p /\ m.published <= q /\ m.published \in {p, q}
  BY <1>5, <1>6
<1>9. m.text.length \in Nat /\ m.text.length >= k /\ m.text.length >= l
  BY <1>5, <1>7
<1>10. ASSUME NEW y \in C \cup {x}
       PROVE  /\ y.entry.id = m.id
              /\ m.published <= PublishedAt(y.entry, at)
              /\ m.text.length >= y.entry.text.length
  <2>1. CASE y = x
    BY <1>3, <1>5, <1>6, <1>7, <1>8, <1>9, <2>1
  <2>2. CASE y # x
    <3>1. y \in C /\ y \in TitledEntries
      BY <2>2
    <3>2. PICK r \in Int : r = PublishedAt(y.entry, at)
      BY <3>1, ArticleTyped
    <3>3. PICK n \in Nat : n = y.entry.text.length
      BY <3>1, ArticleTyped
    <3>4. y.entry.id = item.id /\ p <= r /\ k >= n
      BY <1>6, <1>7, <3>1, <3>2, <3>3 DEF Made
    <3>5. m.published <= r /\ m.text.length >= n
      BY <1>8, <1>9, <3>4
    <3> QED
      BY <1>5, <3>2, <3>3, <3>4, <3>5
  <2> QED
    BY <2>1, <2>2
<1>11. m.tags = UNION {y.feed.tags : y \in C \cup {x}}
  <2>1. item.tags = UNION {y.feed.tags : y \in C}
    BY DEF Made
  <2>2. ASSUME NEW t
        PROVE  t \in UNION {y.feed.tags : y \in C \cup {x}}
                  <=> t \in item.tags \/ t \in x.feed.tags
    <3>1. t \in UNION {y.feed.tags : y \in C \cup {x}} <=> \E y \in C \cup {x} : t \in y.feed.tags
      OBVIOUS
    <3>2. t \in item.tags <=> \E y \in C : t \in y.feed.tags
      BY <2>1
    <3> QED
      BY <3>1, <3>2
  <2>3. m.tags = item.tags \cup x.feed.tags
    BY <1>3, <1>5
  <2> QED
    BY <2>2, <2>3
<1>12. \E y \in C \cup {x} : m.published = PublishedAt(y.entry, at)
  <2>1. PICK y \in C : p = PublishedAt(y.entry, at)
    BY <1>6 DEF Made
  <2> QED
    BY <1>3, <1>6, <1>8, <2>1
<1> QED
  BY <1>1, <1>5, <1>10, <1>11, <1>12 DEF Made


Collections == UNION {[D -> Items] : D \in SUBSET Int}
Copies(X, id) == {x \in X : x.entry.id = id}

\* What is collected of the copies X: an item for each of their articles.
Knows(collected, X, at) ==
    /\ IsFiniteSet(DOMAIN collected)
    /\ DOMAIN collected = {x.entry.id : x \in X}
    /\ \A id \in DOMAIN collected :
          collected[id].id = id /\ Made(collected[id], Copies(X, id), at)

LEMMA CollectTyped ==
  ASSUME NEW c \in Collections, NEW item \in Items
  PROVE  Collect(c, item) \in Collections
<1>1. PICK D \in SUBSET Int : c \in [D -> Items]
  BY DEF Collections
<1>2. item.id \in Int
  BY DEF Items
<1>3. PICK E \in SUBSET Int : E = D \cup {item.id}
  BY <1>2
<1>4. Collect(c, item) = [id \in E |-> IF id # item.id THEN c[id]
                                       ELSE IF id \in D THEN MergeDuplicate(c[id], item) ELSE item]
  BY <1>1, <1>3 DEF Collect
<1>5. ASSUME NEW id \in E
      PROVE  (IF id # item.id THEN c[id]
              ELSE IF id \in D THEN MergeDuplicate(c[id], item) ELSE item) \in Items
  <2>1. CASE id # item.id
    BY <1>1, <1>3, <2>1
  <2>2. CASE id = item.id /\ id \in D
    <3>1. c[id] \in Items
      BY <1>1, <2>2
    <3>2. MergeDuplicate(c[id], item) \in Items
      BY <3>1, MergeDuplicateIs
    <3> QED
      BY <2>2, <3>2
  <2>3. CASE id = item.id /\ id \notin D
    BY <2>3
  <2> QED
    BY <2>1, <2>2, <2>3
<1>6. Collect(c, item) \in [E -> Items]
  BY <1>4, <1>5
<1> QED
  BY <1>6 DEF Collections

LEMMA CollectKnows ==
  ASSUME NEW at \in Int, NEW X \in SUBSET TitledEntries, NEW x \in TitledEntries,
         NEW c \in Collections, Knows(c, X, at)
  PROVE  Knows(Collect(c, Article(x, at)), X \cup {x}, at)
<1>1. PICK item : item = Article(x, at)
  OBVIOUS
<1>2. item \in Items /\ item.id = x.entry.id
  BY <1>1, ArticleTyped DEF Article
<1>3. PICK d : d = Collect(c, item)
  OBVIOUS
<1>4. d = [id \in DOMAIN c \cup {item.id} |->
              IF id # item.id THEN c[id]
              ELSE IF id \in DOMAIN c THEN MergeDuplicate(c[id], item) ELSE item]
  BY <1>3 DEF Collect
<1>5. DOMAIN d = DOMAIN c \cup {x.entry.id}
  BY <1>2, <1>4
<1>6. IsFiniteSet(DOMAIN d)
  <2>1. IsFiniteSet(DOMAIN c)
    BY DEF Knows
  <2>2. IsFiniteSet(DOMAIN c \cup {x.entry.id})
    BY <2>1, FS_AddElement
  <2> QED
    BY <1>5, <2>2
<1>7. DOMAIN d = {y.entry.id : y \in X \cup {x}}
  <2>1. DOMAIN c = {y.entry.id : y \in X}
    BY DEF Knows
  <2> QED
    BY <1>5, <2>1
<1>8. ASSUME NEW id \in DOMAIN d
      PROVE  d[id].id = id /\ Made(d[id], Copies(X \cup {x}, id), at)
  <2>1. CASE id # item.id
    <3>1. id \in DOMAIN c /\ d[id] = c[id]
      BY <1>2, <1>4, <1>5, <2>1
    <3>2. Copies(X \cup {x}, id) = Copies(X, id)
      BY <1>2, <2>1 DEF Copies
    <3>3. c[id].id = id /\ Made(c[id], Copies(X, id), at)
      BY <3>1 DEF Knows
    <3> QED
      BY <3>1, <3>2, <3>3
  <2>2. CASE id = item.id /\ id \in DOMAIN c
    <3>1. d[id] = MergeDuplicate(c[id], item)
      BY <1>4, <2>2
    <3>2. c[id].id = id /\ Made(c[id], Copies(X, id), at)
      BY <2>2 DEF Knows
    <3>3. Copies(X \cup {x}, id) = Copies(X, id) \cup {x}
      BY <1>2, <2>2 DEF Copies
    <3>4. Copies(X, id) \in SUBSET TitledEntries
      BY DEF Copies
    <3>5. x.entry.id = c[id].id
      BY <1>2, <2>2, <3>2
    <3>6. Made(MergeDuplicate(c[id], item), Copies(X, id) \cup {x}, at)
      BY <1>1, <3>2, <3>4, <3>5, MergeMade
    <3>7. MergeDuplicate(c[id], item).id = c[id].id
      BY <1>2, <3>2, MergeDuplicateIs DEF Made
    <3> QED
      BY <3>1, <3>2, <3>3, <3>6, <3>7
  <2>3. CASE id = item.id /\ id \notin DOMAIN c
    <3>1. d[id] = item
      BY <1>2, <1>4, <1>5, <2>3
    <3>2. \A y \in X : y.entry.id # id
      BY <2>3 DEF Knows
    <3>3. Copies(X \cup {x}, id) = {x}
      BY <1>2, <2>3, <3>2 DEF Copies
    <3>4. Made(item, {x}, at)
      BY <1>1, ArticleMade
    <3> QED
      BY <2>3, <3>1, <3>3, <3>4
  <2> QED
    BY <2>1, <2>2, <2>3
<1> QED
  BY <1>1, <1>3, <1>6, <1>7, <1>8 DEF Knows

(* A batch is collected one item after the other.                           *)
LEMMA CollectAllSteps ==
  ASSUME NEW c \in Collections, NEW batch \in Seq(Items)
  PROVE  \E after \in [0..Len(batch) -> Collections] :
            /\ after[0] = c
            /\ \A i \in 1..Len(batch) : after[i] = Collect(after[i - 1], batch[i])
            /\ CollectAll(c, batch) = after[Len(batch)]
<1>1. PICK n \in Nat : n = Len(batch) /\ DOMAIN batch = 1..n
  OBVIOUS
<1> DEFINE Steps(g) == g = [i \in 0..n |-> IF i = 0 THEN c ELSE Collect(g[i - 1], batch[i])]
           F == [i \in 1..n |-> [d \in Collections |-> Collect(d, batch[i])]]
<1>2. F \in [1..n -> [Collections -> Collections]]
  <2>1. ASSUME NEW i \in 1..n, NEW d \in Collections PROVE Collect(d, batch[i]) \in Collections
    BY <1>1, CollectTyped
  <2> QED
    BY <2>1
<1>3. ASSUME NEW i \in 1..n, NEW d \in Collections PROVE F[i][d] = Collect(d, batch[i])
  OBVIOUS
<1> HIDE DEF F
<1>4. PICK g \in [0..n -> Collections] : Follows(g, 0, n, c, F)
  <2>1. PICK lo \in Int, hi \in Int : lo = 0 /\ hi = n /\ lo <= hi
    OBVIOUS
  <2>2. F \in [(lo + 1)..hi -> [Collections -> Collections]]
    BY <1>2, <2>1
  <2>3. \E g \in [lo..hi -> Collections] : Follows(g, lo, hi, c, F)
    BY <2>1, <2>2, RecursionExists
  <2> QED
    BY <2>1, <2>3
<1>5. g[0] = c /\ \A i \in 1..n : g[i] = Collect(g[i - 1], batch[i])
  <2>1. g[0] = c
    BY <1>4 DEF Follows
  <2>2. ASSUME NEW i \in 1..n PROVE g[i] = Collect(g[i - 1], batch[i])
    <3>1. i - 1 \in 0..n /\ i \in (0 + 1)..n
      OBVIOUS
    <3>2. g[i - 1] \in Collections
      BY <3>1
    <3>3. g[i] = F[i][g[i - 1]]
      BY <1>4, <3>1 DEF Follows
    <3> QED
      BY <1>3, <3>2, <3>3
  <2> QED
    BY <2>1, <2>2
<1>6. Steps(g)
  <2>1. ASSUME NEW i \in 0..n PROVE g[i] = IF i = 0 THEN c ELSE Collect(g[i - 1], batch[i])
    BY <1>5
  <2>2. g = [i \in 0..n |-> g[i]]
    OBVIOUS
  <2> QED
    BY <2>1, <2>2
<1>7. PICK h : h = CHOOSE f : Steps(f)
  OBVIOUS
<1>8. CollectAll(c, batch) = h[n]
  BY <1>1, <1>7 DEF CollectAll
<1>9. Steps(h)
  <2> HIDE DEF Steps
  <2> QED
    BY <1>6, <1>7
<1>10. h[0] = c /\ \A i \in 1..n : h[i] = Collect(h[i - 1], batch[i])
  BY <1>9
<1>11. DOMAIN h = 0..n /\ h = [i \in 0..n |-> h[i]]
  BY <1>9
<1>12. \A i \in 0..n : h[i] \in Collections
  <2> DEFINE P == {i \in 0..n : h[i] \in Collections}
  <2>1. 0 \in P
    BY <1>10
  <2>2. ASSUME NEW i \in 1..n, i - 1 \in P PROVE i \in P
    <3>1. h[i] = Collect(h[i - 1], batch[i]) /\ h[i - 1] \in Collections /\ batch[i] \in Items
      BY <1>1, <1>10, <2>2
    <3> QED
      BY <3>1, CollectTyped
  <2>3. PICK lo \in Int, hi \in Int : lo = 0 /\ hi = n
    OBVIOUS
  <2> HIDE DEF P
  <2>4. lo \in P /\ \A i \in (lo + 1)..hi : i - 1 \in P => i \in P
    BY <2>1, <2>2, <2>3
  <2>5. \A i \in lo..hi : i \in P
    BY <2>4, Climb
  <2> QED
    BY <2>3, <2>5 DEF P
<1> HIDE DEF Steps
<1>13. h \in [0..n -> Collections]
  BY <1>11, <1>12
<1> QED
  BY <1>1, <1>8, <1>10, <1>13

LEMMA CollectAllKnows ==
  ASSUME NEW at \in Int, NEW X \in SUBSET TitledEntries, NEW c \in Collections, Knows(c, X, at),
         NEW n \in Nat, NEW copies \in [1..n -> TitledEntries], NEW batch,
         batch = [i \in 1..n |-> Article(copies[i], at)]
  PROVE  /\ CollectAll(c, batch) \in Collections
         /\ Knows(CollectAll(c, batch), X \cup {copies[i] : i \in 1..n}, at)
<1>1. batch \in Seq(Items) /\ Len(batch) = n
  <2>1. \A i \in 1..n : Article(copies[i], at) \in Items
    BY ArticleTyped
  <2> QED
    BY <2>1
<1>2. PICK after \in [0..n -> Collections] :
         /\ after[0] = c
         /\ \A i \in 1..n : after[i] = Collect(after[i - 1], batch[i])
         /\ CollectAll(c, batch) = after[n]
  <2>1. \E after \in [0..Len(batch) -> Collections] :
           /\ after[0] = c
           /\ \A i \in 1..Len(batch) : after[i] = Collect(after[i - 1], batch[i])
           /\ CollectAll(c, batch) = after[Len(batch)]
    BY <1>1, CollectAllSteps
  <2>2. Len(batch) = n
    BY <1>1
  <2> QED
    BY ONLY <2>1, <2>2
<1> DEFINE Seen(m) == X \cup {copies[i] : i \in 1..m}
           P == {m \in 0..n : Knows(after[m], Seen(m), at)}
<1>3. 0 \in P
  <2>1. Seen(0) = X
    OBVIOUS
  <2> HIDE DEF Seen
  <2> QED
    BY <1>2, <2>1
<1>4. ASSUME NEW m \in 1..n, m - 1 \in P PROVE m \in P
  <2>1. after[m] = Collect(after[m - 1], batch[m])
    BY <1>2
  <2>2. batch[m] = Article(copies[m], at) /\ copies[m] \in TitledEntries
    OBVIOUS
  <2>3. m - 1 \in 0..n /\ after[m - 1] \in Collections
    BY <1>2
  <2>4. Seen(m) = Seen(m - 1) \cup {copies[m]}
    <3>1. 1..m = (1..(m - 1)) \cup {m}
      OBVIOUS
    <3>2. \A y : y \in Seen(m) <=> y \in X \/ \E i \in 1..m : y = copies[i]
      OBVIOUS
    <3>3. \A y : y \in Seen(m - 1) <=> y \in X \/ \E i \in 1..(m - 1) : y = copies[i]
      OBVIOUS
    <3> HIDE DEF Seen
    <3> QED
      BY <3>1, <3>2, <3>3
  <2>5. Seen(m - 1) \in SUBSET TitledEntries
    OBVIOUS
  <2>6. Knows(after[m - 1], Seen(m - 1), at)
    BY <1>4
  <2> HIDE DEF Seen
  <2>7. Knows(Collect(after[m - 1], Article(copies[m], at)), Seen(m - 1) \cup {copies[m]}, at)
    BY <2>2, <2>3, <2>5, <2>6, CollectKnows
  <2>8. Knows(after[m], Seen(m), at)
    BY <2>1, <2>2, <2>4, <2>7
  <2> QED
    BY <2>8
<1>5. n \in P
  <2>1. PICK lo \in Int, hi \in Int : lo = 0 /\ hi = n
    OBVIOUS
  <2> HIDE DEF P
  <2>2. lo \in P /\ \A i \in (lo + 1)..hi : i - 1 \in P => i \in P
    BY <1>3, <1>4, <2>1
  <2>3. \A i \in lo..hi : i \in P
    BY <2>2, Climb
  <2> QED
    BY <2>1, <2>3
<1>6. CollectAll(c, batch) \in Collections
  <2>1. n \in 0..n
    OBVIOUS
  <2> QED
    BY <1>2, <2>1
<1> QED
  BY <1>2, <1>5, <1>6


Answers == [DOMAIN Feeds -> Optional(Seq(Entries))]

\* The titled entries of the first feeds, up to m.
Upto(answers, m) ==
    {x \in UNION {{[entry |-> e, feed |-> Feeds[f]] : e \in Range(answers[f])} :
                     f \in {g \in 1..m : answers[g] # None}} : x.entry.id # None}

\* The titled entries of a feed.
OfFeed(answer, feed) ==
    {x \in {[entry |-> e, feed |-> feed] : e \in Range(answer)} : x.entry.id # None}

(* A batch is made of the titled entries of the feed, in their order.       *)
LEMMA BatchIs ==
  ASSUME NEW at \in Int, NEW feed \in Range(Feeds), NEW entries \in Seq(Entries)
  PROVE  \E n \in Nat : \E copies \in [1..n -> TitledEntries] :
            /\ ParseFeed(entries, feed, at) = [i \in 1..n |-> Article(copies[i], at)]
            /\ {copies[i] : i \in 1..n} = OfFeed(entries, feed)
<1> DEFINE K == {i \in DOMAIN entries : entries[i].id # None}
<1>1. K \in SUBSET DOMAIN entries
  OBVIOUS
<1>2. PICK titled : titled = Chosen(entries, K)
  OBVIOUS
<1>3. /\ titled \in Seq(Entries)
      /\ \A i \in 1..Len(titled) : \E k \in K : titled[i] = entries[k]
      /\ \A k \in K : \E i \in 1..Len(titled) : titled[i] = entries[k]
  <2> HIDE DEF K
  <2> QED
    BY <1>1, <1>2, ChosenTyped
<1>4. PICK n \in Nat : n = Len(titled) /\ DOMAIN titled = 1..n
  BY <1>3
<1>5. PICK copies : copies = [i \in 1..n |-> [entry |-> titled[i], feed |-> feed]]
  OBVIOUS
<1>6. \A i \in 1..n : copies[i].entry = titled[i] /\ copies[i].feed = feed
  BY <1>5
<1>7. copies \in [1..n -> TitledEntries]
  <2>1. ASSUME NEW i \in 1..n PROVE [entry |-> titled[i], feed |-> feed] \in TitledEntries
    <3>1. PICK k \in K : titled[i] = entries[k]
      BY <1>3, <1>4
    <3>2. titled[i] \in Entries /\ titled[i].id # None
      BY <1>3, <1>4, <3>1
    <3> QED
      BY <3>2 DEF TitledEntries
  <2> QED
    BY <1>5, <2>1
<1>8. ParseFeed(entries, feed, at) = [i \in 1..n |-> Article(copies[i], at)]
  <2>1. ParseFeed(entries, feed, at) =
           [i \in DOMAIN titled |->
              [id |-> titled[i].id, source |-> feed.source, tags |-> feed.tags,
               published |-> PublishedAt(titled[i], at), text |-> titled[i].text]]
    BY <1>2 DEF ParseFeed
  <2>2. ASSUME NEW i \in 1..n
        PROVE  Article(copies[i], at) =
                  [id |-> titled[i].id, source |-> feed.source, tags |-> feed.tags,
                   published |-> PublishedAt(titled[i], at), text |-> titled[i].text]
    BY <1>6 DEF Article
  <2> QED
    BY <1>4, <2>1, <2>2
<1>9. {copies[i] : i \in 1..n} = OfFeed(entries, feed)
  <2>1. ASSUME NEW i \in 1..n PROVE copies[i] \in OfFeed(entries, feed)
    <3>1. PICK k \in K : titled[i] = entries[k]
      BY <1>3, <1>4
    <3>2. entries[k] \in Range(entries) /\ entries[k].id # None
      BY <3>1 DEF Range
    <3>3. copies[i] = [entry |-> entries[k], feed |-> feed]
      BY <1>5, <3>1
    <3> QED
      BY <3>2, <3>3 DEF OfFeed
  <2>2. ASSUME NEW x \in OfFeed(entries, feed) PROVE \E i \in 1..n : x = copies[i]
    <3>1. PICK e \in Range(entries) : x = [entry |-> e, feed |-> feed] /\ e.id # None
      BY DEF OfFeed
    <3>2. PICK k \in DOMAIN entries : e = entries[k]
      BY <3>1 DEF Range
    <3>3. PICK i \in 1..n : titled[i] = entries[k]
      BY <1>3, <1>4, <3>1, <3>2
    <3> QED
      BY <1>5, <3>1, <3>2, <3>3
  <2> QED
    BY <2>1, <2>2
<1> QED
  BY <1>7, <1>8, <1>9

LEMMA BatchTyped ==
  ASSUME NEW at \in Int, NEW answers \in Answers, NEW f \in DOMAIN Feeds
  PROVE  Batch(answers[f], Feeds[f], at) \in Seq(Items)
<1>1. CASE answers[f] = None
  BY <1>1 DEF Batch
<1>2. CASE answers[f] # None
  <2>1. answers[f] \in Seq(Entries) /\ Feeds[f] \in Range(Feeds)
    BY <1>2 DEF Answers, Optional, Range
  <2>2. PICK n \in Nat : \E copies \in [1..n -> TitledEntries] :
           /\ ParseFeed(answers[f], Feeds[f], at) = [i \in 1..n |-> Article(copies[i], at)]
           /\ {copies[i] : i \in 1..n} = OfFeed(answers[f], Feeds[f])
    BY <2>1, BatchIs
  <2>0. PICK copies \in [1..n -> TitledEntries] :
           ParseFeed(answers[f], Feeds[f], at) = [i \in 1..n |-> Article(copies[i], at)]
    BY <2>2
  <2>3. \A i \in 1..n : Article(copies[i], at) \in Items
    BY ArticleTyped
  <2>4. [i \in 1..n |-> Article(copies[i], at)] \in Seq(Items)
    BY <2>3
  <2> QED
    BY <1>2, <2>0, <2>4 DEF Batch
<1> QED
  BY <1>1, <1>2

LEMMA CollectAllTyped ==
  ASSUME NEW c \in Collections, NEW batch \in Seq(Items)
  PROVE  CollectAll(c, batch) \in Collections
<1>1. PICK n \in Nat : n = Len(batch)
  OBVIOUS
<1>2. PICK after \in [0..Len(batch) -> Collections] : CollectAll(c, batch) = after[Len(batch)]
  BY CollectAllSteps
<1> QED
  BY <1>1, <1>2

(* The feeds are collected one after the other.                             *)
LEMMA CollectedSteps ==
  ASSUME NEW at \in Int, NEW answers \in Answers, NEW n \in Nat, n = Len(Feeds)
  PROVE  \E after \in [0..n -> Collections] :
            /\ after[0] = <<>>
            /\ \A f \in 1..n :
                  after[f] = CollectAll(after[f - 1], Batch(answers[f], Feeds[f], at))
            /\ Collected(answers, at) = after[n]
<1>1. DOMAIN Feeds = 1..n
  BY NewsAssumption
<1>2. <<>> \in Collections
  <2>1. <<>> \in [{} -> Items] /\ {} \in SUBSET Int
    OBVIOUS
  <2> QED
    BY <2>1 DEF Collections
<1> DEFINE B(f) == Batch(answers[f], Feeds[f], at)
           Steps(g) == g = [f \in 0..n |-> IF f = 0 THEN <<>> ELSE CollectAll(g[f - 1], B(f))]
           F == [f \in 1..n |-> [d \in Collections |-> CollectAll(d, B(f))]]
<1>3. \A f \in 1..n : B(f) \in Seq(Items)
  BY <1>1, BatchTyped
<1>4. F \in [1..n -> [Collections -> Collections]]
  <2> HIDE DEF B
  <2>1. ASSUME NEW f \in 1..n, NEW d \in Collections PROVE CollectAll(d, B(f)) \in Collections
    BY <1>3, CollectAllTyped
  <2> QED
    BY <2>1
<1>5. ASSUME NEW f \in 1..n, NEW d \in Collections PROVE F[f][d] = CollectAll(d, B(f))
  OBVIOUS
<1> HIDE DEF F
<1>6. PICK g \in [0..n -> Collections] : Follows(g, 0, n, <<>>, F)
  <2>1. PICK lo \in Int, hi \in Int : lo = 0 /\ hi = n /\ lo <= hi
    OBVIOUS
  <2>2. F \in [(lo + 1)..hi -> [Collections -> Collections]]
    BY <1>4, <2>1
  <2>3. \E g \in [lo..hi -> Collections] : Follows(g, lo, hi, <<>>, F)
    BY <1>2, <2>1, <2>2, RecursionExists
  <2> QED
    BY <2>1, <2>3
<1>7. g[0] = <<>> /\ \A f \in 1..n : g[f] = CollectAll(g[f - 1], B(f))
  <2>1. g[0] = <<>>
    BY <1>6 DEF Follows
  <2>2. ASSUME NEW f \in 1..n PROVE g[f] = CollectAll(g[f - 1], B(f))
    <3>1. f - 1 \in 0..n /\ f \in (0 + 1)..n
      OBVIOUS
    <3>2. g[f - 1] \in Collections
      BY <3>1
    <3>3. g[f] = F[f][g[f - 1]]
      BY <1>6, <3>1 DEF Follows
    <3> QED
      BY <1>5, <3>2, <3>3
  <2> QED
    BY <2>1, <2>2
<1>8. Steps(g)
  <2> HIDE DEF B
  <2>1. ASSUME NEW f \in 0..n PROVE g[f] = IF f = 0 THEN <<>> ELSE CollectAll(g[f - 1], B(f))
    BY <1>7
  <2>2. g = [f \in 0..n |-> g[f]]
    OBVIOUS
  <2> QED
    BY <2>1, <2>2
<1>9. PICK h : h = CHOOSE k : Steps(k)
  OBVIOUS
<1>10. Collected(answers, at) = h[n]
  BY <1>9 DEF Collected
<1>11. Steps(h)
  <2> HIDE DEF Steps
  <2> QED
    BY <1>8, <1>9
<1>12. h[0] = <<>> /\ \A f \in 1..n : h[f] = CollectAll(h[f - 1], B(f))
  <2> HIDE DEF B
  <2> QED
    BY <1>11
<1>13. DOMAIN h = 0..n /\ h = [f \in 0..n |-> h[f]]
  <2> HIDE DEF B
  <2> QED
    BY <1>11
<1>14. \A f \in 0..n : h[f] \in Collections
  <2> DEFINE P == {f \in 0..n : h[f] \in Collections}
  <2>1. 0 \in P
    BY <1>2, <1>12
  <2>2. ASSUME NEW f \in 1..n, f - 1 \in P PROVE f \in P
    <3> HIDE DEF B
    <3>1. h[f] = CollectAll(h[f - 1], B(f)) /\ h[f - 1] \in Collections /\ B(f) \in Seq(Items)
      BY <1>3, <1>12, <2>2
    <3> QED
      BY <3>1, CollectAllTyped
  <2>3. PICK lo \in Int, hi \in Int : lo = 0 /\ hi = n
    OBVIOUS
  <2> HIDE DEF P
  <2>4. lo \in P /\ \A i \in (lo + 1)..hi : i - 1 \in P => i \in P
    BY <2>1, <2>2, <2>3
  <2>5. \A i \in lo..hi : i \in P
    BY <2>4, Climb
  <2> QED
    BY <2>3, <2>5 DEF P
<1>15. h \in [0..n -> Collections]
  BY <1>13, <1>14
<1> HIDE DEF Steps
<1> QED
  BY <1>10, <1>12, <1>15

(* What is collected is what there is of the titled entries of the feeds    *)
(* that answered, in whatever order their copies came.                      *)
LEMMA CollectedKnows ==
  ASSUME NEW at \in Int, NEW answers \in Answers
  PROVE  /\ Collected(answers, at) \in Collections
         /\ Knows(Collected(answers, at), Upto(answers, Len(Feeds)), at)
<1>1. PICK n \in Nat : n = Len(Feeds) /\ DOMAIN Feeds = 1..n
  BY NewsAssumption
<1>2. PICK after \in [0..n -> Collections] :
         /\ after[0] = <<>>
         /\ \A f \in 1..n : after[f] = CollectAll(after[f - 1], Batch(answers[f], Feeds[f], at))
         /\ Collected(answers, at) = after[n]
  BY <1>1, CollectedSteps
<1> DEFINE P == {m \in 0..n : Knows(after[m], Upto(answers, m), at)}
<1>3. 0 \in P
  <2>1. Upto(answers, 0) = {}
    BY DEF Upto
  <2>2. DOMAIN <<>> = {} /\ IsFiniteSet({})
    BY FS_EmptySet
  <2>3. Knows(<<>>, {}, at)
    BY <2>2 DEF Knows
  <2>4. after[0] = <<>>
    BY <1>2
  <2>5. Knows(after[0], Upto(answers, 0), at)
    BY ONLY <2>1, <2>3, <2>4
  <2> QED
    BY <2>5
<1>4. ASSUME NEW f \in 1..n, f - 1 \in P PROVE f \in P
  <2>1. /\ after[f] = CollectAll(after[f - 1], Batch(answers[f], Feeds[f], at))
        /\ after[f - 1] \in Collections /\ Knows(after[f - 1], Upto(answers, f - 1), at)
    BY <1>2, <1>4
  <2>2. ASSUME NEW m \in 0..n PROVE Upto(answers, m) \in SUBSET TitledEntries
    <3>1. ASSUME NEW x \in Upto(answers, m) PROVE x \in TitledEntries
      <4>1. PICK g \in 1..m : answers[g] # None /\ x \in OfFeed(answers[g], Feeds[g])
        BY DEF Upto, OfFeed
      <4>5. PICK e \in Range(answers[g]) : x = [entry |-> e, feed |-> Feeds[g]] /\ e.id # None
        BY <4>1 DEF OfFeed
      <4>2. g \in DOMAIN Feeds
        BY <1>1
      <4>3. answers[g] \in Seq(Entries) /\ Feeds[g] \in Range(Feeds)
        BY <4>1, <4>2 DEF Answers, Optional, Range
      <4>4. e \in Entries
        BY <4>3 DEF Range
      <4> QED
        BY <4>3, <4>4, <4>5 DEF TitledEntries
    <3> QED
      BY <3>1
  <2>3. CASE answers[f] = None
    <3>1. Upto(answers, f) = Upto(answers, f - 1)
      <4>1. {g \in 1..f : answers[g] # None} = {g \in 1..(f - 1) : answers[g] # None}
        BY <2>3
      <4> QED
        BY <4>1 DEF Upto
    <3>2. Batch(answers[f], Feeds[f], at) = <<>>
      BY <2>3 DEF Batch
    <3>3. CollectAll(after[f - 1], <<>>) = after[f - 1]
      <4>1. <<>> \in Seq(Items) /\ Len(<<>>) = 0
        OBVIOUS
      <4>2. PICK steps \in [0..Len(<<>>) -> Collections] :
               steps[0] = after[f - 1] /\ CollectAll(after[f - 1], <<>>) = steps[Len(<<>>)]
        BY <2>1, <4>1, CollectAllSteps
      <4> QED
        BY <4>1, <4>2
    <3> QED
      BY <2>1, <3>1, <3>2, <3>3
  <2>4. CASE answers[f] # None
    <3>1. answers[f] \in Seq(Entries) /\ Feeds[f] \in Range(Feeds)
      BY <1>1, <2>4 DEF Answers, Optional, Range
    <3>0. PICK k \in Nat : \E copies \in [1..k -> TitledEntries] :
             /\ ParseFeed(answers[f], Feeds[f], at) = [i \in 1..k |-> Article(copies[i], at)]
             /\ {copies[i] : i \in 1..k} = OfFeed(answers[f], Feeds[f])
      BY <3>1, BatchIs
    <3>2. PICK copies \in [1..k -> TitledEntries] :
             /\ ParseFeed(answers[f], Feeds[f], at) = [i \in 1..k |-> Article(copies[i], at)]
             /\ {copies[i] : i \in 1..k} = OfFeed(answers[f], Feeds[f])
      BY <3>0
    <3>3. PICK batch : batch = [i \in 1..k |-> Article(copies[i], at)]
      OBVIOUS
    <3>4. Batch(answers[f], Feeds[f], at) = batch
      BY <2>4, <3>2, <3>3 DEF Batch
    <3>5. Upto(answers, f - 1) \in SUBSET TitledEntries
      BY <2>2
    <3>6. Knows(CollectAll(after[f - 1], batch), Upto(answers, f - 1) \cup {copies[i] : i \in 1..k}, at)
      BY <2>1, <3>3, <3>5, CollectAllKnows
    <3>7. Upto(answers, f) = Upto(answers, f - 1) \cup OfFeed(answers[f], Feeds[f])
      <4>1. 1..f = (1..(f - 1)) \cup {f}
        OBVIOUS
      <4>2. ASSUME NEW m \in 0..n, NEW x
            PROVE  x \in Upto(answers, m) <=>
                      \E g \in 1..m : answers[g] # None /\ x \in OfFeed(answers[g], Feeds[g])
        BY DEF Upto, OfFeed
      <4>3. f - 1 \in 0..n /\ f \in 0..n
        OBVIOUS
      <4> QED
        BY <2>4, <4>1, <4>2, <4>3
    <3>8. after[f] = CollectAll(after[f - 1], batch)
      BY <2>1, <3>4
    <3>9. Upto(answers, f) = Upto(answers, f - 1) \cup {copies[i] : i \in 1..k}
      <4>1. {copies[i] : i \in 1..k} = OfFeed(answers[f], Feeds[f])
        BY <3>2
      <4> QED
        BY ONLY <4>1, <3>7
    <3>10. Knows(after[f], Upto(answers, f), at)
      BY ONLY <3>6, <3>8, <3>9
    <3> QED
      BY <3>10
  <2> QED
    BY <2>3, <2>4
<1>5. n \in P
  <2>1. PICK lo \in Int, hi \in Int : lo = 0 /\ hi = n
    OBVIOUS
  <2> HIDE DEF P
  <2>2. lo \in P /\ \A i \in (lo + 1)..hi : i - 1 \in P => i \in P
    BY <1>3, <1>4, <2>1
  <2>3. \A i \in lo..hi : i \in P
    BY <2>2, Climb
  <2> QED
    BY <2>1, <2>3
<1>6. n \in 0..n
  OBVIOUS
<1> QED
  BY <1>1, <1>2, <1>5, <1>6

(* An article is collected once, and the items are what is collected.       *)
LEMMA FetchedItems ==
  ASSUME NEW at \in Int, NEW answers \in Answers, NEW S, S = Range(Collected(answers, at))
  PROVE  /\ IsFiniteSet(S) /\ S \in SUBSET Items
         /\ \A x, y \in S : x.id = y.id => x = y
         /\ FetchItems(answers, at) \in Seq(S)
         /\ NoRepeats(FetchItems(answers, at)) /\ Range(FetchItems(answers, at)) = S
<1>1. PICK c : c = Collected(answers, at)
  OBVIOUS
<1>2. c \in Collections /\ Knows(c, Upto(answers, Len(Feeds)), at)
  BY <1>1, CollectedKnows
<1>3. PICK D \in SUBSET Int : c \in [D -> Items]
  BY <1>2 DEF Collections
<1>4. IsFiniteSet(D) /\ \A id \in D : c[id].id = id
  BY <1>2, <1>3 DEF Knows
<1>5. S = {c[id] : id \in D}
  BY <1>1, <1>3 DEF Range
<1>6. IsFiniteSet(S)
  <2>1. IsFiniteSet(D)
    BY ONLY <1>4
  <2>2. IsFiniteSet({c[id] : id \in D})
    BY ONLY <2>1, ImageFinite
  <2> QED
    BY ONLY <1>5, <2>2
<1>7. S \in SUBSET Items
  BY <1>3, <1>5
<1>8. ASSUME NEW x \in S, NEW y \in S, x.id = y.id PROVE x = y
  <2>1. PICK i \in D : x = c[i]
    BY <1>5
  <2>2. PICK j \in D : y = c[j]
    BY <1>5
  <2> QED
    BY <1>4, <1>8, <2>1, <2>2
<1>9. PICK R : R = {p \in S \X S : \/ p[1].published > p[2].published
                                   \/ p[1].published = p[2].published /\ p[1].id > p[2].id}
  OBVIOUS
<1>10. \A x, y \in S : <<x, y>> \in R <=> \/ x.published > y.published
                                          \/ x.published = y.published /\ x.id > y.id
  BY <1>9
<1>11. \A x \in S : x.published \in Int /\ x.id \in Int
  BY <1>7 DEF Items
<1>12. Orders(R, S)
  <2>1. \A x \in S : <<x, x>> \notin R
    BY <1>10, <1>11
  <2>2. ASSUME NEW x \in S, NEW y \in S, NEW z \in S, <<x, y>> \in R, <<y, z>> \in R
        PROVE  <<x, z>> \in R
    BY <1>10, <1>11, <2>2
  <2>3. ASSUME NEW x \in S, NEW y \in S PROVE x = y \/ <<x, y>> \in R \/ <<y, x>> \in R
    BY <1>8, <1>10, <1>11
  <2> QED
    BY <2>1, <2>2, <2>3 DEF Orders
<1>13. FetchItems(answers, at) = Arranged(S, R)
  BY <1>9 DEF FetchItems
<1>14. Arranged(S, R) \in Seq(S)
  BY <1>6, <1>12, ArrangedSet
<1>15. NoRepeats(Arranged(S, R)) /\ Range(Arranged(S, R)) = S
  BY <1>6, <1>12, ArrangedOnce
<1> QED
  BY <1>6, <1>7, <1>8, <1>13, <1>14, <1>15

\* The items of a run.
Fetched == Range(ingest.news_items)

(* The items a run has are what there is of the titled entries it was       *)
(* given, each article once.                                                *)
LEMMA RunNews ==
  ASSUME AnalysisInv, stage \in PastBegin
  PROVE  /\ IsFiniteSet(Fetched) /\ Fetched \in SUBSET Items
         /\ \A x, y \in Fetched : x.id = y.id => x = y
         /\ ingest.news_items \in Seq(Fetched) /\ NoRepeats(ingest.news_items)
         /\ {item.id : item \in Fetched} = {x.entry.id : x \in Titled}
         /\ \A item \in Fetched : Made(item, Copies(Titled, item.id), now)
<1>1. PICK case \in Cases : IsCase(case) /\ ingest = Bundle(case, now)
  BY RunBundle
<1>2. ingest.feeds = case.feeds /\ ingest.news_items = FetchItems(case.feeds, now)
  BY <1>1 DEF Bundle
<1>3. case.feeds \in Answers /\ now \in Int
  BY <1>1, OrchestratorAssumption DEF IsCase, Answers, AnalysisInv
<1>4. PICK c : c = Collected(case.feeds, now)
  OBVIOUS
<1>5. c \in Collections /\ Knows(c, Upto(case.feeds, Len(Feeds)), now)
  BY <1>3, <1>4, CollectedKnows
<1>6. Upto(case.feeds, Len(Feeds)) = Titled
  <2>1. PICK n \in Nat : n = Len(Feeds) /\ DOMAIN Feeds = 1..n
    BY NewsAssumption
  <2>2. 1..Len(Feeds) = DOMAIN Feeds
    BY <2>1
  <2>3. Upto(case.feeds, Len(Feeds)) = Upto(ingest.feeds, Len(Feeds))
    BY <1>2
  <2>4. Upto(ingest.feeds, Len(Feeds)) = Titled
    BY ONLY <2>2 DEF Upto, Titled, Answered
  <2> QED
    BY <2>3, <2>4
<1>7. PICK S : S = Range(c)
  OBVIOUS
<1>8. /\ IsFiniteSet(S) /\ S \in SUBSET Items
      /\ \A x, y \in S : x.id = y.id => x = y
      /\ ingest.news_items \in Seq(S)
      /\ NoRepeats(ingest.news_items) /\ Range(ingest.news_items) = S
  BY <1>2, <1>3, <1>4, <1>7, FetchedItems
<1>9. Fetched = S
  BY <1>8 DEF Fetched
<1>10. /\ DOMAIN c = {x.entry.id : x \in Titled}
       /\ \A id \in DOMAIN c : c[id].id = id /\ Made(c[id], Copies(Titled, id), now)
  BY <1>5, <1>6 DEF Knows
<1>11. {item.id : item \in S} = DOMAIN c
  <2>1. S = {c[id] : id \in DOMAIN c}
    BY ONLY <1>7 DEF Range
  <2>2. \A id \in DOMAIN c : c[id].id = id
    BY ONLY <1>10
  <2> QED
    BY ONLY <2>1, <2>2
<1>12. ASSUME NEW item \in S PROVE Made(item, Copies(Titled, item.id), now)
  <2>1. PICK id \in DOMAIN c : item = c[id]
    BY <1>7 DEF Range
  <2> QED
    BY <1>10, <2>1
<1> QED
  BY <1>8, <1>9, <1>10, <1>11, <1>12

LEMMA NewsCompleteHere == AnalysisInv => NewsComplete
<1> SUFFICES ASSUME AnalysisInv, ingest # None PROVE NewsComplete
  BY DEF NewsComplete
<1>1. stage \in PastBegin
  BY DEF AnalysisInv, BundleInv
<1>2. PICK items : items = Fetched
  OBVIOUS
<1>3. /\ items \in SUBSET Items
      /\ \A x, y \in items : x.id = y.id => x = y
      /\ ingest.news_items \in Seq(items) /\ NoRepeats(ingest.news_items)
      /\ {item.id : item \in items} = {x.entry.id : x \in Titled}
      /\ \A item \in items : Made(item, Copies(Titled, item.id), now)
  BY <1>1, <1>2, RunNews
<1>4. Cardinality({item.id : item \in items}) = Len(ingest.news_items)
  <2>1. PICK s \in Seq(items) : s = ingest.news_items
    BY <1>3
  <2>2. PICK n \in Nat : n = Len(s) /\ DOMAIN s = 1..n
    BY <2>1
  <2>3. PICK t : t = [i \in 1..n |-> s[i].id]
    OBVIOUS
  <2>4. t \in Seq(Int) /\ Len(t) = n /\ DOMAIN t = 1..n
    <3>1. \A i \in 1..n : s[i].id \in Int
      BY <1>3, <2>2 DEF Items
    <3> QED
      BY <2>3, <3>1
  <2>5. NoRepeats(t)
    <3> SUFFICES ASSUME NEW i \in 1..n, NEW j \in 1..n, t[i] = t[j] PROVE i = j
      BY <2>4 DEF NoRepeats
    <3>1. s[i].id = s[j].id /\ s[i] \in items /\ s[j] \in items
      BY <2>2, <2>3
    <3>2. s[i] = s[j]
      BY <1>3, <3>1
    <3> QED
      BY <1>3, <2>1, <2>2, <3>2 DEF NoRepeats
  <2>6. Cardinality(Range(t)) = Len(t)
    BY <2>4, <2>5, CountOnce
  <2>7. Range(t) = {item.id : item \in items}
    <3>1. items = Range(s)
      BY <1>2, <2>1 DEF Fetched
    <3>2. Range(s) = {s[i] : i \in 1..n}
      BY <2>2 DEF Range
    <3>3. Range(t) = {t[i] : i \in 1..n}
      BY <2>4 DEF Range
    <3> QED
      BY <2>3, <3>1, <3>2, <3>3
  <2> QED
    BY <2>1, <2>2, <2>4, <2>6, <2>7
<1>5. ASSUME NEW item \in items
      PROVE  /\ item.tags = UNION {x.feed.tags : x \in Copies(Titled, item.id)}
             /\ \A x \in Copies(Titled, item.id) :
                   /\ x.entry.at # None => item.published <= x.entry.at
                   /\ item.text.length >= x.entry.text.length
             /\ item.published \in {PublishedAt(x.entry, now) : x \in Copies(Titled, item.id)}
  <2>1. Made(item, Copies(Titled, item.id), now)
    BY <1>3
  <2> QED
    BY <2>1 DEF Made, PublishedAt
<1>6. \A id : Copies(Titled, id) = {x \in Titled : x.entry.id = id}
  BY DEF Copies
<1>7. items = Range(ingest.news_items)
  BY <1>2 DEF Fetched
<1> QED
  BY <1>3, <1>4, <1>5, <1>6, <1>7 DEF NewsComplete

(* See NewsComplete in OrchestratorProperties.                              *)
THEOREM EveryArticleOnce == Spec => []NewsComplete
<1>1. AnalysisInv => NewsComplete
  BY NewsCompleteHere
<1> QED
  BY <1>1, AnalysisInvariant, PTL


-----------------------------------------------------------------------------
(* The digest. *)

LEMMA TopicsSay ==
  ASSUME NEW topic \in DOMAIN MacroTopics, NEW a \in DirectAssets
  PROVE  MacroTopics[topic][a] \in Nat
BY DEF MacroTopics, Topic, DirectAssets

LEMMA TopicsFinite ==
  ASSUME NEW T \in SUBSET DOMAIN MacroTopics
  PROVE  IsFiniteSet(T)
<1>1. DOMAIN MacroTopics =
         {"FED_MONETARY_POLICY", "US_INFLATION", "US_LABOR_MARKET", "US_DOLLAR"}
         \cup {"US_YIELDS", "OIL_SUPPLY", "GEOPOLITICAL_RISK"}
  BY DEF MacroTopics
<1>2. PICK names : names = <<"FED_MONETARY_POLICY", "US_INFLATION", "US_LABOR_MARKET",
                             "US_DOLLAR", "US_YIELDS", "OIL_SUPPLY", "GEOPOLITICAL_RISK">>
  OBVIOUS
<1>3. PICK I : I = 1..7
  OBVIOUS
<1>4. IsFiniteSet({names[i] : i \in 1..7})
  <2>1. PICK lo \in Int, hi \in Int : lo = 1 /\ hi = 7
    OBVIOUS
  <2>2. IsFiniteSet(lo..hi)
    BY ONLY <2>1, FS_Interval
  <2>3. IsFiniteSet(I)
    BY ONLY <1>3, <2>1, <2>2
  <2>4. IsFiniteSet({names[i] : i \in I})
    BY ONLY <2>3, ImageFinite
  <2> QED
    BY ONLY <1>3, <2>4
<1>5. T \subseteq {names[i] : i \in 1..7}
  BY <1>1, <1>2
<1> QED
  BY <1>4, <1>5, FS_Subset

LEMMA RelevanceNumber ==
  ASSUME NEW item \in Items, NEW a
  PROVE  Relevance(item, a) \in Int
<1>1. PICK T : T = item.text.topics
  OBVIOUS
<1>2. T \in SUBSET DOMAIN MacroTopics
  BY <1>1 DEF Items, Texts
<1>3. PICK f : f = [t \in T |-> IF a \in DirectAssets THEN MacroTopics[t][a] ELSE 0]
  OBVIOUS
<1>4. PICK topics : topics = {f[t] : t \in T}
  OBVIOUS
<1>5. topics = {IF a \in DirectAssets THEN MacroTopics[t][a] ELSE 0 : t \in T}
  BY <1>3, <1>4
<1>6. IsFiniteSet(topics)
  <2>1. IsFiniteSet(T)
    BY <1>2, TopicsFinite
  <2> QED
    BY <1>4, <2>1, ImageFinite
<1>7. topics \in SUBSET Int
  <2>1. ASSUME NEW t \in T PROVE f[t] \in Int
    <3>1. a \in DirectAssets => MacroTopics[t][a] \in Int
      BY <1>2, TopicsSay
    <3> QED
      BY <1>3, <3>1
  <2> QED
    BY <1>4, <2>1
<1>8. ASSUME NEW n \in Int PROVE Max({n} \cup topics) \in Int
  <2>1. IsFiniteSet(topics \cup {n})
    BY <1>6, FS_AddElement
  <2>2. {n} \cup topics = topics \cup {n} /\ {n} \cup topics \in SUBSET Int /\ {n} \cup topics # {}
    BY <1>7
  <2> QED
    BY <2>1, <2>2, MaxIsLargest
<1>9. Max({75} \cup topics) \in Int
  BY <1>8
<1>10. Max({0} \cup topics) \in Int
  BY <1>8
<1>11. Relevance(item, a) =
          IF a \in item.tags THEN 100
          ELSE IF a \in item.text.assets \cap DirectAssets THEN Max({75} \cup topics)
          ELSE Max({0} \cup topics)
  BY <1>1, <1>5 DEF Relevance
<1> QED
  BY <1>9, <1>10, <1>11

LEMMA DecayNumber ==
  ASSUME NEW item \in Items, NEW at \in Int, IsFresh(item, at)
  PROVE  RecencyDecay(item, at) \in Int
<1>1. PICK n \in Nat : n = MaxNewsAge
  BY NewsAssumption
<1>2. PICK left \in 0..n : left = MaxNewsAge - (at - item.published)
  <2>1. item.published \in Int
    BY DEF Items
  <2> QED
    BY <1>1, <2>1 DEF IsFresh
<1> DEFINE Halves(g) == g = [k \in 0..n |-> IF k = 0 THEN 1 ELSE 2 * g[k - 1]]
           F == [k \in 1..n |-> [v \in Int |-> 2 * v]]
<1>3. F \in [1..n -> [Int -> Int]] /\ \A k \in 1..n, v \in Int : F[k][v] = 2 * v
  OBVIOUS
<1> HIDE DEF F
<1>4. PICK g \in [0..n -> Int] : Follows(g, 0, n, 1, F)
  <2>1. PICK lo \in Int, hi \in Int : lo = 0 /\ hi = n /\ lo <= hi
    OBVIOUS
  <2>2. F \in [(lo + 1)..hi -> [Int -> Int]]
    BY <1>3, <2>1
  <2>3. PICK one \in Int : one = 1
    OBVIOUS
  <2>4. \E g \in [lo..hi -> Int] : Follows(g, lo, hi, one, F)
    BY <2>1, <2>2, RecursionExists
  <2> QED
    BY <2>1, <2>3, <2>4
<1>5. Halves(g)
  <2>1. ASSUME NEW k \in 0..n PROVE g[k] = IF k = 0 THEN 1 ELSE 2 * g[k - 1]
    <3>1. CASE k = 0
      BY <1>4, <3>1 DEF Follows
    <3>2. CASE k # 0
      <4>1. k - 1 \in 0..n /\ k \in 1..n /\ k \in (0 + 1)..n
        BY <3>2
      <4>2. g[k - 1] \in Int /\ g[k] = F[k][g[k - 1]]
        BY <1>4, <4>1 DEF Follows
      <4> QED
        BY <1>3, <3>2, <4>1, <4>2
    <3> QED
      BY <3>1, <3>2
  <2> QED
    BY <2>1
<1>6. PICK h : h = CHOOSE f : Halves(f)
  OBVIOUS
<1>7. RecencyDecay(item, at) = h[left]
  BY <1>1, <1>2, <1>6 DEF RecencyDecay
<1>8. Halves(h)
  <2> HIDE DEF Halves
  <2> QED
    BY <1>5, <1>6
<1>9. \A k \in 0..n : h[k] \in Int
  <2> DEFINE P == {k \in 0..n : h[k] \in Int}
  <2>1. 0 \in P
    BY <1>8
  <2>2. ASSUME NEW k \in 1..n, k - 1 \in P PROVE k \in P
    BY <1>8, <2>2
  <2>3. PICK lo \in Int, hi \in Int : lo = 0 /\ hi = n
    OBVIOUS
  <2> HIDE DEF P
  <2>4. lo \in P /\ \A i \in (lo + 1)..hi : i - 1 \in P => i \in P
    BY <2>1, <2>2, <2>3
  <2>5. \A i \in lo..hi : i \in P
    BY <2>4, Climb
  <2> QED
    BY <2>3, <2>5 DEF P
<1> QED
  BY <1>2, <1>7, <1>9

Relevant(item) == {a \in Assets : Relevance(item, a) > 0}

(* What an item weighs for an asset is a number, and it weighs something    *)
(* for the assets it is relevant for.                                       *)
LEMMA WeightNumber ==
  ASSUME NEW item \in Items, NEW at \in Int, Relevant(item) # {}, IsFresh(item, at)
  PROVE  /\ WeighItem(item, at).id = item.id
         /\ DOMAIN WeighItem(item, at).weights = Relevant(item)
         /\ Weight(WeighItem(item, at)) \in Int
<1>1. PICK A : A = Relevant(item)
  OBVIOUS
<1>2. PICK f : f = [a \in A |-> SourceQuality(item.source) * Relevance(item, a)
                                   * RecencyDecay(item, at)]
  OBVIOUS
<1>3. WeighItem(item, at) = [id |-> item.id, weights |-> f]
  BY <1>1, <1>2 DEF WeighItem, Relevant
<1>4. SourceQuality(item.source) \in Int
  <2>1. PICK q : q = item.source
    OBVIOUS
  <2>2. DefaultQuality \in 0..100
    BY ONLY NewsAssumption
  <2>3. \A source \in DOMAIN Quality : Quality[source] \in 0..100
    BY ONLY NewsAssumption
  <2>4. SourceQuality(q) \in 0..100
    BY ONLY <2>2, <2>3 DEF SourceQuality
  <2> QED
    BY ONLY <2>1, <2>4
<1>5. RecencyDecay(item, at) \in Int
  BY DecayNumber
<1>6. ASSUME NEW a \in A PROVE f[a] \in Int
  <2>1. Relevance(item, a) \in Int
    BY RelevanceNumber
  <2> QED
    BY <1>2, <1>4, <1>5, <2>1
<1>7. IsFiniteSet(A)
  BY <1>1, CoreDataAssumption, FS_Subset DEF Relevant
<1>8. IsFiniteSet({f[a] : a \in A})
  BY <1>7, ImageFinite
<1>9. Range(f) = {f[a] : a \in A}
  BY <1>2 DEF Range
<1>10. Max(Range(f)) \in Int
  <2>1. Range(f) \in SUBSET Int /\ Range(f) # {}
    BY <1>1, <1>6, <1>9
  <2> QED
    BY <1>8, <1>9, <2>1, MaxIsLargest
<1> QED
  BY <1>1, <1>2, <1>3, <1>10 DEF Weight

\* The items of a run as they are weighed.
Weighted == {WeighItem(item, now) : item \in Eligible(Fetched, now)}

LEMMA WeightedItems ==
  ASSUME AnalysisInv, stage \in PastBegin
  PROVE  /\ IsFiniteSet(Weighted)
         /\ \A w \in Weighted :
               /\ Weight(w) \in Int /\ w.id \in Int /\ DOMAIN w.weights \subseteq Assets
               /\ \E item \in Fetched : /\ item.id = w.id /\ IsFresh(item, now)
                                        /\ DOMAIN w.weights = Relevant(item)
         /\ \A v, w \in Weighted : v.id = w.id => v = w
<1>1. /\ IsFiniteSet(Fetched) /\ Fetched \in SUBSET Items
      /\ \A x, y \in Fetched : x.id = y.id => x = y
  BY RunNews
<1>2. now \in Int
  BY OrchestratorAssumption DEF AnalysisInv
<1>3. PICK E : E = Eligible(Fetched, now)
  OBVIOUS
<1>4. E \subseteq Fetched /\ \A item \in E : Relevant(item) # {} /\ IsFresh(item, now)
  BY <1>3 DEF Eligible, Relevant
<1>5. IsFiniteSet(Weighted)
  <2>1. PICK f : f = [item \in E |-> WeighItem(item, now)]
    OBVIOUS
  <2>2. IsFiniteSet(E)
    BY <1>1, <1>4, FS_Subset
  <2>3. IsFiniteSet({f[item] : item \in E})
    BY <2>2, ImageFinite
  <2>4. {f[item] : item \in E} = Weighted
    BY <1>3, <2>1 DEF Weighted
  <2> QED
    BY <2>3, <2>4
<1>6. ASSUME NEW w \in Weighted
      PROVE  \E item \in E : w = WeighItem(item, now)
  BY <1>3 DEF Weighted
<1>7. ASSUME NEW item \in E
      PROVE  /\ WeighItem(item, now).id = item.id
             /\ DOMAIN WeighItem(item, now).weights = Relevant(item)
             /\ Weight(WeighItem(item, now)) \in Int
  <2>1. item \in Items /\ Relevant(item) # {} /\ IsFresh(item, now)
    BY <1>1, <1>4
  <2> QED
    BY <1>2, <2>1, WeightNumber
<1>8. ASSUME NEW w \in Weighted
      PROVE  /\ Weight(w) \in Int /\ w.id \in Int /\ DOMAIN w.weights \subseteq Assets
             /\ \E item \in Fetched : /\ item.id = w.id /\ IsFresh(item, now)
                                      /\ DOMAIN w.weights = Relevant(item)
  <2>1. PICK item \in E : w = WeighItem(item, now)
    BY <1>6
  <2>2. w.id = item.id /\ DOMAIN w.weights = Relevant(item) /\ Weight(w) \in Int
    BY <1>7, <2>1
  <2>3. item \in Fetched /\ IsFresh(item, now) /\ item.id \in Int
    BY <1>1, <1>4 DEF Items
  <2>4. DOMAIN w.weights \subseteq Assets
    BY <2>2 DEF Relevant
  <2> QED
    BY <2>2, <2>3, <2>4
<1>9. ASSUME NEW v \in Weighted, NEW w \in Weighted, v.id = w.id PROVE v = w
  <2>1. PICK x \in E : v = WeighItem(x, now)
    BY <1>6
  <2>2. PICK y \in E : w = WeighItem(y, now)
    BY <1>6
  <2>3. x.id = y.id /\ x \in Fetched /\ y \in Fetched
    BY <1>4, <1>7, <1>9, <2>1, <2>2
  <2>4. x = y
    BY <1>1, <2>3
  <2> QED
    BY <2>1, <2>2, <2>4
<1> QED
  BY <1>5, <1>8, <1>9

\* The ranking of a run.
Ranking == Ranked(ingest.news_items, now)

LEMMA RankedItems ==
  ASSUME AnalysisInv, stage \in PastBegin
  PROVE  /\ Ranking \in Seq(Weighted) /\ NoRepeats(Ranking) /\ Range(Ranking) = Weighted
         /\ \A i, j \in DOMAIN Ranking : i <= j => Weight(Ranking[j]) <= Weight(Ranking[i])
<1>1. /\ IsFiniteSet(Weighted)
      /\ \A w \in Weighted : Weight(w) \in Int /\ w.id \in Int
      /\ \A v, w \in Weighted : v.id = w.id => v = w
  BY WeightedItems
<1>2. PICK W : W = Weighted
  OBVIOUS
<1>3. PICK R : R = {p \in W \X W : \/ Weight(p[1]) > Weight(p[2])
                                   \/ Weight(p[1]) = Weight(p[2]) /\ p[1].id < p[2].id}
  OBVIOUS
<1>4. \A x, y \in W : <<x, y>> \in R <=> \/ Weight(x) > Weight(y)
                                         \/ Weight(x) = Weight(y) /\ x.id < y.id
  BY <1>3
<1>5. Ranking = Arranged(W, R)
  BY <1>2, <1>3 DEF Ranking, Ranked, Weighted, Fetched
<1>6. Orders(R, W)
  <2>1. \A x \in W : <<x, x>> \notin R
    BY <1>1, <1>2, <1>4
  <2>2. ASSUME NEW x \in W, NEW y \in W, NEW z \in W, <<x, y>> \in R, <<y, z>> \in R
        PROVE  <<x, z>> \in R
    BY <1>1, <1>2, <1>4, <2>2
  <2>3. ASSUME NEW x \in W, NEW y \in W PROVE x = y \/ <<x, y>> \in R \/ <<y, x>> \in R
    BY <1>1, <1>2, <1>4
  <2> QED
    BY <2>1, <2>2, <2>3 DEF Orders
<1>7. PICK n \in Nat : \E s \in [1..n -> W] :
         /\ s = Arranged(W, R) /\ s \in Seq(W)
         /\ \A i, j \in 1..n : i < j => <<s[i], s[j]>> \in R
  BY <1>1, <1>2, <1>6, ArrangedSet
<1>8. PICK s \in [1..n -> W] :
         /\ s = Arranged(W, R) /\ s \in Seq(W)
         /\ \A i, j \in 1..n : i < j => <<s[i], s[j]>> \in R
  BY <1>7
<1>9. NoRepeats(s) /\ Range(s) = W
  BY <1>1, <1>2, <1>6, <1>8, ArrangedOnce
<1>10. ASSUME NEW i \in 1..n, NEW j \in 1..n, i <= j PROVE Weight(s[j]) <= Weight(s[i])
  <2>1. Weight(s[i]) \in Int /\ Weight(s[j]) \in Int
    BY <1>1, <1>2
  <2>2. CASE i = j
    BY <2>1, <2>2
  <2>3. CASE i # j
    <3>1. <<s[i], s[j]>> \in R
      BY <1>8, <1>10, <2>3
    <3> QED
      BY <1>4, <2>1, <3>1
  <2> QED
    BY <2>2, <2>3
<1>11. Ranking = s
  BY <1>5, <1>8
<1>12. \A i, j \in DOMAIN s : i <= j => Weight(s[j]) <= Weight(s[i])
  BY <1>10
<1> QED
  BY <1>2, <1>8, <1>9, <1>11, <1>12

(* The first item about an asset, if there is one, is one of the ranking.   *)
LEMMA FirstAbout ==
  ASSUME NEW n \in Nat, NEW K \in SUBSET (1..n), K # {}
  PROVE  Min(K) \in K /\ \A k \in K : Min(K) <= k
<1>1. IsFiniteSet(1..n) /\ K \subseteq 1..n
  BY FS_Interval
<1>2. IsFiniteSet(K)
  BY <1>1, FS_Subset
<1>3. K \in SUBSET Int
  OBVIOUS
<1> QED
  BY <1>2, <1>3, MinIsSmallest

\* Where the ranking speaks of an asset, and the places of the representatives.
Places(ranked, a) == {i \in DOMAIN ranked : a \in DOMAIN ranked[i].weights}
Firsts(ranked) ==
    {Min(Places(ranked, a)) : a \in {p \in ToSet(PrimaryAssets) : Places(ranked, p) # {}}}

(* What is selected of a ranking that is longer than the cap.               *)
LEMMA SelectedIs ==
  ASSUME NEW T, NEW ranked \in Seq(T), NEW n \in Nat, n = Len(ranked), n > MaxDigest
  PROVE  \E filled \in 0..n :
            /\ filled = n \/ Cardinality(Firsts(ranked) \cup 1..filled) >= MaxDigest
            /\ \A k \in 0..(filled - 1) : Cardinality(Firsts(ranked) \cup 1..k) < MaxDigest
            /\ SelectItems(ranked) =
                  LET chosen == Chosen(ranked, Firsts(ranked) \cup 1..filled)
                  IN  SubSeq(chosen, 1, Min({Len(chosen), MaxDigest}))
<1>1. PICK reps : reps = Firsts(ranked)
  OBVIOUS
<1>2. PICK K : K = {k \in 0..n : k = n \/ Cardinality(reps \cup 1..k) >= MaxDigest}
  OBVIOUS
<1>3. n \in K /\ K \in SUBSET Int
  BY <1>2
<1>4. IsFiniteSet(K)
  <2>1. IsFiniteSet(0..n) /\ K \subseteq 0..n
    BY <1>2, FS_Interval
  <2> QED
    BY <2>1, FS_Subset
<1>5. PICK filled : filled = Min(K)
  OBVIOUS
<1>6. filled \in K /\ \A k \in K : filled <= k
  BY <1>3, <1>4, <1>5, MinIsSmallest
<1>7. filled \in 0..n /\ (filled = n \/ Cardinality(reps \cup 1..filled) >= MaxDigest)
  BY <1>2, <1>6
<1>8. ASSUME NEW k \in 0..(filled - 1) PROVE Cardinality(reps \cup 1..k) < MaxDigest
  <2>1. k \in 0..n /\ k # n /\ ~(filled <= k)
    BY <1>7
  <2>2. ~(Cardinality(reps \cup 1..k) >= MaxDigest)
    BY <1>2, <1>6, <2>1
  <2>3. Cardinality(reps \cup 1..k) \in Nat
    <3>1. reps \cup 1..k \in SUBSET (1..n)
      <4>1. ASSUME NEW r \in reps PROVE r \in 1..n
        <5>1. PICK a \in ToSet(PrimaryAssets) : Places(ranked, a) # {} /\ r = Min(Places(ranked, a))
          BY <1>1 DEF Firsts
        <5>2. Places(ranked, a) \in SUBSET (1..n)
          BY DEF Places
        <5> QED
          BY <5>1, <5>2, FirstAbout
      <4> QED
        BY <2>1, <4>1
    <3>2. IsFiniteSet(1..n)
      <4>1. n \in Int /\ 1 \in Int
        OBVIOUS
      <4> QED
        BY ONLY <4>1, FS_Interval
    <3>3. IsFiniteSet(reps \cup 1..k)
      BY ONLY <3>1, <3>2, FS_Subset
    <3> QED
      BY <3>3, FS_CardinalityType
  <2> QED
    BY <2>2, <2>3, NewsAssumption
<1>9. SelectItems(ranked) =
         LET chosen == Chosen(ranked, reps \cup 1..filled)
         IN  SubSeq(chosen, 1, Min({Len(chosen), MaxDigest}))
  <2>1. reps = {Min({i \in DOMAIN ranked : a \in DOMAIN ranked[i].weights}) :
                   a \in {p \in ToSet(PrimaryAssets) :
                             {i \in DOMAIN ranked : p \in DOMAIN ranked[i].weights} # {}}}
    BY <1>1 DEF Firsts, Places
  <2>2. filled = Min({k \in 0..Len(ranked) :
                        k = Len(ranked) \/ Cardinality(reps \cup 1..k) >= MaxDigest})
    BY <1>2, <1>5
  <2>3. ~(Len(ranked) <= MaxDigest)
    BY NewsAssumption
  <2> QED
    BY ONLY <2>1, <2>2, <2>3 DEF SelectItems
<1> QED
  BY <1>1, <1>7, <1>8, <1>9

LEMMA FirstsInside ==
  ASSUME NEW T, NEW ranked \in Seq(T), NEW n \in Nat, n = Len(ranked),
         \A w \in T : DOMAIN w.weights \subseteq Assets
  PROVE  /\ Firsts(ranked) \in SUBSET (1..n) /\ IsFiniteSet(Firsts(ranked))
         /\ Cardinality(Firsts(ranked)) <= MaxDigest
<1>1. DOMAIN ranked = 1..n /\ \A i \in 1..n : ranked[i] \in T
  OBVIOUS
<1>2. PICK A : A = {p \in ToSet(PrimaryAssets) : Places(ranked, p) # {}}
  OBVIOUS
<1>3. ASSUME NEW a \in A PROVE Min(Places(ranked, a)) \in 1..n
  <2>1. Places(ranked, a) \in SUBSET (1..n) /\ Places(ranked, a) # {}
    BY <1>1, <1>2 DEF Places
  <2> QED
    BY <2>1, FirstAbout
<1>4. PICK f : f = [a \in A |-> Min(Places(ranked, a))]
  OBVIOUS
<1>5. Firsts(ranked) = {f[a] : a \in A}
  BY <1>2, <1>4 DEF Firsts
<1>6. Firsts(ranked) \in SUBSET (1..n)
  BY <1>3, <1>4, <1>5
<1>7. A \subseteq ToSet(PrimaryAssets) \cap Assets
  <2>1. ASSUME NEW a \in A PROVE a \in Assets
    <3>1. PICK i \in 1..n : a \in DOMAIN ranked[i].weights
      BY <1>1, <1>2 DEF Places
    <3> QED
      BY <1>1, <3>1
  <2> QED
    BY <1>2, <2>1
<1>8. IsFiniteSet(ToSet(PrimaryAssets) \cap Assets)
  <2>1. IsFiniteSet(Assets) /\ ToSet(PrimaryAssets) \cap Assets \subseteq Assets
    BY CoreDataAssumption
  <2> QED
    BY <2>1, FS_Subset
<1>9. IsFiniteSet(A) /\ Cardinality(A) <= Cardinality(ToSet(PrimaryAssets) \cap Assets)
  BY <1>7, <1>8, FS_Subset
<1>10. IsFiniteSet(Firsts(ranked)) /\ Cardinality(Firsts(ranked)) <= Cardinality(A)
  BY <1>5, <1>9, ImageFinite
<1>11. /\ Cardinality(Firsts(ranked)) \in Nat /\ Cardinality(A) \in Nat
       /\ Cardinality(ToSet(PrimaryAssets) \cap Assets) \in Nat
  BY <1>8, <1>9, <1>10, FS_CardinalityType
<1>12. Cardinality(ToSet(PrimaryAssets) \cap Assets) <= MaxDigest /\ MaxDigest \in Nat
  BY NewsAssumption
<1> QED
  BY <1>6, <1>9, <1>10, <1>11, <1>12

(* A digest has every representative, and the places it is filled up to.    *)
LEMMA Selection ==
  ASSUME NEW T, NEW ranked \in Seq(T), \A w \in T : DOMAIN w.weights \subseteq Assets
  PROVE  /\ Len(SelectItems(ranked)) = Min({MaxDigest, Len(ranked)})
         /\ \E K \in SUBSET DOMAIN ranked : \E filled \in Nat :
               /\ Range(SelectItems(ranked)) = {ranked[k] : k \in K}
               /\ Firsts(ranked) \subseteq K
               /\ \A k \in K : k \in Firsts(ranked) \/ k <= filled
               /\ \A j \in DOMAIN ranked \ K : filled < j
<1>1. PICK n \in Nat : n = Len(ranked) /\ DOMAIN ranked = 1..n
  OBVIOUS
<1>2. PICK cap \in Nat : cap = MaxDigest
  BY NewsAssumption
<1>3. PICK reps : reps = Firsts(ranked)
  OBVIOUS
<1>4. reps \in SUBSET (1..n) /\ IsFiniteSet(reps) /\ Cardinality(reps) <= cap
  BY <1>1, <1>2, <1>3, FirstsInside
<1>5. PICK s : s = SelectItems(ranked)
  OBVIOUS
<1>6. CASE n <= cap
  <2>1. s = ranked
    BY <1>1, <1>2, <1>5, <1>6 DEF SelectItems
  <2>2. Min({MaxDigest, Len(ranked)}) = n
    BY <1>1, <1>2, <1>6, MinOfTwo
  <2>3. Range(s) = {ranked[k] : k \in DOMAIN ranked}
    BY <2>1 DEF Range
  <2>4. \A k \in DOMAIN ranked : k <= n
    BY <1>1
  <2> QED
    BY <1>1, <1>3, <1>4, <1>5, <2>1, <2>2, <2>3, <2>4
<1>7. CASE n > cap
  <2>1. PICK filled \in 0..n :
           /\ filled = n \/ Cardinality(reps \cup 1..filled) >= cap
           /\ \A k \in 0..(filled - 1) : Cardinality(reps \cup 1..k) < cap
           /\ s = LET chosen == Chosen(ranked, reps \cup 1..filled)
                  IN  SubSeq(chosen, 1, Min({Len(chosen), cap}))
    BY <1>1, <1>2, <1>3, <1>5, <1>7, SelectedIs
  <2>2. PICK K : K = reps \cup 1..filled
    OBVIOUS
  <2>3. K \in SUBSET (1..n) /\ K \in SUBSET Int
    BY <1>4, <2>2
  <2>4. IsFiniteSet(K)
    <3>1. IsFiniteSet(1..n)
      BY FS_Interval
    <3> QED
      BY <2>3, <3>1, FS_Subset
  <2>5. PICK c \in Nat : c = Cardinality(K)
    BY <2>4, FS_CardinalityType
  <2>6. c = cap
    <3>1. c >= cap
      <4>1. CASE filled = n
        <5>1. K = 1..n
          BY <2>2, <2>3, <4>1
        <5>2. Cardinality(1..n) = n
          BY FS_Interval
        <5> QED
          BY <1>7, <2>5, <5>1, <5>2
      <4>2. CASE filled # n
        BY <2>1, <2>2, <2>5, <4>2
      <4> QED
        BY <4>1, <4>2
    <3>2. c <= cap
      <4>1. CASE filled = 0
        <5>1. K = reps
          BY <2>2, <4>1
        <5> QED
          BY <1>4, <2>5, <5>1
      <4>2. CASE filled # 0
        <5>1. PICK L : L = reps \cup 1..(filled - 1)
          OBVIOUS
        <5>2. Cardinality(L) < cap
          BY <2>1, <4>2, <5>1
        <5>3. K = L \cup {filled} /\ L \subseteq K
          BY <2>2, <4>2, <5>1
        <5>4. IsFiniteSet(L)
          BY <2>4, <5>3, FS_Subset
        <5>5. Cardinality(L) \in Nat
          BY ONLY <5>4, FS_CardinalityType
        <5>6. \/ Cardinality(L \cup {filled}) = Cardinality(L)
              \/ Cardinality(L \cup {filled}) = Cardinality(L) + 1
          BY ONLY <5>4, FS_AddElement
        <5>7. Cardinality(K) <= Cardinality(L) + 1
          BY ONLY <5>3, <5>5, <5>6
        <5> QED
          BY ONLY <1>2, <2>5, <5>2, <5>5, <5>7
      <4> QED
        BY <4>1, <4>2
    <3> QED
      BY <3>1, <3>2
  <2>7. PICK chosen : chosen = Chosen(ranked, K)
    OBVIOUS
  <2>8. /\ chosen \in Seq(T)
        /\ \A i \in 1..Len(chosen) : \E k \in K : chosen[i] = ranked[k]
        /\ \A k \in K : \E i \in 1..Len(chosen) : chosen[i] = ranked[k]
    <3>1. ranked \in Seq(T) /\ K \in SUBSET DOMAIN ranked
      BY <1>1, <2>3
    <3>2. /\ Chosen(ranked, K) \in Seq(T)
          /\ \A i \in 1..Len(Chosen(ranked, K)) : \E k \in K : Chosen(ranked, K)[i] = ranked[k]
          /\ \A k \in K : \E i \in 1..Len(Chosen(ranked, K)) : Chosen(ranked, K)[i] = ranked[k]
      BY ONLY <3>1, ChosenTyped
    <3> QED
      BY ONLY <2>7, <3>2
  <2>9. Len(chosen) = cap
    BY <2>3, <2>4, <2>5, <2>6, <2>7, ChosenList
  <2>10. Min({Len(chosen), cap}) = cap
    BY <2>9, MinOfTwo
  <2>11. s = SubSeq(chosen, 1, cap)
    BY <2>1, <2>2, <2>7, <2>10
  <2>12. s = chosen
    <3>1. \A i \in 1..cap : chosen[i] \in T
      BY <2>8, <2>9
    <3>2. /\ SubSeq(chosen, 1, cap) \in Seq(T)
          /\ Len(SubSeq(chosen, 1, cap)) = IF 1 <= cap THEN cap - 1 + 1 ELSE 0
          /\ \A i \in 1..(cap - 1 + 1) : SubSeq(chosen, 1, cap)[i] = chosen[1 + i - 1]
      BY <3>1, SubSeqProperties
    <3>3. s \in Seq(T) /\ Len(s) = cap /\ \A i \in 1..cap : s[i] = chosen[i]
      BY <2>11, <3>2
    <3> QED
      BY <2>8, <2>9, <3>3
  <2>13. Range(s) = {ranked[k] : k \in K}
    <3>1. DOMAIN chosen = 1..Len(chosen)
      BY <2>8
    <3>2. Range(s) = {chosen[i] : i \in 1..Len(chosen)}
      BY ONLY <2>12, <3>1 DEF Range
    <3>3. ASSUME NEW x \in Range(s) PROVE x \in {ranked[k] : k \in K}
      BY ONLY <2>8, <3>2, <3>3
    <3>4. ASSUME NEW k \in K PROVE ranked[k] \in Range(s)
      BY ONLY <2>8, <3>2, <3>4
    <3> QED
      BY ONLY <3>3, <3>4
  <2>14. Min({MaxDigest, Len(ranked)}) = cap
    BY <1>1, <1>2, <1>7, MinOfTwo
  <2>15. \A k \in K : k \in reps \/ k <= filled
    BY <2>2
  <2>16. \A j \in (1..n) \ K : filled < j
    BY <2>2
  <2>17. filled \in Nat /\ reps \subseteq K /\ K \in SUBSET DOMAIN ranked
    BY <1>1, <2>2, <2>3
  <2> QED
    BY <1>1, <1>3, <1>5, <2>9, <2>12, <2>13, <2>14, <2>15, <2>16, <2>17
<1>8. n <= cap \/ n > cap
  BY <1>1, <1>2
<1> QED
  BY ONLY <1>6, <1>7, <1>8

(* The digest of a run is made of the ranking.                              *)
LEMMA RunDigest ==
  ASSUME AnalysisInv, stage \in PastNews
  PROVE  /\ digest = SelectItems(Ranking)
         /\ Len(digest) = Min({MaxDigest, Len(Ranking)})
         /\ \E K \in SUBSET DOMAIN Ranking : \E filled \in Nat :
               /\ Range(digest) = {Ranking[k] : k \in K}
               /\ Firsts(Ranking) \subseteq K
               /\ \A k \in K : k \in Firsts(Ranking) \/ k <= filled
               /\ \A j \in DOMAIN Ranking \ K : filled < j
<1>1. stage \in PastBegin
  BY StageNames
<1>2. digest = SelectItems(Ranking)
  BY DEF AnalysisInv, NewsInv, Weigh, Ranking
<1>3. Ranking \in Seq(Weighted)
  BY <1>1, RankedItems
<1>4. \A w \in Weighted : DOMAIN w.weights \subseteq Assets
  BY <1>1, WeightedItems
<1> HIDE DEF Ranking
<1>5. /\ Len(SelectItems(Ranking)) = Min({MaxDigest, Len(Ranking)})
      /\ \E K \in SUBSET DOMAIN Ranking : \E filled \in Nat :
            /\ Range(SelectItems(Ranking)) = {Ranking[k] : k \in K}
            /\ Firsts(Ranking) \subseteq K
            /\ \A k \in K : k \in Firsts(Ranking) \/ k <= filled
            /\ \A j \in DOMAIN Ranking \ K : filled < j
  BY <1>3, <1>4, Selection
<1> QED
  BY ONLY <1>2, <1>5

LEMMA PrimaryCoverageHere == AnalysisInv => PrimaryCoverage
<1> SUFFICES ASSUME AnalysisInv, stage = "sentiment" PROVE PrimaryCoverage
  BY DEF PrimaryCoverage
<1>1. stage \in PastBegin /\ stage \in PastNews
  BY StageNames
<1>2. PICK ranked : ranked = Ranked(ingest.news_items, now)
  OBVIOUS
<1>3. /\ ranked \in Seq(Weighted) /\ Range(ranked) = Weighted
      /\ \A i, j \in DOMAIN ranked : i <= j => Weight(ranked[j]) <= Weight(ranked[i])
  BY <1>1, <1>2, RankedItems DEF Ranking
<1>4. /\ Len(digest) = Min({MaxDigest, Len(ranked)})
      /\ \E K \in SUBSET DOMAIN ranked : \E filled \in Nat :
            /\ Range(digest) = {ranked[k] : k \in K}
            /\ Firsts(ranked) \subseteq K
            /\ \A k \in K : k \in Firsts(ranked) \/ k <= filled
            /\ \A j \in DOMAIN ranked \ K : filled < j
  BY <1>1, <1>2, RunDigest DEF Ranking
<1>5. PICK K \in SUBSET DOMAIN ranked : \E filled \in Nat :
         /\ Range(digest) = {ranked[k] : k \in K}
         /\ Firsts(ranked) \subseteq K
         /\ \A k \in K : k \in Firsts(ranked) \/ k <= filled
         /\ \A j \in DOMAIN ranked \ K : filled < j
  BY <1>4
<1>6. PICK filled \in Nat :
         /\ Range(digest) = {ranked[k] : k \in K}
         /\ Firsts(ranked) \subseteq K
         /\ \A k \in K : k \in Firsts(ranked) \/ k <= filled
         /\ \A j \in DOMAIN ranked \ K : filled < j
  BY <1>5
<1>7. PICK n \in Nat : n = Len(ranked) /\ DOMAIN ranked = 1..n
  BY <1>3
<1> DEFINE About(a) == {w \in Range(ranked) : a \in DOMAIN w.weights}
           Heaviest(a, w) == w \in About(a) /\ \A v \in About(a) : Weight(v) <= Weight(w)
\* The representative of an asset is its heaviest article.
<1>8. ASSUME NEW a, Places(ranked, a) # {}
      PROVE  /\ Min(Places(ranked, a)) \in DOMAIN ranked
             /\ Heaviest(a, ranked[Min(Places(ranked, a))])
  <2>1. PICK m : m = Min(Places(ranked, a))
    OBVIOUS
  <2>2. Places(ranked, a) \in SUBSET (1..n)
    BY <1>7 DEF Places
  <2>3. m \in Places(ranked, a) /\ \A k \in Places(ranked, a) : m <= k
    BY <1>8, <2>1, <2>2, FirstAbout
  <2>4. m \in DOMAIN ranked /\ ranked[m] \in About(a)
    BY <2>3 DEF Places, Range
  <2>5. ASSUME NEW v \in About(a) PROVE Weight(v) <= Weight(ranked[m])
    <3>1. PICK k \in DOMAIN ranked : v = ranked[k] /\ k \in Places(ranked, a)
      BY DEF Places, Range
    <3>2. m <= k
      BY <2>3, <3>1
    <3> QED
      BY <1>3, <2>4, <3>1, <3>2
  <2> QED
    BY <2>1, <2>4, <2>5
<1>9. ASSUME NEW a \in ToSet(PrimaryAssets), About(a) # {}
      PROVE  \E w \in Range(digest) : Heaviest(a, w)
  <2>1. Places(ranked, a) # {}
    BY <1>9 DEF Places, Range
  <2>2. PICK m : m = Min(Places(ranked, a))
    OBVIOUS
  <2>3. m \in Firsts(ranked)
    BY <2>1, <2>2 DEF Firsts
  <2>4. ranked[m] \in Range(digest)
    BY <1>6, <2>3
  <2>5. Heaviest(a, ranked[m])
    BY <1>8, <2>1, <2>2
  <2> QED
    BY <2>4, <2>5
<1>10. ASSUME NEW v \in Range(ranked), v.id \notin Digested,
              NEW w \in Range(digest), \A a \in ToSet(PrimaryAssets) : ~Heaviest(a, w)
       PROVE  Weight(v) <= Weight(w)
  <2>1. PICK j \in DOMAIN ranked : v = ranked[j]
    BY DEF Range
  <2>2. PICK k \in K : w = ranked[k]
    BY <1>6
  <2>3. j \notin K
    <3>1. j \in K => v \in Range(digest)
      BY <1>6, <2>1
    <3>2. v \in Range(digest) => v.id \in Digested
      BY DEF Range, Digested
    <3> QED
      BY <1>10, <3>1, <3>2
  <2>4. k \notin Firsts(ranked)
    <3> SUFFICES ASSUME k \in Firsts(ranked) PROVE FALSE
      OBVIOUS
    <3>1. PICK a \in ToSet(PrimaryAssets) : Places(ranked, a) # {} /\ k = Min(Places(ranked, a))
      BY DEF Firsts
    <3>2. Heaviest(a, w)
      BY <1>8, <2>2, <3>1
    <3> QED
      BY <1>10, <3>2
  <2>5. k <= filled /\ filled < j /\ k \in 1..n /\ j \in 1..n
    BY <1>6, <1>7, <2>3, <2>4
  <2>6. k <= j
    BY <2>5
  <2> QED
    BY <1>3, <1>7, <2>1, <2>2, <2>5, <2>6
<1> HIDE DEF About, Heaviest
<1>11. \A v \in {u \in Range(ranked) : u.id \notin Digested},
          w \in {u \in Range(digest) : \A a \in ToSet(PrimaryAssets) : ~Heaviest(a, u)} :
             Weight(v) <= Weight(w)
  BY <1>10
<1>12. \A a \in ToSet(PrimaryAssets) :
          About(a) # {} => \E w \in Range(digest) : Heaviest(a, w)
  BY <1>9
<1>13. Len(digest) = Min({MaxDigest, Len(ranked)})
  BY <1>4
<1> USE DEF About, Heaviest
<1> QED
  BY <1>2, <1>11, <1>12, <1>13 DEF PrimaryCoverage

(* See PrimaryCoverage in OrchestratorProperties.                           *)
THEOREM NoPrimaryAssetStarves == Spec => []PrimaryCoverage
<1>1. AnalysisInv => PrimaryCoverage
  BY PrimaryCoverageHere
<1> QED
  BY <1>1, AnalysisInvariant, PTL

(* What the digest is about is what a fresh article of it is about.         *)
LEMMA EvidenceIsDigested ==
  ASSUME AnalysisInv, stage \in PastNews
  PROVE  sentiment_assets =
            {a \in Assets : \E item \in Fetched :
                item.id \in Digested /\ IsFresh(item, now) /\ Relevance(item, a) > 0}
<1>1. stage \in PastBegin
  BY StageNames
<1>2. Ranking \in Seq(Weighted) /\ Range(Ranking) = Weighted
  BY <1>1, RankedItems
<1>3. PICK K \in SUBSET DOMAIN Ranking : Range(digest) = {Ranking[k] : k \in K}
  <2>1. \E K \in SUBSET DOMAIN Ranking : \E filled \in Nat :
           /\ Range(digest) = {Ranking[k] : k \in K}
           /\ Firsts(Ranking) \subseteq K
           /\ \A k \in K : k \in Firsts(Ranking) \/ k <= filled
           /\ \A j \in DOMAIN Ranking \ K : filled < j
    BY RunDigest
  <2> QED
    BY <2>1
<1>4. Range(digest) \subseteq Weighted
  BY <1>2, <1>3 DEF Range
<1>5. \A x, y \in Fetched : x.id = y.id => x = y
  BY <1>1, RunNews
<1>6. \A w \in Weighted :
         \E item \in Fetched : /\ item.id = w.id /\ IsFresh(item, now)
                               /\ DOMAIN w.weights = Relevant(item)
  BY <1>1, WeightedItems
<1>7. ASSUME NEW a
      PROVE  a \in sentiment_assets <=> \E i \in DOMAIN digest : a \in DOMAIN digest[i].weights
  BY DEF sentiment_assets, DigestAssets
<1>8. ASSUME NEW i \in DOMAIN digest
      PROVE  digest[i] \in Weighted /\ digest[i].id \in Digested
  BY <1>4 DEF Range, Digested
<1>9. ASSUME NEW a \in sentiment_assets
      PROVE  a \in Assets /\ \E item \in Fetched :
                item.id \in Digested /\ IsFresh(item, now) /\ Relevance(item, a) > 0
  <2>1. PICK i \in DOMAIN digest : a \in DOMAIN digest[i].weights
    BY <1>7
  <2>2. PICK item \in Fetched : /\ item.id = digest[i].id /\ IsFresh(item, now)
                                /\ DOMAIN digest[i].weights = Relevant(item)
    BY <1>6, <1>8
  <2>3. item.id \in Digested
    BY <1>8, <2>2
  <2> QED
    BY <2>1, <2>2, <2>3 DEF Relevant
<1>10. ASSUME NEW a \in Assets, NEW item \in Fetched, item.id \in Digested, IsFresh(item, now),
              Relevance(item, a) > 0
       PROVE  a \in sentiment_assets
  <2>1. PICK i \in DOMAIN digest : item.id = digest[i].id
    BY <1>10 DEF Digested
  <2>2. PICK other \in Fetched : /\ other.id = digest[i].id
                                 /\ DOMAIN digest[i].weights = Relevant(other)
    BY <1>6, <1>8
  <2>3. other = item
    BY <1>5, <2>1, <2>2
  <2>4. a \in DOMAIN digest[i].weights
    BY <1>10, <2>2, <2>3 DEF Relevant
  <2> QED
    BY <1>7, <2>4
<1> QED
  BY <1>9, <1>10

LEMMA EvidenceBackedHere == AnalysisInv => EvidenceBacked
<1> SUFFICES ASSUME AnalysisInv, stage = "done" PROVE EvidenceBacked
  BY DEF EvidenceBacked
<1>1. stage \in PastNews /\ stage \in PastSentiment
  BY StageNames
<1>2. PICK evidence :
         evidence = {a \in Assets :
                       \E item \in Range(ingest.news_items) :
                          item.id \in Digested /\ IsFresh(item, now) /\ Relevance(item, a) > 0}
  OBVIOUS
<1>3. evidence = sentiment_assets
  BY <1>1, <1>2, EvidenceIsDigested DEF Fetched
<1>4. ASSUME NEW a \in Assets, run.assets[a].scores.sentiment # None PROVE a \in evidence
  <2>1. run.assets[a] =
           [Plain(a) EXCEPT !.scores.sentiment = IF Told(a) THEN sentiment[a] ELSE None,
                            !.summary = narration # None /\ a \in narration]
    BY ComposedAssets
  <2>2. run.assets[a].scores.sentiment = IF Told(a) THEN sentiment[a] ELSE None
    BY <2>1 DEF Plain, AssembleAsset
  <2>3. sentiment # None /\ a \in DOMAIN sentiment
    BY <1>4, <2>2 DEF Told
  <2>4. PICK answer \in Sentiments : sentiment = OfEvidence(answer, sentiment_assets)
    BY <1>1, <2>3 DEF AnalysisInv, SentimentInv
  <2>5. DOMAIN sentiment = DOMAIN answer \cap sentiment_assets
    BY <2>4 DEF OfEvidence, Restrict
  <2> QED
    BY <1>3, <2>3, <2>5
<1>5. "sentiment_degraded" \in Codes(run) <=> sentiment_failed
  <2>1. PICK flags : flags = run.guardrail_flags
    OBVIOUS
  <2>2. Range(flags) = {Flag(code, None) : code \in FailureCodes} \cup Conflicts
    BY <2>1, PublishedFlags, ComposedFlags
  <2>3. "sentiment_degraded" \in Codes(run)
           <=> \E f \in Range(flags) : f.code = "sentiment_degraded"
    BY <2>1 DEF Codes, Range
  <2>4. \A code : Flag(code, None).code = code
    BY DEF Flag
  <2>5. \A f \in Conflicts : f.code = "rule_conflict"
    BY DEF Conflicts, Flag
  <2>6. "sentiment_degraded" \in FailureCodes <=> sentiment_failed
    BY DEF FailureCodes, Failed
  <2> QED
    BY <2>2, <2>3, <2>4, <2>5, <2>6
<1>6. sentiment_failed <=> evidence # {} /\ sentiment = None
  BY <1>3 DEF sentiment_failed
<1>7. \A a \in Assets : run.assets[a].scores.sentiment # None => a \in evidence
  BY <1>4
<1> QED
  BY <1>2, <1>5, <1>6, <1>7 DEF EvidenceBacked

(* See EvidenceBacked in OrchestratorProperties.                            *)
THEOREM SentimentHasEvidence == Spec => []EvidenceBacked
<1>1. AnalysisInv => EvidenceBacked
  BY EvidenceBackedHere
<1> QED
  BY <1>1, AnalysisInvariant, PTL

=============================================================================
