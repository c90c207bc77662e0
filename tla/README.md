# Market State Engine: specification and proofs

TLA+ modules, TLC configurations and TLAPS proofs for the Market State Engine
(`src/src/market_state_engine`): a FastAPI service that, on a macro event or on request, runs a
deterministic pipeline over market data, lets language models add sentiment and a narrative, and
persists one immutable run. Paths below are relative to that package unless they start with `docs/`.

## 1. The system

| Component | State it keeps | Operations | Interacts with |
|---|---|---|---|
| Event trigger (`pipeline/event_trigger.py`) | a lock; everything else is re-read from `macro_events` and `event_log` | `submit` | called by API threads; calls the scheduler; writes one row per transaction |
| Scheduler (`pipeline/scheduler.py`) | a lock taken without waiting | `trigger`, `run_event`, `run_manual`, `run_scheduled`, `run_replay` | reads the next sequence, ingests, calls the run service |
| Run service (`pipeline/runner.py`) | the call-record list shared with the gateway | `execute` | one database session around the orchestrator |
| Orchestrator (`pipeline/orchestrator.py`) | none | `run` | features, news, scoring, rules, assembly, guardrails, two reasoning jobs |
| LLM gateway (`reasoning/gateway.py`) | breakers, health | `analyze_sentiment`, `synthesize` | router, retry, timeout, breaker, vendor adapters |
| Circuit breaker (`reasoning/reliability/circuit_breaker.py`) | state, failure times, opening time | `allows`, `record_success`, `record_failure` | one per provider, for the life of the process |
| Replay (`reasoning/replay.py`, `reasoning/adapters/replay.py`, `evaluation/replay_harness.py`) | queues of recorded calls | `load`, `replay`, `verify_replay` | a whole second container over recorded adapters |
| Persistence (`persistence/`) | the tables | repositories, `session()`, migrations | everything above |
| Features, news weigher, scoring and regime, rules, assembly, guardrails (`features/`, `news/`, `scoring/`, `rules/`, `assembly/`, `guardrails/`) | none (pure) | `compute`, `weigh`, `score`, `match`, `assemble`, `validate` | called by the orchestrator in this order; each takes what the ones before it made |
| Ingestion (`ingestion/real/`, `persistence/last_good.py`, `persistence/total_mcap_history.py`) | `last_good_snapshots`, `total_mcap_samples` | one fetch per source in a fixed order, `record`, `get`, `record_and_list` | HTTP vendors; called by the scheduler under its lock, each store call a transaction |
| HTTP API (`api/`), evaluation, observability | counters | endpoints, reports | read the tables |

### What is hard about it

* *Two locks and many transactions.* `submit` holds the trigger lock across six transactions and a
  whole pipeline run; manual runs take only the scheduler lock. Decisions are read early and used
  late.
* *Restarts.* Nothing survives but the tables: the debounce window, the pending events and the
  sequence are reconstructed from rows written in separate transactions.
* *Partial failure.* Any transaction, stage or provider can raise at any step; the run and the row
  that consumes its events are not committed together.
* *A breaker that moves when it is looked at*, its history, retries and deadlines.
* *A list shared outside the session* (call records), surviving a run that failed.
* *Replay*: recorded outcomes fed through the same retry and breaker machinery that produced them.
* *Sources that disagree, lag, run ahead or fail*, each dated by a clock of its own, and a fallback
  table that is written while the ingestion goes on and read by later ones.
* *A document put together in many places*: the deterministic core, two language-model jobs that may
  fail independently, and guardrails which compare what the others left. What a reader sees of a
  number (a change of 0, a causal link, a sentiment) has to agree with inputs six stages earlier.

`PROJECT.json` lists these hazards at their lines with the properties that would catch them.

## 2. Modules

| Module | What it is |
|---|---|
| `EventTrigger` | the trigger path: threads, two locks, one action per transaction, lock operation or clock read; errors and crashes |
| `DebounceContract` | what the trigger promises, without threads, locks or tables |
| `EventTriggerProperties` | its properties, the two inductive invariants, the refinement mapping |
| `EventTriggerProofs` | theorems: the submissions, the refinement, the runs and rows that submissions leave behind |
| `MCEventTrigger` | its symmetry for TLC |
| `CircuitBreaker` | one breaker: a record and its methods as operators |
| `ReasoningJob` | what one reasoning job promises its caller (`JobKept`) |
| `LLMGateway` | the failover chain over breakers, retries, deadlines; jobs one after another, time passing during calls |
| `LLMGatewayProperties` | its properties, judged by the call records, and the inductive invariant |
| `LLMGatewayProofs` | theorems about the chain and the breakers |
| `RunService` | `execute` around the orchestrator: session, sink, rows, rollback, crash |
| `RunServiceProperties`, `MCRunService` | its properties with the inductive invariant, and its symmetry |
| `RunServiceProofs` | theorems about what an execution leaves in the tables |
| `Replay` | the gateway live, then a fresh gateway over the records of a stored run |
| `ReplayProofs` | the inductive invariant of the replay, and the theorems |
| `SourceSeries` | what the adapters make of an answer: thinned charts, six-hour bars, merged daily bars, changes from samples, the audited median |
| `Ingestion` | `real_ingest_provider`: stages in their order, the two tables, store failures, crashes |
| `IngestionProperties`, `MCIngestion` | its properties and its instance |
| `SourceSeriesProofs` | lemmas: what each adapter makes of an answer, thinned and merged series in order, the audited median |
| `IngestionProofs` | the inductive invariant of the ingestion, and the theorems |
| `Listing` | lists made of sets and of other lists, and sums, as the stages need them |
| `ListingProofs` | lemmas: extremes of finite sets, arranging, choosing, counting, summing, recursion over an interval |
| `CoreData` | the enumerations and the document of `core/`, as sets |
| `News` | merging of feeds, relevance, weights, the capped digest |
| `MarketFeatures` | changes, indicators, surprises |
| `Rules` | condition variables, matching, guards, conflicts, activations |
| `Scoring` | trend, risk, confidence, market health index, the regime |
| `Assembly` | the document, the composition with the jobs' answers, the four guardrails |
| `Orchestrator` | `PipelineOrchestrator.run` over the six modules above, one action per stage, run after run |
| `OrchestratorProperties`, `MCOrchestrator` | its properties and the inductive invariant; markets, events and news for it |
| `OrchestratorProofs` | theorems about what a run publishes |

`RunService` is not composed with `LLMGateway` state by state. Its reasoning jobs are any that keep
`ReasoningJob!JobKept`, and the run `failover` checks, as part of `ChainFollowed`, that every job of
`LLMGateway` does. In the same way a run is one atomic transaction in `EventTrigger`; the run
`run_service` checks (`PersistedTogether`) that it is. `Ingestion` ends with the bundle that
`Orchestrator!Begin` starts from; the two are checked apart, since a bundle is nothing but data, and
the cases of `MCOrchestrator` include missing series, missing prices and failed feeds. The two jobs
of `Orchestrator` answer or fail; `RunService` has the same two with the records they leave.

### Correspondence to the code

`EventTrigger`. The tables are `macro_events`, `event_log` (the `EVENT_*` rows), and `runs`; `pc`,
`req`, `now`, `pending`, `ctx`, `run_id` are a thread's place and locals. `EnterTrigger` .. `Decide`
are lines 56-89 of `submit`; `RunEvent`, `RecordTriggered`, `RecordFailed`, `RecordDebounced` are
`_execute_pending`; `TriggerRun`, `MakeContext`, `CommitRun`, `FailRun` are `Scheduler.trigger`.
`DatabaseError` is a transaction of `submit` that raises (rolled back, lock released by the `with`).
`Crash` loses threads and locks and keeps the tables. Events carry an `actual` figure or not
(`CompleteEvents`); surprise values, payload texts and the two orderings of a batch are left out. A
manual or scheduled trigger that finds the scheduler busy changes nothing and is not an action.
Everything is one process, as deployed: two processes on one database would share no lock.

`LLMGateway`. `Ask`, `SkipOpen`, `Call`, `Degrade` are the loop of `_run`; the five ways a call ends
are `CallSucceeds`, `CallInvalid`, `CallTimesOut`, `CallRaises`, `CallEscapes`. Providers are
numbers in priority order; `FirstPicks` are those the router's weights or priority may put first
(the hash of the run id decides, so any of them can). `MonotonicWired` tells whether the gateway was
given a monotonic clock; `build_container` gives it none. A live call can end late only when the
clock is wired: adapters map their clients' timeouts to plain call errors.

`RunService`. `session` holds the rows added so far; `Commit` moves them to the tables, `Close`
forgets them. `Reason` is a reasoning job with the records it leaves in the sink. The deterministic
stages appear as `StageFails`. `Exists` is the idempotency check.

`Replay`. `Load` picks the last one or two jobs of the live phase as a stored run, lists its records
as the repository does (by time, then attempt index, ties in any order), and builds the queues.
`CompleteUnknown`, `CompleteTimeout`, `CompleteError`, `CompleteSuccess` are
`ReplayProvider.complete`; the retries and breakers around them are those of `LLMGateway`.

`SourceSeries`. One operator per adapter, from the answer of its source to a snapshot or `None` (it
raised). Prices are numbers, of a series only the closes are kept, an instant is a tick, and a date
is the day of an instant where the source lives (`TehranOffset`). `Downsample` has Python's rounding
of halves. `Agreed` is what `aggregate_snapshots` makes of enough young sources, `Aggregate` the
whole of it with its refusals; `SelectIndicator` chooses the series. What the code sorts is
`Ascending` (`Listing`).

`Ingestion`. A path is the part of the fixed order (`AllStages`) that an execution follows; the
symbols share only the clock and, for the capitalisation, the snapshot fetched first, so each path
can be checked by itself. A crypto symbol is three questions and a merge. `PublishLive` and
`PublishLastGood` are the two halves of every symbol's branch; each of their calls to a store may
fail and be swallowed. `Crash` is the death of the process and also any later stage that raises: in
both the tables stay. Tables and bundle are dictionaries, partial functions written by `Put`: a key
that is not there is what the code sees as missing. `heard` keeps, by symbol and source, what the
sources of a crypto symbol answered. `newest` is a history variable, the latest `as_of` ever put into
the store. News, the dominance snapshot, and events, which failing leaves empty, are not kept.

`News`, `MarketFeatures`, `Rules`, `Scoring`, `Assembly`. Pure operators over integers, with their
units in the heads of the modules. What a text says is what the patterns would find in it (assets,
topics), so regular expressions are inputs. Indicators are exact fractions scaled by `Precision`
with their periods as constants; scores are thousandths rounded down, so that a last digit may differ
from the code's floating point, and no property depends on one. A flag is its code and asset, a
summary only there or not.

`Listing` is how these modules say `sort`, a filtered comprehension and `sum`: `Arranged(S, R)` has
at place `k` the member of `S` with `k - 1` others before it in the order `R`, `Chosen(s, K)` what is
in `s` at the places `K`, `Total(s)` the sum. TLC computes the same as with the community modules'
folds; the provers can use them, which fold over an operator parameter they cannot. `Collect` is one
article of the loop of `fetch_items`, `CollectAll` and `Collected` the loops.

`Orchestrator`. One action per numbered stage of `run`. `Begin` takes one of `Cases`, what the
outside can offer; `AskSentiment` and `AskSynthesis` may answer or fail; `PreviousState` is what the
container wires, nothing. `last_regime` is kept for `RegimeRemembered` only.

Definitions commented *Seeded fault* are deliberately broken variants of the definition that
follows. No specification uses them; each property is also run against one of them to see that it
can fail.

## 3. Runs

| Run | Instance | Shows |
|---|---|---|
| `event_trigger` | 2 threads, 3 complete events and 1 without a figure, cooldown 2, clock 0..2, 1 manual run, 1 fault; symmetric threads and complete events | `BatchFresh`, `TriggeredNamesItsRun`, `TriggeredSpaced`, `BatchTakesAllBefore`, `SequenceDense`, `RunsPerEventBounded`, `EventRunsSpaced`, `LatestIsLastCommitted`, `AnsweredIsDurable`, and the refinement `ImplementsContract` |
| `event_trigger_live` | 2 threads, 2 events, manual and scheduled runs, 1 fault, fairness, no symmetry | `LocksReleased` |
| `breaker` | 1 provider, threshold 2, window 1, cool-down 2, 1 retry, 5 jobs, clock 0..5 | `BreakerMatchesRecords`, `SkipsFollowHistory` |
| `failover` | 3 providers, two possible first picks, threshold 1, 3 jobs, clock 0..2, fairness | `ChainFollowed`, `JobsEnd` |
| `run_service` | 2 run ids, 2 providers, 3 executions | `PersistedTogether`, `CallsAreTheRuns`, `StatusMatchesCalls`, `RetriggerIsNoop` |
| `replay` | 2 providers, threshold 2, 4 live jobs, clock 0..2, stored runs of 1 or 2 jobs | `ReplayAnswersAlike`, `VerifiedExactly` |
| `ingestion` | one path for each kind of symbol; prices 100, 104, 120 (deviations below and above the threshold of 5 %), charts of 1 and 4 points thinned to 2, answers 1 ahead of, at, and 2 behind the clock, days of 4 ticks; 3 ingestions, clock 10..11; stores fail, the process dies | `CryptoPriceSound`, `SeriesEndsWithValue`, `McapHistoryReal`, `FallbackIsNewest`, `PriceSurvives` |
| `analysis` | 4 assets of 4 classes, 5 rules (the two of the rulebook and three that oppose them), 3 feeds, about 200 cases, runs at two instants, both jobs answering or failing | `NewsComplete`, `PrimaryCoverage`, `EvidenceBacked`, `StrongestEffectWins`, `GuardedRulesWait`, `ActivationsNameTheirEvent`, `GuardrailsSilent`, `ChangesAreReal` |

Why the bounds are enough. *event_trigger*: a stale decision needs two threads (the trigger lock
serialises submissions, so a third only repeats the second); losing or repeating an event needs a
debounced event, the one that takes it along, and a fault between commit and row; the clock reaches
the end of one cooldown, so both sides of it occur. *breaker*: five jobs reach closed, open, probe
failed, probe succeeded, open again; six instants let failures leave the window and a cool-down end
twice. *failover*: three providers are the fewest for which the order after a first pick matters.
*run_service*: three executions are a failure, its retry and a repetition, with a second run id in
between. *replay*: two failing live jobs open a breaker before the stored run starts.
*ingestion*: a wrong fallback needs a snapshot stored, a second that must or must not replace it,
and a failure, so three ingestions; the two instants fall on different days in Tehran only; series
of two bars are the shortest with an order. *analysis*: the cases vary market, events and news one at
a time, since the stages meet only in the regime and in the document; the markets reach every regime,
every indicator state but ties of the averages, and every length of series around each horizon; the
events reach every rule, both sides of the material window, two and three events of one type and
opposing effects of equal strength; the news reach merges in both orders, undated, future, old and
untitled entries, failed feeds, and a digest over its cap. A run depends on the one before it only
through the tables, which are not modelled here, so the sequence of runs adds only the clock.

Fairness. In `EventTrigger` a thread that holds a lock keeps running and a free trigger lock is
taken by somebody (weak fairness): Python threads are scheduled and `Lock` is released in `with` and
`finally` blocks. No waiting thread is promised its turn, since `Lock` is not fair. In `LLMGateway`
a job under way goes on, since vendor clients have their own timeouts. Nobody is obliged to call,
and time need not pass.

`CHECK_DEADLOCK FALSE` is set where the bounded number of jobs or executions ends the behaviour.

### Where the code does not do what its documents say

Four runs each check one statement, and TLC refutes it.

| Run | Statement | What happens |
|---|---|---|
| `manual_run` | `docs/architecture/pipelines.md:24`: at most one event run per window | `run_manual` is filed as an event run and knows nothing of the cooldown |
| `zero_clock` | `circuit_breaker.py:7-8`: skipped until the cool-down elapses | with no monotonic clock wired an open breaker stays open until restart |
| `regime_memory` | `docs/product/03-use-cases.md:68`: `previous_state` reflects the prior run | no `previous_state_provider` is wired: it is always null, and `changed_this_run` always true |
| `undated_news` | `docs/product/04-prd.md:184`: invalid and over-age news are excluded | an article without a readable date is dated now |

The passing runs state what the code does where a document says something else:

| Property | Statement | What holds |
|---|---|---|
| `RunsPerEventBounded` | `event_trigger.py:3-6`: debounce state is restart-safe | only up to one more run per fault: a crash between the run's commit and its `EVENT_TRIGGERED` row forgets the run |
| `PersistedTogether` | `runner.py:3-4`: failures are recorded | the row is rolled back with the run |
| `PersistedTogether` | `docs/architecture/pipelines.md:215`: a dependency never aborts the pipeline | a response the adapter cannot map raises past the gateway, and nothing is persisted |
| `VerifiedExactly` | `adapters/replay.py:3-7`: replay reproduces recorded failures | a recorded skip, or a timeout that may be retried, comes back as an error |
| `ChangesAreReal` | `docs/contracts/market-state-run-schema.md:96`: a missing horizon is declared | only 6 hours, and those of TOTAL_MCAP; the others are published as 0 |
| `CryptoPriceSound` | `docs/adr/ADR-009-crypto-price-aggregation.md:40`: fresh observations | fresh by the `as_of` they claim; Gate's is the time of the run |
| `FallbackIsNewest` | `persistence/repositories.py:371`: the latest successful snapshot | the latest by its own timestamp, and that of oil may be in the future |

`RunsPerEventBounded` and `EventRunsSpaced` say what remains true of the first two: without faults
event runs keep their distance, and each fault can repeat an event at most once.

Further observations that no run states: a half-open "single probe" makes up to `retries + 1` calls;
the weighted first pick does not look at health; with `failure_threshold` 1, which `reasoning/provider_config.py:42` allows, and a live
gateway whose monotonic clock runs, a replay can end otherwise than its run (section 4, *The replay*);
timestamps are compared as text, where one without microseconds sorts
after one with them in the same second; the listing of runs pages by offset, so that a run committed
between two pages repeats one; `uncertain` of an effect reaches no document, so the policy
`flag_uncertain` changes nothing a reader sees; a rule with a misspelt condition or policy passes the
loader and fails runs later (section 4); one that names an asset twice would compete with itself,
where `Rules` has one effect for each asset of a rule, as the files have; the hot-CPI rule is guarded for `risk_off` while its
own event makes the regime `event_driven` (what `GuardedRulesWait` states in general); an asset
without any data has a health index of 73, as its trend and risk of 0 are taken for values, where
`scoring/mhi.py:41` has 50 for "nothing is scoreable".

## 4. Proofs

Every theorem holds for all values of the constants that satisfy the ASSUMEs of its modules; TLC
evaluates those on the instances of section 3. Each invariant theorem goes the same way: an inductive
invariant (which TLC checked first, as an invariant of the run's instance), one lemma per action or
group of actions, under it one step per conjunct the action can disturb, and at the end the property
as a consequence.

| Module | Theorem | States |
|---|---|---|
| `EventTriggerProofs` | `TriggerInvariant`, `TypeCorrect` | `TriggerInv`, `TypeOK` |
| | `BatchStaysFresh`, `TriggeredRowsNameRuns`, `TriggeredRowsSpaced`, `SequenceHasNoGaps` | `BatchFresh`, `TriggeredNamesItsRun`, `TriggeredSpaced`, `SequenceDense` |
| | `TriggerImplementsContract` | the refinement `ImplementsContract` |
| | `HistoryInvariant` | `HistoryInv` |
| | `BatchesLeaveNobodyBehind`, `EventsRunOnce`, `EventRunsKeepCooldown`, `LatestIsTheLastRun` | `BatchTakesAllBefore`, `RunsPerEventBounded`, `EventRunsSpaced`, `LatestIsLastCommitted` |
| | `AnswersAreDurable` | the action property `AnsweredIsDurable` |
| `RunServiceProofs` | `RunServiceInvariant`, `TypeCorrect` | `RunServiceInv`, `TypeOK` |
| | `RunsPersistedTogether`, `CallsBelongToRuns`, `StatusFollowsCalls` | `PersistedTogether`, `CallsAreTheRuns`, `StatusMatchesCalls` |
| | `RetriggerChangesNothing` | the action property `RetriggerIsNoop` |
| `LLMGatewayProofs` | `GatewayInvariant`, `GatewayTypes` | `GatewayInv`, `TypeOK` |
| | `BreakersRemember`, `SkipsAreEarned`, `ChainsAreWalked` | `BreakerMatchesRecords`, `SkipsFollowHistory`, `ChainFollowed` |
| `ReplayProofs` | `ReplayInvariant` | `ReplayInv` |
| | `ReplaysAgree`, `VerdictsAreExact` | `ReplayAnswersAlike`, `VerifiedExactly` |
| `IngestionProofs` | `IngestionInvariant`, `IngestionTypes` | `IngestInv`, `TypeOK` |
| | `CryptoPricesSound`, `CapHistoryReal`, `FallbacksNewest`, `PricesSurvive`, `SeriesEnd` | `CryptoPriceSound`, `McapHistoryReal`, `FallbackIsNewest`, `PriceSurvives`, `SeriesEndsWithValue` |
| `OrchestratorProofs` | `AnalysisInvariant`, `DocumentsOfTheContract` | `AnalysisInv`, `TypeOK` |
| | `EveryArticleOnce`, `NoPrimaryAssetStarves`, `SentimentHasEvidence` | `NewsComplete`, `PrimaryCoverage`, `EvidenceBacked` |
| | `StrongestOfTheRules`, `RulesWaitForTheirRegime`, `LinksNameTheEventOfTheirRule` | `StrongestEffectWins`, `GuardedRulesWait`, `ActivationsNameTheirEvent` |
| | `NothingToFlag`, `PublishedChangesAreReal` | `GuardrailsSilent`, `ChangesAreReal` |

Two modules hold only lemmas. `ListingProofs` also has what replaces induction over data, whose
library theorems take an operator: `Climb` (a set with `lo` and the successor of each member below
`hi` has all of `lo..hi`) and `RecursionExists` (the function that a recursive LET chooses is there
and has its values where the definition says).

### The trigger: submissions

Any sets of threads and events, any cooldown, any bounds (`TriggerAssumption`).

`BatchFresh` is not inductive alone. That a batch is still what is pending when it is recorded needs
that no other thread is between `decide` and its record; this is `LockInv` (a thread holds the
trigger lock exactly while inside `submit`, the scheduler lock exactly while inside a run), which
needs `FrameInv` (what a frame holds at each step). `TriggeredNamesItsRun` needs `CommittedInv` (the
run whose row is due), `TriggeredSpaced` needs `LastTriggeredInv` (the last row exists and no stamp
lies in the future) and `now <= clock`; `SequenceDense` needs that a number read under the scheduler
lock is still the next one. `TriggerInv` is their conjunction. The refinement maps `PersistEvent` to
`Accept`, `RecordTriggered` to `TakeBatch`, `Tick` to `PassTime`, and everything else to a stutter;
`TakeBatch` is allowed because of `BatchFresh` and `LastTriggeredInv`.

### The trigger: runs and rows

`HistoryInv` stands on `TriggerInv`. `LatestIsLastCommitted` orders runs by a number while the clock
orders them by an instant: `RunClockInv` says that the two agree, also for the run under way, which
has read the clock after every committed run. `RunsPerEventBounded` counts, and a count over a set of
runs moves in two places: a commit adds a run of the batch, a `triggered` row settles its events.
`RunsPerEventInv` keeps the two together: at most one run per fault, and one more exactly when the
event is settled (consumed by a row, or with the thread that is about to write it). The commit's case
uses `BatchFresh`: no event of a batch being run is settled already. `EventRunsSpaced` speaks of runs
and the cooldown of rows; `RunRowsInv` dates each row after its run and, without faults, gives each
event run its row or a thread on the way to it. `AnsweredIsDurable` needs `AcceptedInv`.

### The run service

Any providers, run ids and number of executions. An execution is a sequence of steps whose rows are
invisible until the commit, so `ExecutionInv` says what the session and the sink hold at each place
(which is all there is to lose on a failure), and `TablesInv` what a committed run left: a stretch of
`call_records` with the records of its sentiment job, then of its synthesis job, and a stretch of
`event_log` (`RowKept`). The three invariants are then arithmetic on the two stretches. The cases of
`Commit` show that appending a session shifts no other run's stretch, and that a run id has rows only
if it is in `runs`, which is what the idempotency check relies on.

### The gateway

Any providers and jobs, any threshold, window and cool-down, with the monotonic clock wired or not
(`Read` is the instant the breakers see, always 0 in the second case). `BreakersInv` ties each breaker
to the call records, which the breaker itself does not have: a closed breaker's deque is a list of
readings of unanswered calls, in their order, and what it lacks is too old to share a window with a
new failure (`DequeKept`); an open or half-open one has `opened_at` from its last call, and its
records hold the failures that tripped it (`TrippedInv`). `CallInv` says that the breaker of a call
under way let it through when the turn began, `TimeInv` that records are in the order of their
instants, `JobInv` that the job under way owns the last records, one failure per provider behind it.
The difficult lemmas are about the deque: what `Prune` drops (its loop is modelled as the longest old
prefix), and that the threshold is met in the deque exactly when it is met in some window of the
records.

### The replay

Any providers, retries, deadline, window, cool-down and clock, wired or not, and any failure threshold
above 1 (5 is what `config/models/providers.yaml` has). The hypothesis cannot go. With a threshold of 1
and the clock wired TLC finds, with two providers and two jobs, a stored run whose first job failed at
provider 1 and was answered by provider 2, and whose second was answered by provider 1 again, its
cool-down over. The replay's time stands still: its own breaker opens at the recorded failure and stays
open, the second job skips provider 1, finds nothing recorded at provider 2, and is degraded.
`VerifiedExactly` fails there too: the stored run has no skip, and the verifier finds a difference.

While the gateway works live, `ReplayInv` is `GatewayInv` with `TrailInv`: every job over has walked
the chain from one first pick. From the load on it says that there are a first pick `f` and, for each
stored job, a trail of outcomes `t` (`Story`), such that the stored list has exactly the calls of that
chain with those outcomes, in any order of the jobs (`StoredIs`), and

* `PlaceInv`, `TrailsInv`: jobs over ended as stored, and the replay's own records are those of `t` up
  to where it stands, each outcome as it comes back (`Repeated`: a skip, and a timeout where retries
  are allowed, as an error);
* `QueueInv`: each recorded call still ahead is the one entry of its queue, but for the call under way
  once it has been popped, when a retry finds nothing and fails, as the call before it did;
* `CalmInv`: a provider ahead in the chain has failed at most once per job over, so at most once. This
  is where the threshold enters: no breaker ahead is open, and the replay skips nobody.

`LoadStep` cuts the stored run out of the live records: what `list_for_run` returns is a rearrangement
of the last jobs' records (`Copied`) in which each job keeps its order, since records are in the order
of their instants (`TimeInv`) and those of one instant are listed by attempt. `StoryStep` has one lemma
per part of the story, over one list of what a step of the replay can be (`ReplaySteps`). At the end
both logs have the same calls of each job (`TrailOf`), which is `ReplayAnswersAlike`. For
`VerifiedExactly` the places of equal calls in the two logs give an ascending map without gaps, hence
the identity (`NoGaps`), once the stored one is listed job by job.

### The ingestion

Any prices, lags, chart lengths, days, thresholds, any path through the fixed order, any number of
ingestions. `StoreInv`: each key's row is as new as the newest snapshot ever put there, and the row
of the capitalisation has a real history; `PriceInv`: a price is live, or such a row; `TodoInv`: the
plan ahead repeats no stage, and a crypto symbol's three questions come before its merge; `DoneInv`:
a key whose stage is behind has been served if the store knew it, unless its read failed; `SoundInv`:
a crypto symbol behind has the price its three answers justify. `CryptoPriceSound` rests on the
audit of the median (`SourceSeriesProofs`): with three young sources the middle one is always close
to itself, with two the middle of both is close to either or to neither, with any `MinSources`.
`McapHistoryReal` rests on the match of a horizon with a sample of that age, and that `list_recent`
forgets the oldest only.

`SeriesEndsWithValue` has an invariant of its own beside this one, `SeriesInv`: what is published is
an answer of this ingestion or a row kept from an earlier one, so the answers heard and the rows have
to end with their values as well. Its lemmas are one for each way a series is made: points of a chart
picked by rounded quotients are in order and end with its last (`ThinnedClimbs`, by exact bounds on
rounding halves to even), buckets of candles are (`GateSeries`), a bar merged into daily bars keeps
one bar a day and is the last (`MergedIsDaily`), and samples up to an instant end there
(`EnrichedEnds`). The charts and candles the sources are given rise to the price quoted, so that a
series out of order would show.

Two assumptions are about units, not behaviour: prices are even, so that the middle of two prices is
whole (the code has decimals); and the clock starts later than the longest chart (`Start`), so that
no instant is negative.

The bounds on which TLC checked the inductive invariants are those of section 3 (`RunServiceInv` with
two executions); `GatewayInv` on those of `breaker` and `failover`, each with the clock wired and
not; `ReplayInv` on instances with 2 providers, thresholds 2 and 3 and 2 live jobs; `IngestInv` also on the paths CMC, BTC, TOTAL_MCAP, FEAR_GREED and BTC, ETH.

### The analysis

Any assets of the five classes, feeds, qualities, rulebooks the loader lets through and the
matcher can read, periods and horizons, caps, bundles of the shapes `IsCase` gives, and answers of the two jobs. Nothing is
remembered from run to run, and the stages are functions, so the invariant is about when: each part
of `AnalysisInv` says that what a stage has made of the bundle is what it would make of it now, from
that stage to the end of the run (`PastFeatures`, `PastNews`, ... are the stages behind each). A
property of a published run then follows from what the stages compute, six of them at a time.

* *News.* `Knows` is the invariant of the loop of `fetch_items`: what is collected is made of the
  copies seen so far (`Made`), whatever their order; `Climb` takes it through batches and feeds. The
  items are arranged by time and id, an order that is total since ids are unique. A digest has the
  places of the representatives and the first places up to where it is full (`Selection`); either it
  stops within the cap, or nothing but representatives is in it, and for those there is room.
* *Evidence.* A digested id belongs to one item, so the assets of the digest are those of its fresh
  items; what the job may say is restricted to them.
* *Rules.* A winner is a candidate no other is stronger than, candidates face the regime, and the
  regime is `event_driven` whenever a material event exists (`ActiveMaterialEvent` picks one: of
  finitely many there is a strongest). With the test of `rule.var` against the type's last event, and
  the link naming that event, the rule theorems follow.
* *Document.* Bounds come from below: averages and ratios between their terms (`TotalBetween`,
  `Division`), clamped scores, weights of at least one. `NothingToFlag` goes through the four checks;
  the one on trend and indicators holds because the two indicators weigh more than half of what the
  trend is a mean of, so a trend can never contradict them both.

Of the assumptions, `NewsAssumption` has the digest hold the primary assets (4 of 40 in the code)
and `RulesAssumption` the rulebook pass the loader. `ReadableAssumption` asks more of the rules than
the loader does: that the condition of an active rule is a comparison with a number, and its guard's
policy one of the three. The rules under `rules/` meet it. A rule that does not is loaded
(`rules/models.py:16`, `:30` take any text) and raises `RuleGateError` in the run, an unreadable
condition on every run (`rules/matcher.py:35`), an unknown policy when the rule matches outside its
regimes (`:70`); the run then fails and publishes nothing, which `RunService` models as a failing
run and the analysis modules, which are about documents, leave out. `CoreDataAssumption` keeps `None` apart from the
values it stands in for; `Noon <= MaxTime` gives a run an instant. `IsCase` says what a source
adapter's result is by its types, closes being above 0 since a price of 0 cannot be divided by.

TLC checked `AnalysisInv` as an invariant on the instance of `analysis`.

### Only model-checked

* `JobsEnd` and `LocksReleased`: fairness and ENABLED are out of the prover's reach.

## 5. Not modelled

* vendor HTTP, the parsing of vendor formats and dates, regular expressions over texts, YAML: their
  outcomes are inputs;
* rendering of prompts and documents, authentication, envelopes, logging, metrics, evaluation
  reports and the health view: nothing in the system reads them back;
* the reading endpoints but the latest run: they change nothing (the paging problem above follows
  from the offset);
* migrations: one decision made before anything else runs;
* dominance and global market cap snapshots (passed on as they come), `cryptobaz_gold` (not wired),
  the mock sources (test data);
* several processes on one database: the locks live in one process, as it is deployed;
* taking pending events when a cooldown ends: the code has no such step.

None of the modules declares a RECURSIVE operator.
