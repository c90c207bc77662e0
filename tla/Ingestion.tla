------------------------------ MODULE Ingestion ------------------------------
(***************************************************************************)
(* real_ingest_provider: one ingestion asks the sources in a fixed order,  *)
(* and every answer that is a price becomes the last good one of its       *)
(* symbol; a symbol whose sources fail is served from there.  The last     *)
(* good snapshots and the samples of TOTAL_MCAP are tables, written in     *)
(* transactions of their own while the ingestion goes on: it may crash     *)
(* after any of them, and each may fail alone.                             *)
(*                                                                         *)
(* A path is the part of the fixed order an execution follows: the symbols *)
(* share nothing but the clock and the capitalisation.  News and events,   *)
(* whose failure leaves an empty list, are not kept.                       *)
(***************************************************************************)
EXTENDS SourceSeries

CONSTANTS
    Paths,         \* sequences of stages, each a part of AllStages in order
    Prices,        \* prices the sources quote, in even units: the middle of two is whole
    Charts,        \* lengths of a CoinGecko chart
    Lags,          \* how many ticks an observation is behind (or ahead) of now
    Start,         \* the clock when the database is created, later than 0 by any chart
    MaxTime,       \* bound: the clock
    MaxIngests     \* bound: ingestions begun

CryptoSymbols == {"BTC", "ETH"}
CryptoSources == {"coingecko", "kifpool", "gate"}
AllStages == <<"CMC", "BTC", "ETH", "GOLD", "WTI", "USD_IRR", "TOTAL_MCAP", "FEAR_GREED">>
Keys == ToSet(AllStages) \ {"CMC"}

ASSUME IngestionAssumption ==
    /\ \A path \in Paths :
          \A i, j \in DOMAIN path : \E k, l \in DOMAIN AllStages :
             /\ path[i] = AllStages[k]
             /\ path[j] = AllStages[l]
             /\ i < j <=> k < l
    /\ Paths \subseteq Seq(ToSet(AllStages))
    /\ Prices \subseteq Nat \ {0} /\ \A p \in Prices : p % 2 = 0
    /\ Charts \subseteq Nat /\ Lags \subseteq Int
    /\ {Start, MaxTime, MaxIngests} \subseteq Nat
    /\ Start <= MaxTime
    /\ Start > TargetBars * TicksPerBar + 1

VARIABLES
    last_good,   \* table last_good_snapshots: a function from keys to rows
    samples,     \* table total_mcap_samples: a function from as_of to value
    now,         \* the clock
    ctx_now,     \* ctx.now of the ingestion under way
    path,        \* the stages an ingestion goes through
    todo,        \* the stages ahead; <<"finish">> when there are none
    heard,       \* source_snapshots of each crypto symbol: what its sources answered
    cmc,         \* coinmarketcap_snapshots.total_mcap
    indicator,   \* indicator_snapshots, a function from keys
    price,       \* price_snapshots and global_snapshots, a function from keys
    unread,      \* the keys whose last good snapshot could not be read
    ingests,     \* ingestions begun
    newest       \* the latest as_of of a snapshot put into last_good

tables == <<last_good, samples>>
bundle == <<heard, cmc, indicator, price, unread>>
vars == <<tables, now, ctx_now, path, todo, bundle, ingests, newest>>

NothingHeard == [k \in CryptoSymbols |-> [s \in CryptoSources |-> None]]

EmptyBundle ==
    /\ heard' = NothingHeard
    /\ cmc' = None
    /\ indicator' = <<>>
    /\ price' = <<>>
    /\ unread' = {}

Init ==
    /\ last_good = <<>>
    /\ samples = <<>>
    /\ now = Start
    /\ ctx_now = Start
    /\ path \in Paths
    /\ todo = <<>>
    /\ heard = NothingHeard
    /\ cmc = None
    /\ indicator = <<>>
    /\ price = <<>>
    /\ unread = {}
    /\ ingests = 0
    /\ newest = <<>>

At(stage) == todo # <<>> /\ Head(todo) = stage
Pass == todo' = Tail(todo)

\* What a dictionary or a table says once it says this of the key.
Put(table, key, value) ==
    [k \in DOMAIN table \cup {key} |-> IF k = key THEN value ELSE table[k]]

Tick ==
    /\ now < MaxTime
    /\ now' = now + 1
    /\ UNCHANGED <<tables, ctx_now, path, todo, bundle, ingests, newest>>

Begin ==
    /\ todo = <<>>
    /\ ingests < MaxIngests
    /\ ingests' = ingests + 1
    /\ ctx_now' = now
    /\ todo' = Append(path, "finish")
    /\ EmptyBundle
    /\ UNCHANGED <<tables, now, path, newest>>

-----------------------------------------------------------------------------
(* The last good snapshots. *)

\* Seeded fault: whatever comes is kept.
AlwaysReplaces(key, snapshot) == TRUE

\* The store compares the text of the instants, which is their order but for
\* instants of one second with and without a fraction; as_of counts coarser.
Replaces(key, snapshot) ==
    key \in DOMAIN last_good => snapshot.as_of >= last_good[key].as_of

\* A row as it is read back.
Row(snapshot) == [snapshot EXCEPT !.reason = "last_good"]

Upsert(key, snapshot) ==
    IF Replaces(key, snapshot) THEN Put(last_good, key, Row(snapshot)) ELSE last_good

\* Seeded fault: the row is read back as it was written.
RecordAsLive(key, snapshot) ==
    /\ last_good' = Put(last_good, key, snapshot)
    /\ newest' = Put(newest, key, snapshot.as_of)

\* _record_last_good: what the store raises is swallowed.
RecordLastGood(key, snapshot) ==
    \/ /\ last_good' = Upsert(key, snapshot)
       /\ newest' = IF key \in DOMAIN newest /\ newest[key] > snapshot.as_of
                    THEN newest ELSE Put(newest, key, snapshot.as_of)
    \/ UNCHANGED <<last_good, newest>>

\* A live snapshot is published and becomes the last good one, stale or not.
PublishLive(key, snapshot) ==
    /\ RecordLastGood(key, snapshot)
    /\ price' = Put(price, key, snapshot)
    /\ UNCHANGED unread

\* Seeded fault: no fallback once the sources have failed.
PublishNothing(key) ==
    UNCHANGED <<price, unread, last_good, newest>>

PublishLastGood(key) ==
    /\ \/ /\ price' = IF key \in DOMAIN last_good THEN Put(price, key, last_good[key]) ELSE price
          /\ UNCHANGED unread
       \/ unread' = unread \cup {key} /\ UNCHANGED price
    /\ UNCHANGED <<last_good, newest>>

\* Live or last good; the price is the indicator's series as well.
Publish(key, snapshot) ==
    /\ IF snapshot # None THEN PublishLive(key, snapshot) ELSE PublishLastGood(key)
    /\ indicator' = IF key \in DOMAIN price' THEN Put(indicator, key, price'[key]) ELSE indicator
    /\ Pass
    /\ UNCHANGED <<samples, now, ctx_now, path, heard, cmc, ingests>>

-----------------------------------------------------------------------------
(* What the sources answer. *)

Instants == {now - lag : lag \in Lags}

\* A chart that rises to the price.
CoinGeckoAnswers ==
    {CoinGeckoSnapshot([ts |-> t, prices |-> [i \in 1..n |-> p - n + i]]) :
        t \in Instants, p \in Prices, n \in Charts} \cup {None}

\* Hourly candles that rise to the price, some early ones and one before the
\* last missing.
Candles(first, last, gap, p) ==
    [t \in (first..last) \ ({gap} \ {last}) |-> p - last + t]

GateAnswers ==
    {GateSnapshot(Candles(first, last, gap, p), ctx_now) :
        first \in {now - TargetBars * TicksPerBar - 1, now - TicksPerBar},
        last \in Instants \cap 0..now, gap \in {0, now - TicksPerBar - 1},
        p \in Prices} \cup {None}

\* Daily rows whose newest is of today or of the day before, one of them bad.
HistoryAnswers ==
    {[i \in 1..n |-> [day |-> top - i + 1, close |-> IF i = bad THEN 0 ELSE p]] :
        n \in {TargetBars, TargetBars + 1}, top \in {TehranDate(now) - 1, TehranDate(now)},
        bad \in {0, 1}, p \in Prices} \cup {None}

QuoteAnswers ==
    {[ts |-> t, price |-> p] : t \in Instants \cap 0..now, p \in Prices} \cup {None}

-----------------------------------------------------------------------------
(* The stages. *)

\* The samples of TOTAL_MCAP: one for each as_of, and the last ones of them.
RecordSample(table, as_of, value) == Put(table, as_of, value)

ListRecent(table) ==
    Restrict(table, ToSet(Keep(Ascending(DOMAIN table), HistoryLimit)))

\* CoinMarketCap, and its sample in the history; when the history fails the
\* snapshot goes on without one.
FetchCoinMarketCap ==
    /\ At("CMC")
    /\ \E cap \in Prices, as_of \in Instants :
          LET live == McapSnapshot(cap, as_of, ctx_now)
          IN  \/ /\ samples' = RecordSample(samples, as_of, cap)
                 /\ cmc' = EnrichTotalMcap(live, ListRecent(samples'))
              \/ UNCHANGED samples /\ cmc' = live
              \/ UNCHANGED samples /\ cmc' = None
    /\ Pass
    /\ UNCHANGED <<last_good, now, ctx_now, path, heard, indicator, price, unread,
                   ingests, newest>>

\* Each of the three crypto sources in turn, about one symbol.
Ask(symbol, source, answers) ==
    /\ \E answer \in answers : heard' = [heard EXCEPT ![symbol][source] = answer]
    /\ UNCHANGED <<tables, now, ctx_now, path, cmc, indicator, price, unread,
                   ingests, newest>>

AskCoinGecko ==
    /\ todo # <<>> /\ Head(todo) \in CryptoSymbols
    /\ Ask(Head(todo), "coingecko", CoinGeckoAnswers)
    /\ todo' = <<"kifpool">> \o todo

AskKifpool ==
    /\ At("kifpool")
    /\ Ask(todo[2], "kifpool", {KifpoolCryptoSnapshot(p, ctx_now) : p \in Prices} \cup {None})
    /\ todo' = <<"gate">> \o Tail(todo)

AskGate ==
    /\ At("gate")
    /\ Ask(todo[2], "gate", GateAnswers)
    /\ todo' = <<"merge">> \o Tail(todo)

\* The median of the fresh ones, or the last good median: for the price only.
MergeCrypto ==
    /\ At("merge")
    /\ LET symbol == todo[2]
           series == SelectIndicator(heard[symbol])
       IN  /\ indicator' = IF series # None THEN Put(indicator, symbol, series) ELSE indicator
           /\ IF Agreed(heard[symbol], ctx_now)
              THEN PublishLive(symbol, Aggregate(heard[symbol], ctx_now))
              ELSE PublishLastGood(symbol)
    /\ todo' = Tail(Tail(todo))
    /\ UNCHANGED <<samples, now, ctx_now, path, heard, cmc, ingests>>

FetchGold ==
    /\ At("GOLD")
    /\ \E answer \in CoinGeckoAnswers : Publish("GOLD", answer)

FetchOil ==
    /\ At("WTI")
    /\ \E quote \in QuoteAnswers, rows \in HistoryAnswers :
          Publish("WTI", IF quote = None \/ rows = None THEN None
                         ELSE OilSnapshot(quote, rows, now))

FetchDollar ==
    /\ At("USD_IRR")
    /\ \E spot \in {KifpoolUsdSnapshot(p, now) : p \in Prices} \cup {None},
          quote \in QuoteAnswers, rows \in HistoryAnswers :
          Publish("USD_IRR", HybridUsdSnapshot(spot, quote, rows, ctx_now))

PublishTotalMcap == At("TOTAL_MCAP") /\ Publish("TOTAL_MCAP", cmc)

\* Fear and greed is kept under a key of its own and is no price series.
FetchFearGreed ==
    /\ At("FEAR_GREED")
    /\ \E value \in Prices, t \in Instants :
          \/ PublishLive("FEAR_GREED", Snapshot("alternative_me", t, value, <<>>, <<>>))
          \/ PublishLastGood("FEAR_GREED")
    /\ Pass
    /\ UNCHANGED <<samples, now, ctx_now, path, heard, cmc, indicator, ingests>>

Finish ==
    /\ At("finish")
    /\ Pass
    /\ UNCHANGED <<tables, now, ctx_now, path, bundle, ingests, newest>>

\* The process dies, or a later stage of the run raises: the bundle is lost.
Crash ==
    /\ todo # <<>>
    /\ todo' = <<>>
    /\ EmptyBundle
    /\ UNCHANGED <<tables, now, ctx_now, path, ingests, newest>>

Next ==
    \/ Tick
    \/ Begin
    \/ FetchCoinMarketCap
    \/ AskCoinGecko
    \/ AskKifpool
    \/ AskGate
    \/ MergeCrypto
    \/ FetchGold
    \/ FetchOil
    \/ FetchDollar
    \/ PublishTotalMcap
    \/ FetchFearGreed
    \/ Finish
    \/ Crash

Spec == Init /\ [][Next]_vars

=============================================================================
