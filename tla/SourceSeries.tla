---------------------------- MODULE SourceSeries ----------------------------
(***************************************************************************)
(* What the adapters of ingestion/real make of the answers of their        *)
(* sources, and how the observations of several sources become one price.  *)
(* Pure functions: an answer in, a snapshot or None (an exception) out.    *)
(*                                                                         *)
(* Instants are ticks.  A price is a positive number; the closes of a      *)
(* series are kept, its highs, lows and volumes are not.  A date is the    *)
(* day of an instant where the source lives.                               *)
(*                                                                         *)
(* "Seeded fault" marks a plausible bug in the definition after it.        *)
(***************************************************************************)
EXTENDS Listing, SequencesExt

CONSTANTS
    None,           \* no snapshot, no value: an exception was raised
    Day,            \* ticks in a day
    TehranOffset,   \* ticks Tehran is ahead of UTC
    TicksPerBar,    \* ticks in one six-hour bar of Gate
    TargetBars,     \* _TARGET_BARS: bars kept of a series
    MaxAge,         \* staleness_threshold_minutes of a crypto asset
    UsdStaleAfter,  \* _DEFAULT_STALE_AFTER_MINUTES of tgju_dollar
    OilStaleDays,   \* _STALE_AFTER_DAYS of tgju_oil
    McapStaleAfter, \* _STALE_AFTER_SECONDS of coinmarketcap
    MaxDeviation,   \* max_deviation_pct, in percent
    UsdDeviation,   \* _DEFAULT_DEVIATION_THRESHOLD_PCT of tgju_dollar
    MinSources,     \* min_sources
    HistoryLimit,   \* _HISTORY_LIMIT: samples of TOTAL_MCAP listed
    Tolerance,      \* _HISTORY_TOLERANCE
    Horizons        \* ticks back of the changes taken from the history

ASSUME SourceSeriesAssumption ==
    /\ {Day, TicksPerBar, TargetBars, MinSources, HistoryLimit} \subseteq Nat \ {0}
    /\ {TehranOffset, MaxAge, UsdStaleAfter, OilStaleDays, McapStaleAfter,
        MaxDeviation, UsdDeviation, Tolerance} \subseteq Nat
    /\ Horizons \subseteq Nat
    /\ None \notin Int /\ None \notin Int \X Int

Distance(a, b) == IF a < b THEN b - a ELSE a - b

\* The deviation of a from b is more than pct percent of b.
Deviates(a, b, pct) == Distance(a, b) * 100 > pct * b

TehranDate(t) == (t + TehranOffset) \div Day

\* A RawSnapshot.  dates has the day (or the instant) of each close where the
\* source gives one; changes has the horizon changes, as <<from, to>>; reason
\* is is_stale with its stale_reason; flags has the data gaps as well.
Snapshot(source, as_of, value, closes, dates) ==
    [source |-> source, as_of |-> as_of, value |-> value, reason |-> "fresh",
     closes |-> closes, dates |-> dates, flags |-> {},
     changes |-> [h \in Horizons |-> None]]

Age(age, limit) == IF age > limit THEN "aged" ELSE "fresh"
Stale(snapshot) == snapshot.reason # "fresh"

\* The last n elements.
Keep(s, n) == IF Len(s) <= n THEN s ELSE SubSeq(s, Len(s) - n + 1, Len(s))

-----------------------------------------------------------------------------
(* CoinGecko: price points of a chart, thinned to TargetBars. *)

\* a / b rounded as Python rounds: halves to the even neighbour.
Rounded(a, b) ==
    LET q == a \div b
        r == 2 * (a % b)
    IN  IF r < b \/ (r = b /\ q % 2 = 0) THEN q ELSE q + 1

Downsample(s, n) ==
    IF Len(s) <= n THEN s
    ELSE IF n = 1 THEN <<Last(s)>>
    ELSE [i \in 1..n |-> s[Rounded((i - 1) * (Len(s) - 1), n - 1) + 1]]

\* A chart is [ts, prices]; as_of is the instant of its last point.
CoinGeckoSnapshot(chart) ==
    LET closes == Downsample(chart.prices, TargetBars)
    IN  IF chart.prices = <<>> THEN None
        ELSE Snapshot("coingecko", chart.ts, Last(closes), closes, <<>>)

-----------------------------------------------------------------------------
(* Gate: candles, a function from the instant of each to its close, put    *)
(* into six-hour buckets.  as_of is the time of the run, whatever the age  *)
(* of the last candle.                                                     *)

Buckets(candles) == {t \div TicksPerBar : t \in DOMAIN candles}

BarClose(candles, b) ==
    candles[Max({t \in DOMAIN candles : t \div TicksPerBar = b})]

GateSnapshot(candles, now) ==
    LET bars == Keep(Ascending(Buckets(candles)), TargetBars)
        closes == [i \in DOMAIN bars |-> BarClose(candles, bars[i])]
    IN  IF Len(bars) < TargetBars THEN None
        ELSE Snapshot("gate", now, Last(closes), closes, bars)

-----------------------------------------------------------------------------
(* Kifpool: a spot price and no history. *)

KifpoolCryptoSnapshot(price, now) == Snapshot("kifpool", now, price, <<>>, <<>>)
KifpoolUsdSnapshot(price, at) ==
    Snapshot("kifpool", at, price, [i \in 1..TargetBars |-> price], <<>>)

-----------------------------------------------------------------------------
(* TGJU: rows [day, close] newest first, a row with no positive price is   *)
(* skipped; and a live quote [ts, price].                                  *)

HistoryBars(rows) ==
    LET valid == Ascending({i \in DOMAIN rows : rows[i].close > 0})
    IN  IF Len(valid) < TargetBars THEN None
        ELSE [i \in 1..TargetBars |-> rows[valid[TargetBars + 1 - i]]]

\* Seeded fault: the bar of the same day is kept beside the new one.
AppendCurrent(bars, bar) == Keep(Append(bars, bar), TargetBars)

MergeCurrent(bars, bar) ==
    IF Last(bars).day = bar.day THEN Append(Front(bars), bar)
    ELSE Keep(Append(bars, bar), TargetBars)

Closes(bars) == [i \in DOMAIN bars |-> bars[i].close]
Dates(bars) == [i \in DOMAIN bars |-> bars[i].day]

\* The close of the newest bar stands for a quote that lags behind it, at
\* noon of the bar's day.
OilSnapshot(quote, rows, now) ==
    LET bars == HistoryBars(rows)
        newest == Last(bars)
        live == TehranDate(quote.ts) >= newest.day
        day == IF live THEN TehranDate(quote.ts) ELSE newest.day
        value == IF live THEN quote.price ELSE newest.close
        as_of == IF live THEN quote.ts ELSE newest.day * Day + Day \div 2
        merged == MergeCurrent(bars, [day |-> day, close |-> value])
    IN  IF bars = None THEN None
        ELSE [Snapshot("tgju", as_of, value, Closes(merged), Dates(merged))
                EXCEPT !.reason = Age(TehranDate(now) - day, OilStaleDays)]

\* Dollar, Kifpool down: the quote is the value even when it lags, and then
\* the bars are left as they are.
TgjuBars(quote, bars) ==
    LET day == TehranDate(quote.ts)
    IN  IF day >= Last(bars).day
        THEN MergeCurrent(bars, [day |-> day, close |-> quote.price])
        ELSE bars

TgjuUsdSnapshot(quote, rows, now) ==
    LET merged == TgjuBars(quote, HistoryBars(rows))
    IN  IF HistoryBars(rows) = None THEN None
        ELSE [Snapshot("tgju", quote.ts, quote.price, Closes(merged), Dates(merged))
                EXCEPT !.reason = Age(now - quote.ts, UsdStaleAfter)]

\* Dollar: Kifpool's spot price over TGJU's history; either may be missing.
KifpoolOnly(spot) ==
    [spot EXCEPT !.closes = <<spot.value>>, !.flags = {"tgju_history_unavailable"}]

DeviationFlags(value, reference) ==
    IF Deviates(value, reference, UsdDeviation) THEN {"cross_source_price_deviation"} ELSE {}

HybridUsdSnapshot(spot, quote, rows, now) ==
    LET bars == IF rows = None THEN None ELSE HistoryBars(rows)
    IN  IF spot = None
        THEN IF quote = None \/ rows = None THEN None ELSE TgjuUsdSnapshot(quote, rows, now)
        ELSE IF bars = None THEN KifpoolOnly(spot)
        ELSE [Snapshot("kifpool_tgju", spot.as_of, spot.value, Closes(bars), Dates(bars))
                EXCEPT !.flags = DeviationFlags(spot.value, Last(bars).close)]

-----------------------------------------------------------------------------
(* CoinMarketCap: the total capitalisation, with the changes its own       *)
(* samples allow.  samples is a function from instants to values.          *)

McapSnapshot(cap, as_of, now) ==
    [Snapshot("coinmarketcap", as_of, cap, <<>>, <<>>)
        EXCEPT !.reason = Age(now - as_of, McapStaleAfter)]

\* Seeded fault: samples later than the snapshot are kept.
AllSamples(samples, current) == Ascending(DOMAIN samples)

OrderedSamples(samples, current) ==
    Ascending({t \in DOMAIN samples : t <= current})

\* The first of the samples nearest to the target, if near enough.
NearestSample(times, target) ==
    LET near == {t \in ToSet(times) :
                    \A u \in ToSet(times) : Distance(t, target) <= Distance(u, target)}
    IN  IF near = {} \/ Distance(Min(near), target) > Tolerance THEN None ELSE Min(near)

HistoricalChange(samples, times, target) ==
    LET base == NearestSample(times, target)
    IN  IF base = None THEN None ELSE <<samples[base], samples[Last(times)]>>

EnrichTotalMcap(snapshot, samples) ==
    LET times == Keep(OrderedSamples(samples, snapshot.as_of), HistoryLimit)
    IN  [snapshot EXCEPT
            !.closes = [i \in DOMAIN times |-> samples[times[i]]],
            !.dates = times,
            !.changes = [h \in Horizons |->
                            HistoricalChange(samples, times, snapshot.as_of - h)]]

-----------------------------------------------------------------------------
(* Several sources, one price: the audited median of aggregate_snapshots.  *)
(* heard is a function from the configured sources to a snapshot or None.  *)

\* Seeded fault: how old an observation is does not matter.
ValidAtAnyAge(heard, now) ==
    {s \in DOMAIN heard : heard[s] # None /\ ~Stale(heard[s])}

ValidObservations(heard, now) ==
    {s \in DOMAIN heard :
        /\ heard[s] # None
        /\ ~Stale(heard[s])
        /\ now - heard[s].as_of \in 0..MaxAge}

\* The i-th smallest of the values, one that several sources give counted once
\* for each of them.
Ranked(heard, valid, i) ==
    Min({v \in {heard[s].value : s \in valid} :
            Cardinality({s \in valid : heard[s].value <= v}) >= i})

\* The middle value, or half way between the two middle ones.
Median(heard, valid) ==
    LET n == Cardinality(valid)
    IN  (Ranked(heard, valid, (n + 1) \div 2) + Ranked(heard, valid, n \div 2 + 1)) \div 2

\* The pair deviates from its midpoint by more than the threshold.
PairDisagrees(heard, pair) ==
    \E s, t \in pair :
        Distance(heard[s].value, heard[t].value) * 200
            > MaxDeviation * (heard[s].value + heard[t].value)

\* Enough sources, and a pair only if the two agree.
Agreed(heard, now) ==
    LET valid == ValidObservations(heard, now)
    IN  /\ Cardinality(valid) >= MinSources
        /\ Cardinality(valid) = 2 => ~PairDisagrees(heard, valid)

Aggregate(heard, now) ==
    LET valid == ValidObservations(heard, now)
        median == Median(heard, valid)
        newest == Max({heard[s].as_of : s \in valid})
        outliers == {s \in valid : Deviates(heard[s].value, median, MaxDeviation)}
    IN  [Snapshot("crypto_median", newest, median, <<>>, <<>>)
            EXCEPT !.flags = (UNION {heard[s].flags : s \in valid}) \cup outliers
                             \cup IF valid # DOMAIN heard THEN {"reduced_source_count"} ELSE {}]

\* A series with history and not a spot price: Gate's, else CoinGecko's.
SelectIndicator(heard) ==
    LET Usable(s) == heard[s] # None /\ ~Stale(heard[s]) /\ Len(heard[s].closes) >= 2
    IN  IF Usable("gate") THEN heard["gate"]
        ELSE IF Usable("coingecko") THEN heard["coingecko"]
        ELSE None

=============================================================================
