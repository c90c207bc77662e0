--------------------------- MODULE MarketFeatures ---------------------------
(***************************************************************************)
(* FeatureEngine: what a run computes from the series and the events it    *)
(* was given.  Pure functions.                                             *)
(*                                                                         *)
(* A series is [closes, highs, lows, volumes, changes]: positive numbers,  *)
(* oldest first; changes are horizon changes that come with it (of the     *)
(* capitalisation), or None.  Percentages are in hundredths, other ratios  *)
(* in thousandths, rounded down; averages keep Precision places, which is  *)
(* exact as long as the periods divide it.                                 *)
(*                                                                         *)
(* "Seeded fault" marks a plausible bug in the definition after it.        *)
(***************************************************************************)
EXTENDS CoreData

CONSTANTS
    Precision,     \* what a close is multiplied with for its averages
    RsiPeriod, AtrPeriod, VolumePeriod,
    MacdFast, MacdSlow, MacdSignal,
    EmaFast, EmaSlow,
    Bars           \* _HORIZON_BARS

ASSUME MarketFeaturesAssumption ==
    /\ {Precision, RsiPeriod, AtrPeriod, VolumePeriod, MacdFast, MacdSlow,
        MacdSignal, EmaFast, EmaSlow} \subseteq Nat \ {0}
    /\ MacdFast <= MacdSlow /\ EmaFast <= EmaSlow
    /\ Bars \in [Horizons -> Nat \ {0}]

Absolute(n) == IF n < 0 THEN -n ELSE n
Back(s, n) == s[Len(s) - n]

-----------------------------------------------------------------------------
(* Changes. *)

PctChange(current, past) == ((current - past) * 10000) \div past

\* Seeded fault: a short series is compared with its oldest close.
ChangeSinceOldest(closes, bars) ==
    PctChange(Last(closes), closes[Max({1, Len(closes) - bars})])

HorizonChange(closes, bars) ==
    IF Len(closes) <= bars THEN None ELSE PctChange(Last(closes), Back(closes, bars))

Changes(series) ==
    [h \in Horizons |->
        IF series.changes # None THEN series.changes[h]
        ELSE HorizonChange(series.closes, Bars[h])]

-----------------------------------------------------------------------------
(* Indicators: None for a series that is too short. *)

Scaled(s) == [i \in DOMAIN s |-> s[i] * Precision]

\* The mean so far counts period - 1 times, the next value weight times.
Smooth(mean, v, period, weight) ==
    (weight * v + (period - 1) * mean) \div (period - 1 + weight)

\* The mean of the first period values, and then one for each value after them.
Averages(s, period, weight) ==
    LET mean[i \in period..Len(s)] ==
            IF i = period THEN Total(SubSeq(s, 1, period)) \div period
            ELSE Smooth(mean[i - 1], s[i], period, weight)
    IN  [i \in 1..(Len(s) - period + 1) |-> mean[i + period - 1]]

EmaSeries(s, period) == Averages(s, period, 2)

Wilder(s, period) == Last(Averages(s, period, 1))

\* 100 without a loss, whatever the gains.
Rsi(closes) ==
    LET Moves(sign) == [i \in 1..(Len(closes) - 1) |->
                            Max({0, sign * (closes[i + 1] - closes[i])})]
        gain == Wilder(Scaled(Moves(1)), RsiPeriod)
        loss == Wilder(Scaled(Moves(-1)), RsiPeriod)
    IN  IF Len(closes) < RsiPeriod + 1 THEN None
        ELSE IF loss = 0 THEN 10000
        ELSE ((1000 * gain) \div (gain + loss)) * 10

MacdState(closes) ==
    LET fast == EmaSeries(Scaled(closes), MacdFast)
        slow == EmaSeries(Scaled(closes), MacdSlow)
        line == [i \in DOMAIN slow |-> fast[i + Len(fast) - Len(slow)] - slow[i]]
        signal == EmaSeries(line, MacdSignal)
        before == Back(line, 1) - Back(signal, 1)
        current == Last(line) - Last(signal)
    IN  IF Len(closes) < MacdSlow + MacdSignal THEN None
        ELSE CASE before <= 0 /\ 0 < current -> "bullish_cross"
               [] before >= 0 /\ 0 > current -> "bearish_cross"
               [] before > 0 /\ current > 0 -> "bullish"
               [] before < 0 /\ current < 0 -> "bearish"
               [] OTHER -> "neutral"

\* A gap of zero is below, and not narrower than a gap of zero.
EmaState(closes) ==
    LET fast == EmaSeries(Scaled(closes), EmaFast)
        slow == EmaSeries(Scaled(closes), EmaSlow)
        before == Back(fast, 1) - Back(slow, 1)
        current == Last(fast) - Last(slow)
        widening == Absolute(current) >= Absolute(before)
    IN  IF Len(closes) < EmaSlow + 1 THEN None
        ELSE IF (before > 0) # (current > 0) THEN "crossing"
        ELSE IF current > 0
             THEN IF widening THEN "above_diverging" ELSE "above_converging"
             ELSE IF widening THEN "below_diverging" ELSE "below_converging"

AtrPct(series) ==
    LET n == Len(series.closes)
        Range3(i) == LET h == series.highs[i + 1]
                         l == series.lows[i + 1]
                         c == series.closes[i]
                     IN  Max({h - l, Absolute(h - c), Absolute(l - c)})
        atr == Wilder(Scaled([i \in 1..(n - 1) |-> Range3(i)]), AtrPeriod)
    IN  IF n < AtrPeriod + 1 \/ {Len(series.highs), Len(series.lows)} # {n} THEN None
        ELSE (atr * 10000) \div (Last(series.closes) * Precision)

\* None as well when there was no volume at all before the last bar.
VolumeRatio(volumes) ==
    LET n == Len(volumes)
        window == Total(SubSeq(volumes, n - VolumePeriod, n - 1))
    IN  IF n < VolumePeriod + 1 \/ window = 0 THEN None
        ELSE (1000 * VolumePeriod * volumes[n]) \div window

NoFeatures ==
    [rsi |-> None, macd |-> None, ema |-> None, atr |-> None,
     volume |-> None, changes |-> [h \in Horizons |-> None]]

\* Index assets have no indicator but the range.
AssetFeatures(class, series) ==
    LET full == class # "index"
    IN  IF series = None THEN NoFeatures
        ELSE [rsi |-> IF full THEN Rsi(series.closes) ELSE None,
              macd |-> IF full THEN MacdState(series.closes) ELSE None,
              ema |-> IF full THEN EmaState(series.closes) ELSE None,
              atr |-> AtrPct(series),
              volume |-> IF full THEN VolumeRatio(series.volumes) ELSE None,
              changes |-> Changes(series)]

-----------------------------------------------------------------------------
(* Events [id, type, at, consensus, actual]: surprises in hundredths.  An  *)
(* event that has not happened has no actual, and no feature.              *)

EventFeature(event, now) ==
    [id |-> event.id, type |-> event.type,
     surprise |-> event.actual - event.consensus, proximity |-> now - event.at]

EventFeatures(events, now) ==
    LET recorded == Chosen(events, {i \in DOMAIN events : events[i].actual # None})
    IN  [i \in DOMAIN recorded |-> EventFeature(recorded[i], now)]

=============================================================================
