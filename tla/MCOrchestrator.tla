--------------------------- MODULE MCOrchestrator ---------------------------
(***************************************************************************)
(* Markets, events and news for TLC: the cases vary one of the three while *)
(* the others are held.                                                    *)
(***************************************************************************)
EXTENDS OrchestratorProperties

MCAssets == {"BTC", "GOLD", "USD_IRR", "TOTAL_MCAP"}
MCClass == [BTC |-> "crypto", GOLD |-> "metal", USD_IRR |-> "fx", TOTAL_MCAP |-> "index"]
MCSensitivity == [BTC |-> "high", GOLD |-> "medium", USD_IRR |-> "low", TOTAL_MCAP |-> "high"]
MCBars == ("6h" :> 1) @@ ("24h" :> 4) @@ ("7d" :> 5) @@ ("30d" :> 6)

MCFeeds == <<[source |-> "coindesk", tags |-> {"BTC"}],
             [source |-> "coindesk", tags |-> {"GOLD"}],
             [source |-> "forum", tags |-> {}]>>
MCQuality == [coindesk |-> 75]

Effect(direction, strength) ==
    [direction |-> direction, strength |-> strength, uncertain |-> FALSE]
Rule(id, type, var, op, literal, effects, guard) ==
    [id |-> id, active |-> TRUE, type |-> type, var |-> var, op |-> op, literal |-> literal,
     effects |-> effects, guard |-> guard, half_life |-> 12]

\* The two rules of the rulebook, without the assets left out here, and others
\* that oppose them.
MCRulebook ==
    <<Rule(1, "us_cpi", "us_cpi", ">=", 10,
           [BTC |-> Effect("bearish", "major"), TOTAL_MCAP |-> Effect("bearish", "major"),
            GOLD |-> [Effect("bearish", "moderate") EXCEPT !.uncertain = TRUE]],
           [applies_in |-> {"risk_off"}, otherwise |-> "downgrade_to_minor"]),
      Rule(2, "us_cpi", "us_cpi", "<=", -10,
           [BTC |-> Effect("bullish", "moderate"), TOTAL_MCAP |-> Effect("bullish", "moderate")],
           None),
      Rule(3, "fomc", "fomc", ">", 0,
           [BTC |-> Effect("bearish", "moderate"), GOLD |-> Effect("bullish", "minor")],
           None),
      Rule(4, None, "fomc", "<", 0,
           [GOLD |-> Effect("neutral", "dominant"), TOTAL_MCAP |-> Effect("bearish", "minor")],
           [applies_in |-> {"event_driven", "risk_off"}, otherwise |-> "suppress"]),
      Rule(5, "us_nfp", "us_nfp", "!=", 0,
           [BTC |-> Effect("bullish", "dominant")],
           [applies_in |-> {"transition"}, otherwise |-> "flag_uncertain"])>>

-----------------------------------------------------------------------------

Series(closes, spread, volumes) ==
    [closes |-> closes, highs |-> [i \in DOMAIN closes |-> closes[i] + spread],
     lows |-> [i \in DOMAIN closes |-> closes[i] - spread],
     volumes |-> [i \in 1..(Len(closes) - Len(volumes)) |-> 10] \o volumes,
     changes |-> None]

Rising == Series(<<100, 101, 102, 103, 104, 105, 106>>, 0, <<10, 10, 10>>)
Falling == Series(<<120, 119, 117, 113, 107, 98, 86>>, 4, <<10, 10, 40>>)
Turning == Series(<<120, 112, 105, 98, 90, 78, 118>>, 2, <<0, 0, 5>>)
Bounce == Series(<<150, 140, 130, 60, 80, 95, 105>>, 2, <<5, 9, 9>>)
Slipping == Series(<<90, 95, 101, 108, 115, 122, 119>>, 2, <<10, 20, 5>>)
Crossing == Series(<<100, 104, 108, 112, 112, 90, 70>>, 1, <<5, 5, 9>>)
Flat == Series(<<100, 100, 100, 100, 100, 100, 100>>, 0, <<10, 10, 10>>)
Young == Series(<<100, 103, 101>>, 1, <<10, 10>>)
OneBar == Series(<<100>>, 1, <<10>>)
Capital(changes) ==
    [closes |-> <<100>>, highs |-> <<>>, lows |-> <<>>, volumes |-> <<>>, changes |-> changes]
Swelling == Capital([h \in Horizons |-> 900])
Sinking == Capital([h \in Horizons |-> IF h = "30d" THEN None ELSE -1200])

Quote == [value |-> 100, is_stale |-> FALSE]
Globals(fear_greed) == [fear_greed |-> fear_greed, total_market_cap |-> None]

Event(id, type, at, actual) ==
    [id |-> id, type |-> type, at |-> at, consensus |-> 30, actual |-> actual]

Hot == Event(1, "us_cpi", 44, 60)
Mild == Event(2, "us_cpi", 46, 34)
Soft == Event(3, "us_cpi", 47, 10)
Hike == Event(4, "fomc", 45, 55)
Cut == Event(5, "fomc", 40, 5)
OldHot == Event(6, "us_cpi", 6, 45)
Coming == Event(7, "us_nfp", 52, None)
Jobs == Event(8, "us_nfp", 36, 33)

Text(length, assets, topics) == [length |-> length, assets |-> assets, topics |-> topics]
Entry(id, at, text) == [id |-> id, at |-> at, text |-> text]
Plain == Text(1, {}, {})

Day == Entry(1, 4, Plain)
DayElsewhere == Entry(1, 3, Text(2, {}, {"OIL_SUPPLY"}))
DayUndated == Entry(1, None, Text(3, {"BTC"}, {}))
Inflation == Entry(2, 1, Text(1, {}, {"US_INFLATION"}))
Undated == Entry(3, None, Text(1, {}, {"GEOPOLITICAL_RISK"}))
Untitled == Entry(None, 4, Plain)
Future == Entry(4, 5, Text(1, {"GOLD"}, {}))
Gold == Entry(5, 4, Plain)
ForumCoin == Entry(11, 4, Text(1, {"BTC"}, {}))
ForumGold == Entry(12, 2, Text(1, {"GOLD"}, {}))
ForumMore == Entry(13, 3, Text(1, {"BTC"}, {}))
ForumIdle == Entry(14, 4, Plain)

-----------------------------------------------------------------------------

Case(feeds, btc, gold, mcap, events) ==
    [feeds |-> feeds,
     series |-> [BTC |-> btc, GOLD |-> gold, USD_IRR |-> Falling, TOTAL_MCAP |-> mcap],
     prices |-> [a \in MCAssets |-> IF a = "GOLD" /\ gold = None THEN None ELSE Quote],
     globals |-> Globals(IF gold = None THEN None ELSE 80), events |-> events]

SomeNews == <<<<Day>>, None, <<ForumGold>>>>

MarketCases ==
    {Case(SomeNews, btc, gold, mcap, <<>>) :
        btc \in {Rising, Falling, Turning, Bounce, Slipping, Crossing, Flat, Young, None},
        gold \in {Rising, Falling, None}, mcap \in {Swelling, Sinking}}

EventCases ==
    {Case(<<None, None, None>>, btc, btc, Sinking, events) :
        btc \in {Falling, OneBar},
        events \in {<<Hot>>, <<OldHot, Jobs>>, <<Soft, Hike>>, <<Cut, Soft>>, <<Mild, Hot>>,
                    <<Hot, Mild>>, <<Hot, Soft, Hike>>, <<OldHot>>, <<OldHot, Cut>>,
                    <<Coming, Hike>>, <<Jobs>>, <<Jobs, Hot>>, <<Hike, Cut>>}}

Subsequences(s) == {SelectSeq(s, LAMBDA x : x \in S) : S \in SUBSET Range(s)}

NewsCases ==
    {Case(<<coins, gold, forum>>, Rising, Rising, Swelling, <<>>) :
        coins \in {s \in Subsequences(<<Untitled, Day, Inflation, Undated, Future>>) : Len(s) > 2},
        gold \in {None, <<DayElsewhere>>, <<DayUndated, Gold>>},
        forum \in {<<ForumIdle>>, <<ForumCoin, ForumGold, ForumMore>>}}

MCCases == MarketCases \cup EventCases \cup NewsCases

MCSentiments == {[BTC |-> 700, GOLD |-> -400, USD_IRR |-> 100], <<>>}
MCNarrations == {{"BTC"}}

=============================================================================
