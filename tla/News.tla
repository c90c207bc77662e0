-------------------------------- MODULE News --------------------------------
(***************************************************************************)
(* From the news feeds to the digest of a run: RssNewsSource, which merges *)
(* the copies of an article, the relevance of an article for each asset,   *)
(* and NewsWeigher, which ranks and selects.  Pure functions.              *)
(*                                                                         *)
(* An entry of a feed is [id, at, text]: id stands for the source, title   *)
(* and link its news_id is made from (None without a title), at is None    *)
(* when there is no date or it cannot be read, and text is what the        *)
(* patterns find in title and body: [length, assets, topics].              *)
(*                                                                         *)
(* An instant is a number of half-lives (12 hours); a relevance and a      *)
(* quality are hundredths.                                                 *)
(*                                                                         *)
(* "Seeded fault" marks a plausible bug in the definition after it.        *)
(***************************************************************************)
EXTENDS CoreData

CONSTANTS
    Feeds,           \* _FEEDS: a sequence of [source, tags]
    DefaultQuality,  \* default_quality of config/sources
    Quality,         \* sources: the quality of the known sources
    MaxNewsAge,      \* max_news_age_hours, in half-lives
    MaxDigest        \* _MAX_DIGEST_ITEMS

PrimaryAssets == <<"BTC", "ETH", "GOLD", "WTI">>

ASSUME NewsAssumption ==
    /\ Feeds \in Seq(Range(Feeds))
    /\ \A f \in DOMAIN Feeds : Feeds[f].tags \subseteq Assets
    /\ DefaultQuality \in 0..100
    /\ \A source \in DOMAIN Quality : Quality[source] \in 0..100
    /\ MaxNewsAge \in Nat
    /\ MaxDigest \in Nat
    \* The digest has room for every primary asset: they are 4, and the cap 40.
    /\ Cardinality(ToSet(PrimaryAssets) \cap Assets) <= MaxDigest

-----------------------------------------------------------------------------
(* Feeds. *)

\* _parse_rss_date: an entry without a date is of the time of the run.
PublishedAt(entry, now) == IF entry.at = None THEN now ELSE entry.at

ParseFeed(entries, feed, now) ==
    LET titled == Chosen(entries, {i \in DOMAIN entries : entries[i].id # None})
    IN  [i \in DOMAIN titled |->
            [id |-> titled[i].id, source |-> feed.source, tags |-> feed.tags,
             published |-> PublishedAt(titled[i], now), text |-> titled[i].text]]

\* Seeded fault: the copy that came first is kept.
KeepExisting(existing, incoming) == existing

MergeDuplicate(existing, incoming) ==
    [existing EXCEPT
        !.tags = @ \cup incoming.tags,
        !.published = Min({@, incoming.published}),
        !.text = IF incoming.text.length > @.length THEN incoming.text ELSE @]

\* collected: what is known so far, by id.
Collect(collected, item) ==
    [id \in DOMAIN collected \cup {item.id} |->
        IF id # item.id THEN collected[id]
        ELSE IF id \in DOMAIN collected THEN MergeDuplicate(collected[id], item)
        ELSE item]

CollectAll(collected, batch) ==
    LET after[i \in 0..Len(batch)] ==
            IF i = 0 THEN collected ELSE Collect(after[i - 1], batch[i])
    IN  after[Len(batch)]

\* A feed answers None when it cannot be fetched or parsed.
Batch(answer, feed, now) == IF answer = None THEN <<>> ELSE ParseFeed(answer, feed, now)

Collected(answers, now) ==
    LET after[f \in 0..Len(Feeds)] ==
            IF f = 0 THEN <<>> ELSE CollectAll(after[f - 1], Batch(answers[f], Feeds[f], now))
    IN  after[Len(Feeds)]

\* The items of the feeds that answer, merged by id: the newest comes first.
FetchItems(answers, now) ==
    LET items == Range(Collected(answers, now))
    IN  Arranged(items, {p \in items \X items :
                            \/ p[1].published > p[2].published
                            \/ p[1].published = p[2].published /\ p[1].id > p[2].id})

-----------------------------------------------------------------------------
(* Relevance. *)

\* _DIRECT_ASSET_PATTERNS: the assets a text can name.
DirectAssets == {"BTC", "ETH", "GOLD", "WTI", "USD_IRR", "TOTAL_MCAP"}

Topic(btc, eth, gold, wti, usd, mcap) ==
    [BTC |-> btc, ETH |-> eth, GOLD |-> gold, WTI |-> wti, USD_IRR |-> usd, TOTAL_MCAP |-> mcap]

\* _MACRO_TOPICS; 0 where a topic says nothing of an asset.
MacroTopics ==
    [FED_MONETARY_POLICY |-> Topic(80, 80, 95, 60, 75, 90),
     US_INFLATION        |-> Topic(75, 75, 90, 55, 70, 85),
     US_LABOR_MARKET     |-> Topic(65, 65, 80, 45, 60, 75),
     US_DOLLAR           |-> Topic(65, 65, 90, 70, 0, 70),
     US_YIELDS           |-> Topic(65, 65, 95, 45, 65, 70),
     OIL_SUPPLY          |-> Topic(20, 20, 35, 95, 45, 25),
     GEOPOLITICAL_RISK   |-> Topic(45, 40, 90, 90, 90, 45)]

\* The strongest of the trusted tag, the mention and the topics.  No feed gives
\* a relevance of its own.
Relevance(item, asset) ==
    LET Says(topic) == IF asset \in DirectAssets THEN MacroTopics[topic][asset] ELSE 0
        topics == {Says(topic) : topic \in item.text.topics}
    IN  IF asset \in item.tags THEN 100
        ELSE IF asset \in item.text.assets \cap DirectAssets THEN Max({75} \cup topics)
        ELSE Max({0} \cup topics)

-----------------------------------------------------------------------------
(* The weigher. *)

SourceQuality(source) == IF source \in DOMAIN Quality THEN Quality[source] ELSE DefaultQuality

IsFresh(item, now) == now - item.published \in 0..MaxNewsAge

\* Halved with every half-life, in units of the decay at MaxNewsAge.
RecencyDecay(item, now) ==
    LET decay[left \in 0..MaxNewsAge] == IF left = 0 THEN 1 ELSE 2 * decay[left - 1]
    IN  decay[MaxNewsAge - (now - item.published)]

\* What the item weighs for each asset it is relevant for.
WeighItem(item, now) ==
    LET relevant == {a \in Assets : Relevance(item, a) > 0}
    IN  [id |-> item.id,
         weights |-> [a \in relevant |-> SourceQuality(item.source) * Relevance(item, a)
                                            * RecencyDecay(item, now)]]

Weight(weighted) == Max(Range(weighted.weights))

\* Seeded fault: the strongest items, whatever they are about.
TopItems(ranked) == SubSeq(ranked, 1, Min({Len(ranked), MaxDigest}))

\* The best item of each primary asset, and the strongest of the others up to
\* the cap, in the order of the ranking.
SelectItems(ranked) ==
    LET About(asset) == {i \in DOMAIN ranked : asset \in DOMAIN ranked[i].weights}
        representatives == {Min(About(a)) : a \in {p \in ToSet(PrimaryAssets) : About(p) # {}}}
        filled == Min({k \in 0..Len(ranked) :
                        k = Len(ranked) \/ Cardinality(representatives \cup 1..k) >= MaxDigest})
        chosen == Chosen(ranked, representatives \cup 1..filled)
    IN  IF Len(ranked) <= MaxDigest THEN ranked
        ELSE SubSeq(chosen, 1, Min({Len(chosen), MaxDigest}))

Eligible(items, now) ==
    {item \in items : /\ \E a \in Assets : Relevance(item, a) > 0
                      /\ IsFresh(item, now)}

\* The heaviest first, and of equally heavy ones the one of the least id.
Ranked(items, now) ==
    LET weighted == {WeighItem(item, now) : item \in Eligible(Range(items), now)}
    IN  Arranged(weighted, {p \in weighted \X weighted :
                               \/ Weight(p[1]) > Weight(p[2])
                               \/ Weight(p[1]) = Weight(p[2]) /\ p[1].id < p[2].id})

Weigh(items, now) == SelectItems(Ranked(items, now))

\* _digest_assets: the assets there is evidence for.
DigestAssets(digest) == UNION {DOMAIN digest[i].weights : i \in DOMAIN digest}

=============================================================================
