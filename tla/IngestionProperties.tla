------------------------- MODULE IngestionProperties -------------------------
(***************************************************************************)
(* What a bundle may say of the market, whichever sources and stores fail. *)
(***************************************************************************)
EXTENDS Ingestion

Rows == Range(last_good)
Published == Range(price)

\* The shapes of the tables and of the bundle; a row is always marked as the
\* last good one, and the live answers of the crypto sources never are.
TypeOK ==
    /\ \A row \in Rows : row.reason = "last_good" /\ row.as_of \in Int /\ row.value > 0
    /\ DOMAIN samples \subseteq Int
    /\ \A t \in DOMAIN samples : samples[t] \in Prices
    /\ now \in Start..MaxTime /\ ctx_now \in Start..now
    /\ ingests \in 0..MaxIngests
    /\ \A k \in CryptoSymbols, s \in CryptoSources :
          heard[k][s] # None => heard[k][s].reason # "last_good"
    /\ \A snapshot \in Published :
          /\ snapshot.reason \in {"fresh", "aged", "last_good"}
          /\ snapshot.value > 0
    /\ unread \subseteq Keys \ DOMAIN price
    /\ DOMAIN last_good \subseteq Keys
    /\ DOMAIN newest = DOMAIN last_good

\* The sources whose answer is young enough.
Young(answers, at) ==
    {s \in CryptoSources : answers[s] # None /\ answers[s].as_of \in (at - MaxAge)..at}

\* What a live price p owes to the answers of its sources at the time of the
\* ingestion: at least half of the young ones on either side of it, and so on.
Sound(answers, at, live, p) ==
    LET young == Young(answers, at)
        Below == {s \in young : answers[s].value <= p.value}
        Above == {s \in young : answers[s].value >= p.value}
        Near(s) == 100 * Distance(answers[s].value, p.value) <= MaxDeviation * p.value
    IN  /\ Cardinality(young) = 3 /\ MinSources <= 3 => live
        /\ live =>
              /\ Cardinality(young) >= MinSources
              /\ 2 * Cardinality(Below) >= Cardinality(young)
              /\ 2 * Cardinality(Above) >= Cardinality(young)
              /\ \A s \in young : Near(s) \/ s \in p.flags
              /\ Cardinality(young) = 2 => \A s \in young : Near(s)
              /\ Cardinality(young) < 3 => "reduced_source_count" \in p.flags
              /\ \E s \in young : p.as_of = answers[s].as_of
              /\ \A s \in young : p.as_of >= answers[s].as_of

IsLivePrice(k) == k \in DOMAIN price /\ price[k].reason # "last_good"

\* A live crypto price is the median of at least MinSources young sources, as
\* new as the newest of them; two agree, and where no flag says otherwise all
\* of them agree with it.  And three young sources always give a live price,
\* however far one of them is from the others.
CryptoPriceSound ==
    At("finish") =>
        \A k \in CryptoSymbols \cap ToSet(path) :
            Sound(heard[k], ctx_now, IsLivePrice(k), price[k])

Rising(q) == \A i \in 1..(Len(q) - 1) : q[i] < q[i + 1]

\* What the series s of the indicator k says of the value published with it.
EndsWithValue(k, s) ==
    /\ s.value \in Prices
    /\ Len(s.closes) <= IF k = "TOTAL_MCAP" THEN HistoryLimit ELSE TargetBars
    /\ s.dates # <<>> => Len(s.dates) = Len(s.closes) /\ Rising(s.dates)
    /\ \/ s.closes = <<>> \/ Last(s.closes) = s.value
       \/ s.source = "kifpool_tgju"
       \/ k = "USD_IRR" /\ Last(s.dates) > TehranDate(s.as_of)
    /\ s.source \in {"coingecko", "gate"} => Rising(s.closes)

\* Every series goes forward in time, is no longer than it may be, and ends
\* with the value published beside it; but for the dollar, whose value may be
\* a quote over the history of another source or of later days.  A thinned
\* chart keeps its order and its newest point, a price somebody quoted.
SeriesEndsWithValue == \A k \in DOMAIN indicator : EndsWithValue(k, indicator[k])

\* The close listed for an instant.
Listed(closes, dates, t) == closes[CHOOSE i \in DOMAIN dates : dates[i] = t]

\* What is listed ends at the snapshot itself, and a change is from the listed
\* sample nearest to its horizon, within the tolerance, to the value published.
HistoryReal(s) ==
    LET Off(t, h) == Distance(t, s.as_of - h)
    IN  s.closes # <<>> =>
          /\ Last(s.dates) = s.as_of
          /\ \A h \in Horizons :
                IF s.changes[h] = None
                THEN \A t \in ToSet(s.dates) : Off(t, h) > Tolerance
                ELSE /\ s.changes[h][2] = s.value
                     /\ \E t \in ToSet(s.dates) :
                          /\ Off(t, h) <= Tolerance
                          /\ \A u \in ToSet(s.dates) : Off(t, h) <= Off(u, h)
                          /\ s.changes[h][1] = Listed(s.closes, s.dates, t)

\* The history of the capitalisation is real, live or last good.
McapHistoryReal == "TOTAL_MCAP" \in DOMAIN price => HistoryReal(price["TOTAL_MCAP"])

\* A price served because its sources failed is the newest that was ever put
\* into the store, by its own timestamp, across crashes and later ingestions.
FallbackIsNewest ==
    \A k \in DOMAIN price :
        price[k].reason = "last_good" => k \in DOMAIN newest /\ price[k].as_of = newest[k]

\* A symbol priced once has a price in every later bundle, as long as the
\* store can be read.
PriceSurvives ==
    At("finish") =>
        \A k \in ToSet(path) \cap Keys :
            k \in DOMAIN newest => k \in DOMAIN price \cup unread

=============================================================================
