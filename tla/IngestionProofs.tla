-------------------------- MODULE IngestionProofs --------------------------
(***************************************************************************)
(* Theorems about the ingestion, for every value of the constants: any     *)
(* prices, charts and lags, any clock and any number of ingestions, on     *)
(* every path through the fixed order of the stages.                       *)
(***************************************************************************)
EXTENDS IngestionProperties, SourceSeriesProofs

-----------------------------------------------------------------------------
(* The history of the capitalisation. *)

(* What list_recent returns is closed upwards: it holds every sample that   *)
(* is later than one it holds.                                              *)
LEMMA RecentIsLatest ==
  ASSUME NEW table, DOMAIN table \in SUBSET Int, IsFiniteSet(DOMAIN table)
  PROVE  /\ DOMAIN ListRecent(table) \in SUBSET DOMAIN table
         /\ \A t \in DOMAIN ListRecent(table), u \in DOMAIN table :
               t <= u => u \in DOMAIN ListRecent(table)
         /\ \A v \in DOMAIN ListRecent(table) : ListRecent(table)[v] = table[v]
<1> DEFINE D == DOMAIN table
<1>1. PICK sorted : sorted = Ascending(D)
  OBVIOUS
<1>2. PICK n \in Nat : n = Cardinality(D)
  BY FS_CardinalityType
<1>3. /\ sorted \in [1..n -> D] /\ sorted \in Seq(D) /\ Len(sorted) = n
      /\ \A i, j \in 1..n : i < j => sorted[i] < sorted[j]
      /\ \A x \in D : \E i \in 1..n : sorted[i] = x
  <2>1. D \in SUBSET Int /\ IsFiniteSet(D)
    OBVIOUS
  <2> HIDE DEF D
  <2> QED
    BY <1>1, <1>2, <2>1, AscendingSet
<1>4. PICK kept : kept = Keep(sorted, HistoryLimit)
  OBVIOUS
<1>5. PICK d \in 0..n : /\ kept \in Seq(D) /\ Len(kept) = n - d
                        /\ \A i \in 1..(n - d) : kept[i] = sorted[d + i]
  <2>1. PICK d : d = Dropped(sorted, HistoryLimit)
    OBVIOUS
  <2>2. HistoryLimit \in Nat
    BY SourceSeriesAssumption
  <2> HIDE DEF D
  <2>3. sorted \in Seq(D)
    BY <1>3
  <2>4. Dropped(sorted, HistoryLimit) \in 0..Len(sorted)
    BY <2>2, <2>3, KeptSuffix
  <2>5. Keep(sorted, HistoryLimit) \in Seq(D)
    BY <2>2, <2>3, KeptSuffix
  <2>6. Len(Keep(sorted, HistoryLimit)) = Len(sorted) - Dropped(sorted, HistoryLimit)
    BY <2>2, <2>3, KeptSuffix
  <2>7. \A i \in 1..(Len(sorted) - Dropped(sorted, HistoryLimit)) :
           Keep(sorted, HistoryLimit)[i] = sorted[Dropped(sorted, HistoryLimit) + i]
    BY <2>2, <2>3, KeptSuffix
  <2> QED
    BY <1>3, <1>4, <2>1, <2>4, <2>5, <2>6, <2>7
<1>6. DOMAIN kept = 1..(n - d)
  <2> HIDE DEF D
  <2> QED
    BY <1>5
<1>7. ListRecent(table) = [v \in ToSet(kept) |-> table[v]]
  BY <1>1, <1>4 DEF ListRecent, Restrict
<1>8. ToSet(kept) = {sorted[d + i] : i \in 1..(n - d)}
  BY <1>5, <1>6 DEF ToSet
<1>9. ToSet(kept) \in SUBSET D
  BY <1>3, <1>8
<1>10. ASSUME NEW t \in ToSet(kept), NEW u \in D, t <= u
       PROVE  u \in ToSet(kept)
  <2>1. PICK i \in 1..(n - d) : t = sorted[d + i]
    BY <1>8, <1>10
  <2>2. PICK j \in 1..n : sorted[j] = u
    BY <1>3
  <2>3. t \in Int /\ u \in Int /\ d + i \in 1..n
    BY <1>3, <2>1
  <2>4. ~(j < d + i)
    BY <1>3, <1>10, <2>1, <2>2, <2>3
  <2>5. PICK k \in 1..(n - d) : k = j - d
    BY <2>1, <2>2, <2>4
  <2>6. u = sorted[d + k]
    BY <2>2, <2>5
  <2> QED
    BY <1>8, <2>6
<1> QED
  BY <1>7, <1>9, <1>10

LEMMA DistanceIsNat ==
  ASSUME NEW a \in Int, NEW b \in Int
  PROVE  Distance(a, b) \in Nat
BY DEF Distance

(* Of the samples listed there is always a nearest one, and it is the base  *)
(* of the change if it is near enough.                                      *)
LEMMA NearestIsListed ==
  ASSUME NEW l \in Nat \ {0}, NEW times \in [1..l -> Int], NEW target \in Int
  PROVE  LET base == NearestSample(times, target)
         IN  \/ /\ base = None
                /\ \A t \in ToSet(times) : Distance(t, target) > Tolerance
             \/ /\ base # None
                /\ base \in ToSet(times)
                /\ Distance(base, target) <= Tolerance
                /\ \A u \in ToSet(times) : Distance(base, target) <= Distance(u, target)
<1> DEFINE R == ToSet(times)
           Off(t) == Distance(t, target)
           near == {t \in R : \A u \in R : Off(t) <= Off(u)}
           base == NearestSample(times, target)
           offs == {Off(t) : t \in R}
<1>1. R \in SUBSET Int /\ IsFiniteSet(R) /\ R # {}
  <2>1. times \in Surjection(1..l, R)
    BY DEF Surjection, ToSet
  <2>2. IsFiniteSet(1..l)
    BY FS_Interval
  <2>3. R \in SUBSET Int /\ R # {}
    BY DEF ToSet
  <2> HIDE DEF R
  <2> QED
    BY <2>1, <2>2, <2>3, FS_Surjection
<1>2. \A t \in R : Off(t) \in Nat
  <2> HIDE DEF R
  <2> QED
    BY <1>1, DistanceIsNat
<1>3. near # {}
  <2>1. offs \in SUBSET Nat /\ offs # {}
    <3> HIDE DEF R, Off
    <3> QED
      BY <1>1, <1>2
  <2>2. PICK m \in offs : \A k \in offs : m <= k
    <3> HIDE DEF offs
    <3> QED
      BY <2>1, LeastOfNumbers
  <2>3. PICK t \in R : m = Off(t)
    OBVIOUS
  <2>4. ASSUME NEW u \in R PROVE Off(t) <= Off(u)
    <3>1. Off(u) \in offs
      OBVIOUS
    <3> QED
      BY <2>2, <2>3, <3>1
  <2> HIDE DEF R, Off
  <2> QED
    BY <2>3, <2>4
<1>4. Min(near) \in near
  <2>1. near \in SUBSET R
    OBVIOUS
  <2>2. near \in SUBSET Int /\ IsFiniteSet(near)
    <3> HIDE DEF near, R
    <3> QED
      BY <1>1, <2>1, FS_Subset
  <2> HIDE DEF near
  <2> QED
    BY <1>3, <2>2, MinIsSmallest
<1>5. base = IF near = {} \/ Distance(Min(near), target) > Tolerance THEN None ELSE Min(near)
  BY DEF NearestSample
<1>6. Min(near) \in R /\ \A u \in R : Off(Min(near)) <= Off(u)
  BY <1>4
<1>7. Tolerance \in Nat /\ None \notin Int
  BY SourceSeriesAssumption
<1>8. CASE Off(Min(near)) > Tolerance
  <2>1. base = None
    BY <1>5, <1>8
  <2>2. ASSUME NEW t \in R PROVE Off(t) > Tolerance
    <3>1. Off(Min(near)) <= Off(t) /\ Off(t) \in Nat /\ Off(Min(near)) \in Nat
      <4> HIDE DEF R, near, Off
      <4> QED
        BY <1>2, <1>6
    <3> HIDE DEF Off
    <3> QED
      BY <1>7, <1>8, <3>1
  <2> QED
    BY <2>1, <2>2
<1>9. CASE ~(Off(Min(near)) > Tolerance)
  <2>1. base = Min(near)
    BY <1>3, <1>5, <1>9
  <2>2. base \in R /\ base \in Int
    <3> HIDE DEF R, near, base
    <3> QED
      BY <1>1, <1>6, <2>1
  <2>3. base # None
    <3> HIDE DEF base
    <3> QED
      BY <1>7, <2>2
  <2>4. Off(base) <= Tolerance
    <3>1. Off(Min(near)) \in Nat
      <4> HIDE DEF R, near, Off
      <4> QED
        BY <1>2, <1>6
    <3> HIDE DEF Off, near, base
    <3> QED
      BY <1>7, <1>9, <2>1, <3>1
  <2>5. \A u \in R : Off(base) <= Off(u)
    <3> HIDE DEF R, near, base, Off
    <3> QED
      BY <1>6, <2>1
  <2> QED
    BY <2>2, <2>3, <2>4, <2>5
<1> QED
  BY <1>8, <1>9

(* A snapshot enriched with samples of which it is one has a real history:  *)
(* the samples listed are those up to it, and the last of them is itself.   *)
LEMMA EnrichedHistory ==
  ASSUME NEW s, IsLive(s),
         NEW table, DOMAIN table \in SUBSET Int, IsFiniteSet(DOMAIN table),
         \A t \in DOMAIN table : table[t] \in Int,
         (\E t \in DOMAIN table : t <= s.as_of)
            => s.as_of \in DOMAIN table /\ table[s.as_of] = s.value
  PROVE  HistoryReal(EnrichTotalMcap(s, table))
<1> DEFINE Q == {t \in DOMAIN table : t <= s.as_of}
           e == EnrichTotalMcap(s, table)
<1>1. s.as_of \in Int /\ s.value \in Nat
  BY DEF IsLive
<1>2. Q \in SUBSET Int /\ IsFiniteSet(Q)
  <2>1. Q \in SUBSET DOMAIN table
    OBVIOUS
  <2> HIDE DEF Q
  <2> QED
    BY <2>1, FS_Subset
<1>3. PICK sorted : sorted = Ascending(Q)
  OBVIOUS
<1>4. PICK n \in Nat : n = Cardinality(Q)
  BY <1>2, FS_CardinalityType
<1>5. /\ sorted \in [1..n -> Q] /\ sorted \in Seq(Q) /\ Len(sorted) = n
      /\ \A i, j \in 1..n : i < j => sorted[i] < sorted[j]
      /\ \A x \in Q : \E i \in 1..n : sorted[i] = x
  <2> HIDE DEF Q
  <2> QED
    BY <1>2, <1>3, <1>4, AscendingSet
<1>6. PICK times : times = Keep(sorted, HistoryLimit)
  OBVIOUS
<1>7. HistoryLimit \in Nat \ {0} /\ None \notin Int \X Int /\ Horizons \subseteq Nat
  BY SourceSeriesAssumption
<1>8. PICK d : d = Dropped(sorted, HistoryLimit)
  OBVIOUS
<1>9. /\ d \in 0..n /\ times \in Seq(Q) /\ Len(times) = n - d
      /\ n > 0 => n - d > 0
      /\ \A i \in 1..(n - d) : times[i] = sorted[d + i]
  <2> HIDE DEF Q
  <2>1. sorted \in Seq(Q) /\ HistoryLimit \in Nat
    BY <1>5, <1>7
  <2>2. Dropped(sorted, HistoryLimit) \in 0..Len(sorted)
    BY <2>1, KeptSuffix
  <2>3. Keep(sorted, HistoryLimit) \in Seq(Q)
    BY <2>1, KeptSuffix
  <2>4. Len(Keep(sorted, HistoryLimit)) = Len(sorted) - Dropped(sorted, HistoryLimit)
    BY <2>1, KeptSuffix
  <2>5. \A i \in 1..(Len(sorted) - Dropped(sorted, HistoryLimit)) :
           Keep(sorted, HistoryLimit)[i] = sorted[Dropped(sorted, HistoryLimit) + i]
    BY <2>1, KeptSuffix
  <2>6. n > 0 => n - d > 0
    BY <1>5, <1>7, <1>8 DEF Dropped
  <2> QED
    BY <1>5, <1>6, <1>8, <2>2, <2>3, <2>4, <2>5, <2>6
<1>10. PICK l \in Nat : l = n - d
  BY <1>9
<1>11. DOMAIN times = 1..l /\ Len(times) = l /\ times \in [1..l -> Q]
  <2> HIDE DEF Q
  <2> QED
    BY <1>9, <1>10
<1> DEFINE closes == [i \in DOMAIN times |-> table[times[i]]]
<1>12. /\ e.closes = closes /\ e.dates = times
       /\ e.as_of = s.as_of /\ e.value = s.value
       /\ \A h \in Horizons : e.changes[h] = HistoricalChange(table, times, s.as_of - h)
  <2>1. OrderedSamples(table, s.as_of) = sorted
    BY <1>3 DEF OrderedSamples
  <2>2. e = [s EXCEPT !.closes = closes, !.dates = times,
               !.changes = [h \in Horizons |-> HistoricalChange(table, times, s.as_of - h)]]
    BY <1>6, <2>1 DEF EnrichTotalMcap
  <2>3. {"closes", "dates", "changes", "as_of", "value"} \subseteq DOMAIN s
    BY DEF IsLive
  <2> HIDE DEF closes, e
  <2> QED
    BY <2>2, <2>3
<1>13. SUFFICES ASSUME closes # <<>> PROVE HistoryReal(e)
  BY <1>12 DEF HistoryReal
<1>14. l \in Nat \ {0}
  <2>1. SUFFICES ASSUME l = 0 PROVE FALSE
    BY <1>10
  <2>2. closes = <<>>
    BY <1>11, <2>1
  <2> QED
    BY <1>13, <2>2
<1>15. s.as_of \in Q /\ table[s.as_of] = s.value
  <2>1. times[1] \in Q
    BY <1>11, <1>14
  <2> QED
    BY <1>1, <2>1
<1>16. times[l] = s.as_of
  <2>1. times[l] = sorted[n] /\ n \in 1..n
    BY <1>9, <1>10, <1>14
  <2>2. PICK i \in 1..n : sorted[i] = s.as_of
    BY <1>5, <1>15
  <2>3. sorted[n] \in Q /\ sorted[i] \in Q
    BY <1>5, <2>1
  <2>4. i = n \/ sorted[i] < sorted[n]
    BY <1>5, <2>1
  <2>5. sorted[n] <= s.as_of /\ sorted[n] \in Int
    BY <1>2, <2>3
  <2> QED
    BY <1>1, <2>1, <2>2, <2>4, <2>5
<1>17. Last(times) = s.as_of
  BY <1>11, <1>16 DEF Last
<1>18. times \in [1..l -> Int]
  BY <1>2, <1>11
<1>19. ToSet(times) = {times[i] : i \in 1..l} /\ \A t \in ToSet(times) : t \in Q
  BY <1>11 DEF ToSet
<1>20. \A i \in 1..l : closes[i] = table[times[i]]
  BY <1>11
<1> DEFINE Off(t, h) == Distance(t, s.as_of - h)
<1>21. ASSUME NEW t \in ToSet(times) PROVE Listed(e.closes, e.dates, t) = table[t]
  <2> HIDE DEF closes, e
  <2>1. \E i \in DOMAIN e.dates : e.dates[i] = t
    BY <1>11, <1>12, <1>19
  <2>2. PICK i : i = CHOOSE j \in DOMAIN e.dates : e.dates[j] = t
    OBVIOUS
  <2>3. i \in DOMAIN e.dates /\ e.dates[i] = t
    BY <2>1, <2>2
  <2>4. e.closes[i] = table[t]
    BY <1>11, <1>12, <1>20, <2>3
  <2> QED
    BY <2>2, <2>4 DEF Listed
<1>22. ASSUME NEW h \in Horizons
       PROVE  IF e.changes[h] = None
              THEN \A t \in ToSet(times) : Off(t, h) > Tolerance
              ELSE /\ e.changes[h][2] = s.value
                   /\ \E t \in ToSet(times) :
                        /\ Off(t, h) <= Tolerance
                        /\ \A u \in ToSet(times) : Off(t, h) <= Off(u, h)
                        /\ e.changes[h][1] = Listed(e.closes, e.dates, t)
  <2> DEFINE target == s.as_of - h
             base == NearestSample(times, target)
  <2>1. target \in Int
    BY <1>1, <1>7
  <2>2. \/ /\ base = None
           /\ \A t \in ToSet(times) : Distance(t, target) > Tolerance
        \/ /\ base # None
           /\ base \in ToSet(times)
           /\ Distance(base, target) <= Tolerance
           /\ \A u \in ToSet(times) : Distance(base, target) <= Distance(u, target)
    <3> HIDE DEF target
    <3> QED
      BY <1>14, <1>18, <2>1, NearestIsListed
  <2>3. e.changes[h] = IF base = None THEN None ELSE <<table[base], table[Last(times)]>>
    BY <1>12 DEF HistoricalChange
  <2>4. CASE base = None
    <3>1. e.changes[h] = None
      BY <2>3, <2>4
    <3> HIDE DEF base
    <3> QED
      BY <2>2, <2>4, <3>1
  <2>5. CASE base # None
    <3>1. base \in ToSet(times)
      BY <2>2, <2>5
    <3>2. PICK b \in ToSet(times) : b = base
      BY <3>1
    <3>3. table[b] \in Int /\ table[s.as_of] \in Int
      BY <1>15, <1>19
    <3>4. e.changes[h] = <<table[b], table[s.as_of]>>
      <4> HIDE DEF e, base
      <4> QED
        BY <1>17, <2>3, <2>5, <3>2
    <3>5. e.changes[h] # None
      <4> HIDE DEF e
      <4>1. e.changes[h] \in Int \X Int
        BY <3>3, <3>4
      <4> QED
        BY <1>7, <4>1
    <3>6. /\ Off(b, h) <= Tolerance
          /\ \A u \in ToSet(times) : Off(b, h) <= Off(u, h)
      <4>1. Distance(base, target) <= Tolerance
            /\ \A u \in ToSet(times) : Distance(base, target) <= Distance(u, target)
        BY <2>2, <2>5
      <4> HIDE DEF base
      <4> QED
        BY <3>2, <4>1
    <3>7. e.changes[h][1] = Listed(e.closes, e.dates, b) /\ e.changes[h][2] = s.value
      <4> HIDE DEF e
      <4> QED
        BY <1>15, <1>21, <3>4
    <3> HIDE DEF e, Off
    <3> QED
      BY <3>5, <3>6, <3>7
  <2> QED
    BY <2>4, <2>5
<1> QED
  <2> HIDE DEF e, closes
  <2>1. Last(e.dates) = e.as_of
    BY <1>12, <1>17
  <2>2. ASSUME NEW h \in Horizons
        PROVE  IF e.changes[h] = None
               THEN \A t \in ToSet(e.dates) : Distance(t, e.as_of - h) > Tolerance
               ELSE /\ e.changes[h][2] = e.value
                    /\ \E t \in ToSet(e.dates) :
                         /\ Distance(t, e.as_of - h) <= Tolerance
                         /\ \A u \in ToSet(e.dates) :
                               Distance(t, e.as_of - h) <= Distance(u, e.as_of - h)
                         /\ e.changes[h][1] = Listed(e.closes, e.dates, t)
    <3>1. /\ ToSet(e.dates) = ToSet(times) /\ e.value = s.value
          /\ \A t : Distance(t, e.as_of - h) = Off(t, h)
      BY <1>12
    <3> HIDE DEF Off
    <3> QED
      BY <1>22, <3>1
  <2> QED
    BY <2>1, <2>2 DEF HistoryReal

-----------------------------------------------------------------------------
(* What the sources answer. *)

(* An answer of a crypto source: fresh, at a price that can be halved.      *)
IsQuote(s) == IsLive(s) /\ s.reason = "fresh" /\ s.value % 2 = 0

(* The clock, which is never before the first candle of a chart.            *)
ClockInv ==
    /\ now \in Start..MaxTime
    /\ ctx_now \in Start..now
    /\ ingests \in 0..MaxIngests

LEMMA ClockIsNat ==
  ASSUME ClockInv
  PROVE  now \in Nat /\ ctx_now \in Nat
BY IngestionAssumption DEF ClockInv

LEMMA PricesAreEven ==
  ASSUME NEW p \in Prices
  PROVE  p \in Nat \ {0} /\ p % 2 = 0
BY IngestionAssumption

LEMMA InstantsAreInt ==
  ASSUME ClockInv, NEW t \in Instants
  PROVE  t \in Int
BY ClockIsNat, IngestionAssumption DEF Instants

(* What CoinGecko answers: a quote, with a thinned chart that rises to it.  *)
LEMMA CoinGeckoQuotes ==
  ASSUME ClockInv, NEW answer \in CoinGeckoAnswers, answer # None
  PROVE  /\ IsQuote(answer)
         /\ \A k : k # "TOTAL_MCAP" => EndsWithValue(k, answer)
<1>1. PICK t \in Instants, p \in Prices, n \in Charts :
         answer = CoinGeckoSnapshot([ts |-> t, prices |-> [i \in 1..n |-> p - n + i]])
  BY DEF CoinGeckoAnswers
<1>2. PICK prices : prices = [i \in 1..n |-> p - n + i]
  OBVIOUS
<1>3. t \in Int /\ n \in Nat /\ p \in Nat \ {0} /\ p % 2 = 0
  BY InstantsAreInt, PricesAreEven, IngestionAssumption
<1>4. DOMAIN prices = 1..n /\ Len(prices) = n
  BY <1>2, <1>3
<1>5. n > 0 => prices[n] = p
  BY <1>2, <1>3
<1>6. n = 0 => prices = <<>>
  BY <1>2, <1>3
<1>7. answer = CoinGeckoSnapshot([ts |-> t, prices |-> prices])
  BY <1>1, <1>2
<1>8. IsLive(answer) /\ answer.reason = "fresh" /\ n > 0 /\ answer.value = prices[n]
  <2>1. n > 0 => prices[n] \in Nat \ {0}
    BY <1>3, <1>5
  <2> QED
    BY <1>3, <1>4, <1>6, <1>7, <2>1, CoinGeckoIsLive
<1>9. IsQuote(answer)
  BY <1>3, <1>5, <1>8 DEF IsQuote
<1>10. PICK k \in Nat \ {0} : k = TargetBars
  BY SourceSeriesAssumption
<1>11. PICK thin : thin = Downsample(prices, k)
  OBVIOUS
<1>12. /\ Len(thin) \in 1..k
       /\ \A i \in 1..(Len(thin) - 1) : thin[i] < thin[i + 1]
       /\ Last(thin) = prices[n]
  <2>1. n \in Nat \ {0} /\ \A i \in 1..n : prices[i] \in Int
    BY <1>2, <1>3, <1>8
  <2>2. \A i, j \in 1..n : i < j => prices[i] < prices[j]
    BY <1>2, <1>3
  <2> QED
    BY <1>4, <1>11, <2>1, <2>2, ThinnedClimbs
<1>13. answer = Snapshot("coingecko", t, Last(thin), thin, <<>>)
  <2>1. prices # <<>>
    BY <1>4, <1>8
  <2> QED
    BY <1>7, <1>10, <1>11, <2>1 DEF CoinGeckoSnapshot
<1>14. answer.closes = thin /\ answer.dates = <<>>
  BY <1>13 DEF Snapshot
<1>15. answer.value = p /\ Last(thin) = answer.value
  BY <1>5, <1>8, <1>12
<1>16. ASSUME NEW key, key # "TOTAL_MCAP" PROVE EndsWithValue(key, answer)
  <2>1. Len(thin) <= TargetBars /\ Rising(thin)
    BY <1>10, <1>12 DEF Rising
  <2> QED
    BY <1>14, <1>15, <1>16, <2>1 DEF EndsWithValue
<1> QED
  BY <1>9, <1>16

LEMMA KifpoolQuotes ==
  ASSUME ClockInv, NEW p \in Prices
  PROVE  IsQuote(KifpoolCryptoSnapshot(p, ctx_now)) /\ IsLive(KifpoolUsdSnapshot(p, now))
<1>1. now \in Int /\ ctx_now \in Int /\ p \in Nat \ {0} /\ p % 2 = 0
  BY ClockIsNat, PricesAreEven
<1>2. KifpoolCryptoSnapshot(p, ctx_now) = Snapshot("kifpool", ctx_now, p, <<>>, <<>>)
  BY DEF KifpoolCryptoSnapshot
<1>3. IsQuote(KifpoolCryptoSnapshot(p, ctx_now))
  BY <1>1, <1>2, SnapshotIsLive DEF IsQuote
<1> DEFINE closes == [i \in 1..TargetBars |-> p]
<1>4. KifpoolUsdSnapshot(p, now) = Snapshot("kifpool", now, p, closes, <<>>)
  BY DEF KifpoolUsdSnapshot
<1>5. IsLive(KifpoolUsdSnapshot(p, now))
  <2> HIDE DEF closes
  <2> QED
    BY <1>1, <1>4, SnapshotIsLive
<1> QED
  BY <1>3, <1>5

(* What Gate answers: a quote, with as many bars as there may be, in order. *)
LEMMA GateQuotes ==
  ASSUME ClockInv, NEW answer \in GateAnswers, answer # None
  PROVE  /\ IsQuote(answer)
         /\ \A k : k # "TOTAL_MCAP" => EndsWithValue(k, answer)
<1>1. PICK first \in {now - TargetBars * TicksPerBar - 1, now - TicksPerBar},
           last \in Instants \cap 0..now, gap \in {0, now - TicksPerBar - 1}, p \in Prices :
         answer = GateSnapshot(Candles(first, last, gap, p), ctx_now)
  BY DEF GateAnswers
<1>2. PICK D : D = (first..last) \ ({gap} \ {last})
  OBVIOUS
<1>3. PICK candles : candles = [t \in D |-> p - last + t]
  OBVIOUS
<1>4. first \in Int /\ last \in Int /\ p \in Nat \ {0} /\ p % 2 = 0 /\ ctx_now \in Int
  <2>1. TargetBars \in Nat /\ TicksPerBar \in Nat /\ now \in Int /\ ctx_now \in Int
    BY SourceSeriesAssumption, ClockIsNat
  <2>2. TargetBars * TicksPerBar \in Int
    BY <2>1
  <2> QED
    BY <2>1, <2>2, PricesAreEven
<1>5. D \in SUBSET Int /\ D \in SUBSET (first..last) /\ DOMAIN candles = D
  BY <1>2, <1>3, <1>4
<1>6. IsFiniteSet(D)
  <2>1. IsFiniteSet(first..last)
    BY <1>4, FS_Interval
  <2> QED
    BY <1>5, <2>1, FS_Subset
<1>7. answer = GateSnapshot(candles, ctx_now)
  BY <1>1, <1>2, <1>3 DEF Candles
<1>8. PICK k \in Nat \ {0} : k = TargetBars
  BY SourceSeriesAssumption
<1>9. D # {}
  <2>1. SUFFICES ASSUME D = {} PROVE FALSE
    OBVIOUS
  <2>2. PICK B : B = Buckets(candles)
    OBVIOUS
  <2>3. B = {}
    BY <1>5, <2>1, <2>2 DEF Buckets
  <2>4. Cardinality(B) = 0 /\ IsFiniteSet(B)
    BY <2>3, FS_EmptySet
  <2>5. Ascending(B) \in Seq(B) /\ Len(Ascending(B)) = Cardinality(B)
    BY <2>3, <2>4, AscendingSet
  <2>6. Len(Ascending(B)) = 0 /\ Len(Ascending(B)) <= k
    BY <2>4, <2>5
  <2>7. Keep(Ascending(B), k) = Ascending(B)
    BY <2>6 DEF Keep
  <2>8. Len(Keep(Ascending(Buckets(candles)), TargetBars)) < TargetBars
    BY <1>8, <2>2, <2>6, <2>7
  <2> QED
    BY <1>7, <2>8 DEF GateSnapshot
<1>10. last \in D /\ \A t \in D : t <= last
  <2>1. PICK t \in D : TRUE
    BY <1>9
  <2>2. first <= last
    BY <1>4, <1>5, <2>1
  <2> QED
    BY <1>2, <1>4, <1>5, <2>2
<1>11. candles[last] = p /\ \A t \in D : candles[t] \in Int
  BY <1>3, <1>4, <1>5, <1>10
<1>12. \A t, u \in D : t < u => candles[t] < candles[u]
  BY <1>3, <1>4, <1>5
<1>13. /\ IsLive(answer) /\ answer.reason = "fresh" /\ answer.source = "gate"
       /\ answer.value = p /\ Last(answer.closes) = p
       /\ Len(answer.closes) = TargetBars /\ Len(answer.dates) = TargetBars
       /\ Rising(answer.dates) /\ Rising(answer.closes)
  <2>1. /\ IsLive(answer) /\ answer.reason = "fresh" /\ answer.source = "gate"
        /\ answer.value = candles[last] /\ Last(answer.closes) = candles[last]
        /\ Len(answer.closes) = TargetBars /\ Len(answer.dates) = TargetBars
        /\ \A i \in 1..(Len(answer.dates) - 1) : answer.dates[i] < answer.dates[i + 1]
        /\ \A i \in 1..(Len(answer.closes) - 1) : answer.closes[i] < answer.closes[i + 1]
    <3>1. DOMAIN candles \in SUBSET Int /\ IsFiniteSet(DOMAIN candles)
      BY <1>5, <1>6
    <3>2. /\ \A t \in DOMAIN candles : candles[t] \in Int
          /\ \A t, u \in DOMAIN candles : t < u => candles[t] < candles[u]
      BY <1>5, <1>11, <1>12
    <3>3. PICK top \in DOMAIN candles : top = last
      BY <1>5, <1>10
    <3>4. (\A t \in DOMAIN candles : t <= top) /\ candles[top] \in Nat \ {0}
      BY <1>4, <1>5, <1>10, <1>11, <3>3
    <3>5. ctx_now \in Int /\ GateSnapshot(candles, ctx_now) # None
      BY <1>4, <1>7
    <3>6. PICK s : s = GateSnapshot(candles, ctx_now)
      OBVIOUS
    <3>7. /\ IsLive(s) /\ s.reason = "fresh" /\ s.source = "gate"
          /\ s.value = candles[top] /\ Last(s.closes) = candles[top]
          /\ Len(s.closes) = TargetBars /\ Len(s.dates) = TargetBars
          /\ \A i \in 1..(Len(s.dates) - 1) : s.dates[i] < s.dates[i + 1]
          /\ \A i \in 1..(Len(s.closes) - 1) : s.closes[i] < s.closes[i + 1]
      BY ONLY <3>1, <3>2, <3>4, <3>5, <3>6, GateSeries
    <3> QED
      BY ONLY <1>7, <3>3, <3>6, <3>7
  <2> QED
    BY <1>11, <2>1 DEF Rising
<1>14. IsQuote(answer)
  BY <1>4, <1>13 DEF IsQuote
<1>15. ASSUME NEW key, key # "TOTAL_MCAP" PROVE EndsWithValue(key, answer)
  BY <1>8, <1>13, <1>15 DEF EndsWithValue
<1> QED
  BY <1>14, <1>15

LEMMA HistoryRows ==
  ASSUME ClockInv, NEW rows \in HistoryAnswers, rows # None
  PROVE  \E n \in Nat : /\ DOMAIN rows = 1..n
                        /\ \A i \in 1..n : rows[i].day \in Int /\ rows[i].close \in Nat
<1>1. PICK n \in {TargetBars, TargetBars + 1},
           top \in {TehranDate(now) - 1, TehranDate(now)}, bad \in {0, 1}, p \in Prices :
         rows = [i \in 1..n |-> [day |-> top - i + 1, close |-> IF i = bad THEN 0 ELSE p]]
  BY DEF HistoryAnswers
<1>2. n \in Nat /\ p \in Nat
  BY SourceSeriesAssumption, PricesAreEven
<1>3. top \in Int
  <2>1. now + TehranOffset \in Int /\ Day \in Nat \ {0}
    BY ClockIsNat, SourceSeriesAssumption
  <2>2. TehranDate(now) \in Int
    BY <2>1 DEF TehranDate
  <2> QED
    BY <2>2
<1> QED
  BY <1>1, <1>2, <1>3

LEMMA QuotesAreDated ==
  ASSUME ClockInv, NEW quote \in QuoteAnswers, quote # None
  PROVE  quote.ts \in Int /\ quote.price \in Nat \ {0}
BY InstantsAreInt, PricesAreEven DEF QuoteAnswers

-----------------------------------------------------------------------------
(* Series that end with the value published beside them. *)

LEMMA DayOfInstant ==
  ASSUME NEW t \in Int
  PROVE  TehranDate(t) \in Int
<1>1. PICK d \in Nat \ {0}, o \in Nat : d = Day /\ o = TehranOffset
  BY SourceSeriesAssumption
<1>2. (t + o) \div d \in Int
  OBVIOUS
<1> QED
  BY <1>1, <1>2 DEF TehranDate

(* A history comes newest first, a row for each day, at the prices quoted.  *)
LEMMA HistoryFalls ==
  ASSUME ClockInv, NEW rows \in HistoryAnswers, rows # None
  PROVE  \E n \in Nat :
            /\ DOMAIN rows = 1..n
            /\ \A i \in 1..n : /\ rows[i].day \in Int /\ rows[i].close \in Nat
                               /\ rows[i].close > 0 => rows[i].close \in Prices
            /\ \A i, j \in 1..n : i < j => rows[j].day < rows[i].day
<1>1. PICK n \in {TargetBars, TargetBars + 1},
           top \in {TehranDate(now) - 1, TehranDate(now)}, bad \in {0, 1}, p \in Prices :
         rows = [i \in 1..n |-> [day |-> top - i + 1, close |-> IF i = bad THEN 0 ELSE p]]
  BY DEF HistoryAnswers
<1>2. n \in Nat /\ p \in Nat
  BY SourceSeriesAssumption, PricesAreEven
<1>3. top \in Int
  BY ClockIsNat, DayOfInstant
<1>4. DOMAIN rows = 1..n
  BY <1>1
<1>5. ASSUME NEW i \in 1..n
      PROVE  /\ rows[i].day = top - i + 1 /\ rows[i].day \in Int
             /\ rows[i].close \in {0, p} /\ rows[i].close \in Nat
  BY <1>1, <1>2, <1>3
<1>6. \A i, j \in 1..n : i < j => rows[j].day < rows[i].day
  BY <1>2, <1>3, <1>5
<1>7. ASSUME NEW i \in 1..n, rows[i].close > 0 PROVE rows[i].close \in Prices
  BY <1>5, <1>7
<1>8. \A i \in 1..n : rows[i].day \in Int /\ rows[i].close \in Nat
  BY <1>5
<1> QED
  BY <1>2, <1>4, <1>6, <1>7, <1>8

(* The series of daily bars.                                                *)
LEMMA DailySeries ==
  ASSUME NEW P, NEW bars, Daily(bars, P)
  PROVE  /\ Len(Closes(bars)) = TargetBars /\ Len(Dates(bars)) = TargetBars
         /\ Rising(Dates(bars))
         /\ Last(Closes(bars)) = Last(bars).close /\ Last(Dates(bars)) = Last(bars).day
         /\ Last(bars).close \in P /\ Last(bars).day \in Int
<1>1. PICK k \in Nat \ {0} : k = TargetBars
  BY SourceSeriesAssumption
<1>2. DOMAIN bars = 1..k /\ Len(bars) = k
  BY <1>1 DEF Daily
<1>3. PICK c, d : c = Closes(bars) /\ d = Dates(bars)
  OBVIOUS
<1>4. c = [i \in 1..k |-> bars[i].close] /\ d = [i \in 1..k |-> bars[i].day]
  BY <1>2, <1>3 DEF Closes, Dates
<1>5. Len(c) = k /\ Len(d) = k
  BY <1>4
<1>6. Last(c) = bars[k].close /\ Last(d) = bars[k].day /\ Last(bars) = bars[k]
  BY <1>2, <1>4, <1>5 DEF Last
<1>7. bars[k].close \in P /\ bars[k].day \in Int
  BY <1>1 DEF Daily
<1>8. ASSUME NEW i \in 1..(k - 1) PROVE d[i] < d[i + 1]
  <2>1. PICK j \in 1..k : j = i + 1 /\ i \in 1..k /\ i < j
    OBVIOUS
  <2>2. bars[i].day < bars[j].day
    BY <1>1, <2>1 DEF Daily
  <2> QED
    BY <1>4, <2>1, <2>2
<1> QED
  BY <1>1, <1>3, <1>5, <1>6, <1>7, <1>8 DEF Rising

LEMMA OilEnds ==
  ASSUME NEW bars, Daily(bars, Prices), NEW rows, bars = HistoryBars(rows), bars # None,
         NEW quote, quote.ts \in Int, quote.price \in Prices, NEW at
  PROVE  EndsWithValue("WTI", OilSnapshot(quote, rows, at))
<1>1. PICK last, day : last = Last(bars) /\ day = TehranDate(quote.ts) /\ day \in Int
  BY DayOfInstant
<1>2. last.day \in Int /\ last.close \in Prices
  BY <1>1, DailySeries
<1>3. PICK bar : bar = [day |-> IF day >= last.day THEN day ELSE last.day,
                        close |-> IF day >= last.day THEN quote.price ELSE last.close]
  OBVIOUS
<1>4. bar.day \in Int /\ bar.close \in Prices /\ last.day <= bar.day
  BY <1>1, <1>2, <1>3
<1>5. PICK m : m = MergeCurrent(bars, bar)
  OBVIOUS
<1>6. Daily(m, Prices) /\ Last(m) = bar
  BY <1>1, <1>4, <1>5, MergedIsDaily
<1>7. PICK as_of : as_of = IF day >= last.day THEN quote.ts ELSE last.day * Day + Day \div 2
  OBVIOUS
<1>8. PICK s : s = Snapshot("tgju", as_of, bar.close, Closes(m), Dates(m))
  OBVIOUS
<1>9. PICK o : o = OilSnapshot(quote, rows, at)
  OBVIOUS
<1>10. o = [s EXCEPT !.reason = Age(TehranDate(at) - bar.day, OilStaleDays)]
  <2>1. m = MergeCurrent(bars, [day |-> bar.day, close |-> bar.close])
    BY <1>3, <1>5
  <2>2. bar.day = IF day >= last.day THEN day ELSE last.day
    BY <1>3
  <2>3. bar.close = IF day >= last.day THEN quote.price ELSE last.close
    BY <1>3
  <2> QED
    BY <1>1, <1>7, <1>8, <1>9, <2>1, <2>2, <2>3 DEF OilSnapshot
<1>11. /\ o.source = "tgju" /\ o.value = bar.close
       /\ o.closes = Closes(m) /\ o.dates = Dates(m)
  BY <1>8, <1>10 DEF Snapshot
<1>12. /\ Len(o.closes) = TargetBars /\ Len(o.dates) = TargetBars /\ Rising(o.dates)
       /\ Last(o.closes) = o.value
  BY <1>6, <1>11, DailySeries
<1>13. TargetBars \in Nat
  BY SourceSeriesAssumption
<1> QED
  BY <1>4, <1>9, <1>11, <1>12, <1>13 DEF EndsWithValue

(* The dollar of TGJU alone: its quote ends the series, unless the bars are *)
(* of a later day.                                                          *)
LEMMA TgjuEnds ==
  ASSUME NEW bars, Daily(bars, Prices), NEW rows, bars = HistoryBars(rows), bars # None,
         NEW quote, quote.ts \in Int, quote.price \in Prices, NEW at
  PROVE  EndsWithValue("USD_IRR", TgjuUsdSnapshot(quote, rows, at))
<1>1. PICK last, day : last = Last(bars) /\ day = TehranDate(quote.ts) /\ day \in Int
  BY DayOfInstant
<1>2. last.day \in Int
  BY <1>1, DailySeries
<1>3. PICK m : m = TgjuBars(quote, bars)
  OBVIOUS
<1>4. PICK s : s = Snapshot("tgju", quote.ts, quote.price, Closes(m), Dates(m))
  OBVIOUS
<1>5. PICK o : o = TgjuUsdSnapshot(quote, rows, at)
  OBVIOUS
<1>6. o = [s EXCEPT !.reason = Age(at - quote.ts, UsdStaleAfter)]
  BY <1>3, <1>4, <1>5 DEF TgjuUsdSnapshot
<1>7. /\ o.source = "tgju" /\ o.value = quote.price /\ o.as_of = quote.ts
      /\ o.closes = Closes(m) /\ o.dates = Dates(m)
  BY <1>4, <1>6 DEF Snapshot
<1>8. /\ Daily(m, Prices)
      /\ Last(m).close = quote.price \/ Last(m).day > day
  <2>1. CASE day >= last.day
    <3>1. PICK bar : bar = [day |-> day, close |-> quote.price]
      OBVIOUS
    <3>2. m = MergeCurrent(bars, bar)
      BY <1>1, <1>3, <2>1, <3>1 DEF TgjuBars
    <3>3. bar.day \in Int /\ bar.close \in Prices /\ Last(bars).day <= bar.day
      BY <1>1, <1>2, <2>1, <3>1
    <3>4. Daily(m, Prices) /\ Last(m) = bar
      BY <3>2, <3>3, MergedIsDaily
    <3> QED
      BY <3>1, <3>4
  <2>2. CASE ~(day >= last.day)
    <3>1. m = bars
      BY <1>1, <1>3, <2>2 DEF TgjuBars
    <3> QED
      BY <1>1, <1>2, <2>2, <3>1
  <2> QED
    BY <2>1, <2>2
<1>9. /\ Len(o.closes) = TargetBars /\ Len(o.dates) = TargetBars /\ Rising(o.dates)
      /\ Last(o.closes) = Last(m).close /\ Last(o.dates) = Last(m).day
  BY <1>7, <1>8, DailySeries
<1>10. Last(o.closes) = o.value \/ Last(o.dates) > TehranDate(o.as_of)
  BY <1>1, <1>7, <1>8, <1>9
<1>11. TargetBars \in Nat
  BY SourceSeriesAssumption
<1> QED
  BY <1>5, <1>7, <1>9, <1>10, <1>11 DEF EndsWithValue

(* The dollar, whichever of its sources answers.                            *)
LEMMA DollarEnds ==
  ASSUME ClockInv, NEW spot \in {KifpoolUsdSnapshot(p, now) : p \in Prices} \cup {None},
         NEW quote \in QuoteAnswers, NEW rows \in HistoryAnswers, NEW at,
         HybridUsdSnapshot(spot, quote, rows, at) # None
  PROVE  EndsWithValue("USD_IRR", HybridUsdSnapshot(spot, quote, rows, at))
<1>1. PICK o : o = HybridUsdSnapshot(spot, quote, rows, at)
  OBVIOUS
<1>2. PICK bars : bars = IF rows = None THEN None ELSE HistoryBars(rows)
  OBVIOUS
<1>3. ASSUME bars # None PROVE Daily(bars, Prices) /\ bars = HistoryBars(rows) /\ rows # None
  <2>1. rows # None /\ bars = HistoryBars(rows)
    BY <1>2, <1>3
  <2>2. PICK n \in Nat :
            /\ DOMAIN rows = 1..n
            /\ \A i \in 1..n : /\ rows[i].day \in Int /\ rows[i].close \in Nat
                               /\ rows[i].close > 0 => rows[i].close \in Prices
            /\ \A i, j \in 1..n : i < j => rows[j].day < rows[i].day
    BY <2>1, HistoryFalls
  <2>3. Daily(HistoryBars(rows), Prices)
    BY <1>3, <2>1, <2>2, BarsAreDaily
  <2> QED
    BY <2>1, <2>3
<1>4. CASE spot = None
  <2>1. quote # None /\ rows # None /\ o = TgjuUsdSnapshot(quote, rows, at)
    BY <1>1, <1>4 DEF HybridUsdSnapshot
  <2>2. bars # None
    BY <1>1, <1>2, <2>1 DEF TgjuUsdSnapshot
  <2>3. quote.ts \in Int /\ quote.price \in Prices
    BY <2>1, InstantsAreInt DEF QuoteAnswers
  <2> QED
    BY <1>1, <1>3, <2>1, <2>2, <2>3, TgjuEnds
<1>5. CASE spot # None
  <2>1. PICK p \in Prices : spot = KifpoolUsdSnapshot(p, now)
    BY <1>5
  <2>2. PICK prices : prices = [i \in 1..TargetBars |-> p]
    OBVIOUS
  <2>3. spot = Snapshot("kifpool", now, p, prices, <<>>)
    BY <2>1, <2>2 DEF KifpoolUsdSnapshot
  <2>4. /\ spot.value = p /\ spot.source = "kifpool" /\ spot.dates = <<>>
        /\ DOMAIN spot = {"source", "as_of", "value", "reason", "closes", "dates", "flags", "changes"}
    BY <2>3 DEF Snapshot
  <2>5. TargetBars \in Nat \ {0}
    BY SourceSeriesAssumption
  <2>6. CASE bars = None
    <3>1. o = KifpoolOnly(spot)
      BY <1>1, <1>2, <1>5, <2>6 DEF HybridUsdSnapshot
    <3>2. o.value = p /\ o.source = "kifpool" /\ o.dates = <<>> /\ o.closes = <<p>>
      BY <2>4, <3>1 DEF KifpoolOnly
    <3>3. Len(o.closes) = 1 /\ Last(o.closes) = p
      BY <3>2 DEF Last
    <3> QED
      BY <1>1, <2>5, <3>2, <3>3 DEF EndsWithValue
  <2>7. CASE bars # None
    <3>1. PICK s : s = Snapshot("kifpool_tgju", spot.as_of, spot.value, Closes(bars), Dates(bars))
      OBVIOUS
    <3>2. PICK flags : flags = DeviationFlags(spot.value, Last(bars).close)
      OBVIOUS
    <3>3. o = [s EXCEPT !.flags = flags]
      BY <1>1, <1>2, <1>5, <2>7, <3>1, <3>2 DEF HybridUsdSnapshot
    <3>4. /\ o.value = p /\ o.source = "kifpool_tgju"
          /\ o.closes = Closes(bars) /\ o.dates = Dates(bars)
      BY <2>4, <3>1, <3>3 DEF Snapshot
    <3>5. Len(o.closes) = TargetBars /\ Len(o.dates) = TargetBars /\ Rising(o.dates)
      BY <1>3, <2>7, <3>4, DailySeries
    <3> QED
      BY <1>1, <2>5, <3>4, <3>5 DEF EndsWithValue
  <2> QED
    BY <2>6, <2>7
<1> QED
  BY <1>4, <1>5

(* The capitalisation, with samples of which it is one.                     *)
LEMMA EnrichedEnds ==
  ASSUME NEW s, IsLive(s), s.value \in Prices, s.source = "coinmarketcap",
         NEW table, DOMAIN table \in SUBSET Int, IsFiniteSet(DOMAIN table),
         (\E t \in DOMAIN table : t <= s.as_of)
            => s.as_of \in DOMAIN table /\ table[s.as_of] = s.value
  PROVE  EndsWithValue("TOTAL_MCAP", EnrichTotalMcap(s, table))
<1>1. PICK Q : Q = {t \in DOMAIN table : t <= s.as_of}
  OBVIOUS
<1>2. Q \in SUBSET Int /\ Q \in SUBSET DOMAIN table
  BY <1>1
<1>3. IsFiniteSet(Q)
  BY <1>2, FS_Subset
<1>4. PICK m \in Nat : m = Cardinality(Q)
  BY <1>3, FS_CardinalityType
<1>5. PICK sorted : sorted = Ascending(Q)
  OBVIOUS
<1>6. /\ sorted \in [1..m -> Q] /\ sorted \in Seq(Q) /\ Len(sorted) = m
      /\ \A i, j \in 1..m : i < j => sorted[i] < sorted[j]
      /\ \A x \in Q : \E i \in 1..m : sorted[i] = x
  BY <1>2, <1>3, <1>4, <1>5, AscendingSet
<1>7. PICK k \in Nat \ {0} : k = HistoryLimit
  BY SourceSeriesAssumption
<1>8. PICK times : times = Keep(sorted, k)
  OBVIOUS
<1>9. \A i, j \in 1..Len(sorted) : i < j => sorted[i] < sorted[j]
  BY <1>6
<1>10. times \in Seq(Q) /\ Len(times) \in Nat
  BY <1>2, <1>6, <1>8, <1>9, KeptClimbs
<1>11. (Len(sorted) <= k => Len(times) = Len(sorted)) /\ (Len(sorted) > k => Len(times) = k)
  BY <1>2, <1>6, <1>8, <1>9, KeptClimbs
<1>12. \A i, j \in 1..Len(times) : i < j => times[i] < times[j]
  BY <1>2, <1>6, <1>8, <1>9, KeptClimbs
<1>13. Len(times) > 0 => times[Len(times)] = sorted[Len(sorted)]
  BY <1>2, <1>6, <1>8, <1>9, KeptClimbs
<1>14. PICK l \in 0..k : l = Len(times) /\ DOMAIN times = 1..l
  BY <1>6, <1>10, <1>11
<1>15. PICK e, closes : /\ e = EnrichTotalMcap(s, table)
                        /\ closes = [i \in 1..l |-> table[times[i]]]
  OBVIOUS
<1>16. e.value = s.value /\ e.source = s.source /\ e.closes = closes /\ e.dates = times
  <2>1. times = Keep(OrderedSamples(table, s.as_of), HistoryLimit)
    BY <1>1, <1>5, <1>7, <1>8 DEF OrderedSamples
  <2> QED
    BY <1>14, <1>15, <2>1 DEF EnrichTotalMcap, IsLive
<1>17. Len(closes) = l
  BY <1>15
<1>18. Rising(times)
  <2>1. ASSUME NEW i \in 1..(l - 1) PROVE times[i] < times[i + 1]
    <3>1. PICK j \in 1..l : j = i + 1 /\ i \in 1..l /\ i < j
      OBVIOUS
    <3> QED
      BY <1>12, <1>14, <3>1
  <2> QED
    BY <1>14, <2>1 DEF Rising
<1>19. CASE l = 0
  <2>1. closes = <<>>
    BY <1>15, <1>19
  <2> QED
    BY <1>7, <1>14, <1>15, <1>16, <1>17, <1>18, <1>19, <2>1 DEF EndsWithValue
<1>20. CASE l # 0
  <2>1. m > 0 /\ m \in 1..m
    BY <1>6, <1>11, <1>14, <1>20
  <2>2. PICK x \in Q : x = sorted[m]
    BY <1>6, <2>1
  <2>3. s.as_of \in DOMAIN table /\ table[s.as_of] = s.value /\ x <= s.as_of
    BY <1>1, <2>2
  <2>4. PICK y \in Int : y = s.as_of
    BY DEF IsLive
  <2>5. y \in Q
    BY <1>1, <2>3, <2>4
  <2>6. PICK i \in 1..m : sorted[i] = y
    BY <1>6, <2>5
  <2>7. i < m => y < x
    BY <1>6, <2>1, <2>2, <2>6
  <2>8. x = y
    BY <1>2, <2>2, <2>3, <2>4, <2>6, <2>7
  <2>9. closes[l] = table[times[l]] /\ times[l] = x
    BY <1>6, <1>13, <1>14, <1>15, <1>20, <2>2
  <2>10. Last(closes) = s.value
    BY <1>17, <2>3, <2>4, <2>8, <2>9 DEF Last
  <2> QED
    BY <1>7, <1>14, <1>15, <1>16, <1>17, <1>18, <2>10 DEF EndsWithValue
<1> QED
  BY <1>19, <1>20

-----------------------------------------------------------------------------
(* The inductive invariant. *)

(* A snapshot as the store gives it back.                                   *)
IsRow(s) ==
    /\ DOMAIN s = {"source", "as_of", "value", "reason", "closes", "dates", "flags", "changes"}
    /\ s.as_of \in Int
    /\ s.value \in Nat \ {0}
    /\ s.reason = "last_good"

(* The store: a row for each key something was recorded of, as new as the   *)
(* newest of it; the capitalisation with a real history.                    *)
StoreInv ==
    /\ DOMAIN last_good \subseteq Keys
    /\ DOMAIN newest = DOMAIN last_good
    /\ \A k \in DOMAIN last_good : IsRow(last_good[k]) /\ newest[k] = last_good[k].as_of
    /\ "TOTAL_MCAP" \in DOMAIN last_good => HistoryReal(last_good["TOTAL_MCAP"])

SamplesInv ==
    /\ DOMAIN samples \in SUBSET Int
    /\ IsFiniteSet(DOMAIN samples)
    /\ \A t \in DOMAIN samples : samples[t] \in Prices

(* What is ahead: no stage twice, "finish" the last of all, and a source of *)
(* a crypto symbol only at the head, with the symbol after it.              *)
CryptoSteps == {"kifpool", "gate", "merge"}

Stages == ToSet(AllStages) \cup CryptoSteps \cup {"finish"}

Plan(q) ==
    /\ q \in Seq(Stages)
    /\ \A i, j \in 1..Len(q) : q[i] = q[j] => i = j
    /\ \A i \in 1..Len(q) : q[i] = "finish" => i = Len(q)
    /\ \A i \in 1..Len(q) :
          q[i] \in CryptoSteps => i = 1 /\ Len(q) >= 2 /\ q[2] \in CryptoSymbols

TodoInv == Plan(todo)

AnswersInv ==
    /\ heard = [k \in CryptoSymbols |-> [s \in CryptoSources |-> heard[k][s]]]
    /\ \A k \in CryptoSymbols, s \in CryptoSources : heard[k][s] # None => IsQuote(heard[k][s])
    /\ cmc # None => IsLive(cmc) /\ HistoryReal(cmc)

(* The bundle: a price is live, or it is the newest of the store.           *)
PriceInv ==
    /\ DOMAIN price \subseteq Keys
    /\ unread \subseteq Keys \ DOMAIN price
    /\ \A k \in DOMAIN price :
          \/ IsLive(price[k])
          \/ IsRow(price[k]) /\ k \in DOMAIN newest /\ price[k].as_of = newest[k]
    /\ "TOTAL_MCAP" \in DOMAIN price => HistoryReal(price["TOTAL_MCAP"])

(* A key whose stage is ahead has neither a price nor a failed read; one    *)
(* whose stage is behind has been served if the store knows it.             *)
DoneInv ==
    /\ path \in Paths
    /\ \A k \in Keys \cap ToSet(todo) : k \notin DOMAIN price \cup unread
    /\ todo # <<>> =>
          \A k \in ToSet(path) \cap Keys :
              k \in ToSet(todo) \/ (k \in DOMAIN newest => k \in DOMAIN price \cup unread)

(* A crypto symbol whose stage is behind has a sound price or none.         *)
SoundInv ==
    todo # <<>> =>
        \A k \in ToSet(path) \cap CryptoSymbols :
            k \in ToSet(todo) \/ Sound(heard[k], ctx_now, IsLivePrice(k), price[k])

IngestInv ==
    /\ ClockInv
    /\ StoreInv
    /\ SamplesInv
    /\ TodoInv
    /\ AnswersInv
    /\ PriceInv
    /\ DoneInv
    /\ SoundInv

LEMMA KeysAre ==
  /\ Keys = {"BTC", "ETH", "GOLD", "WTI", "USD_IRR", "TOTAL_MCAP", "FEAR_GREED"}
  /\ ToSet(AllStages) = Keys \cup {"CMC"}
<1>1. DOMAIN AllStages = 1..8
  BY DEF AllStages
<1>2. ToSet(AllStages) = {"CMC", "BTC", "ETH", "GOLD", "WTI", "USD_IRR", "TOTAL_MCAP", "FEAR_GREED"}
  BY <1>1 DEF ToSet, AllStages
<1> QED
  BY <1>2 DEF Keys

-----------------------------------------------------------------------------
(* One key is published. *)

(* What a stage does with its key: a live snapshot, or the last good one.   *)
Publishes(key) ==
    \/ \E s : /\ IsLive(s)
              /\ key = "TOTAL_MCAP" => HistoryReal(s)
              /\ PublishLive(key, s)
    \/ PublishLastGood(key)

(* A snapshot that is read back is the snapshot, marked.                    *)
LEMMA RowOfLive ==
  ASSUME NEW s, IsLive(s)
  PROVE  /\ IsRow(Row(s))
         /\ Row(s).as_of = s.as_of
         /\ HistoryReal(s) => HistoryReal(Row(s))
<1>1. PICK r : r = Row(s)
  OBVIOUS
<1>2. /\ DOMAIN r = DOMAIN s /\ r.reason = "last_good"
      /\ r.as_of = s.as_of /\ r.value = s.value
      /\ r.closes = s.closes /\ r.dates = s.dates /\ r.changes = s.changes
  BY <1>1 DEF Row, IsLive
<1>3. IsRow(r)
  BY <1>2 DEF IsRow, IsLive
<1>4. HistoryReal(s) => HistoryReal(r)
  BY <1>2 DEF HistoryReal
<1> QED
  BY <1>1, <1>2, <1>3, <1>4

(* The store after a live snapshot was offered to it.                       *)
LEMMA StoreKeepsNewest ==
  ASSUME StoreInv, NEW key \in Keys, NEW s, IsLive(s),
         key = "TOTAL_MCAP" => HistoryReal(s),
         RecordLastGood(key, s)
  PROVE  /\ StoreInv'
         /\ \A k \in DOMAIN newest : k # key => k \in DOMAIN newest' /\ newest'[k] = newest[k]
         /\ DOMAIN newest' \subseteq DOMAIN newest \cup {key}
<1>1. CASE UNCHANGED <<last_good, newest>>
  BY <1>1 DEF StoreInv
<1>2. CASE /\ last_good' = Upsert(key, s)
           /\ newest' = IF key \in DOMAIN newest /\ newest[key] > s.as_of
                        THEN newest ELSE Put(newest, key, s.as_of)
  <2>1. IsRow(Row(s)) /\ Row(s).as_of = s.as_of /\ s.as_of \in Int
        /\ (HistoryReal(s) => HistoryReal(Row(s)))
    BY RowOfLive DEF IsLive
  <2>2. CASE key \in DOMAIN newest /\ newest[key] > s.as_of
    <3>1. key \in DOMAIN last_good /\ last_good[key].as_of > s.as_of /\ last_good[key].as_of \in Int
      BY <2>2 DEF StoreInv, IsRow
    <3>2. ~(s.as_of >= last_good[key].as_of)
      BY <2>1, <3>1
    <3>3. last_good' = last_good /\ newest' = newest
      BY <1>2, <2>2, <3>1, <3>2 DEF Upsert, Replaces
    <3> QED
      BY <1>1, <3>3
  <2>3. CASE ~(key \in DOMAIN newest /\ newest[key] > s.as_of)
    <3>1. newest' = Put(newest, key, s.as_of)
      BY <1>2, <2>3
    <3>2. Replaces(key, s)
      <4>1. ASSUME key \in DOMAIN last_good PROVE s.as_of >= last_good[key].as_of
        <5>1. key \in DOMAIN newest /\ newest[key] = last_good[key].as_of /\ last_good[key].as_of \in Int
          BY <4>1 DEF StoreInv, IsRow
        <5> QED
          BY <2>1, <2>3, <5>1
      <4> QED
        BY <4>1 DEF Replaces
    <3>3. last_good' = Put(last_good, key, Row(s))
      BY <1>2, <3>2 DEF Upsert
    <3>4. DOMAIN last_good' = DOMAIN last_good \cup {key} /\ last_good'[key] = Row(s)
          /\ \A k \in DOMAIN last_good : k # key => last_good'[k] = last_good[k]
      BY <3>3 DEF Put
    <3>5. DOMAIN newest' = DOMAIN newest \cup {key} /\ newest'[key] = s.as_of
          /\ \A k \in DOMAIN newest : k # key => newest'[k] = newest[k]
      BY <3>1 DEF Put
    <3>6. DOMAIN last_good' \subseteq Keys /\ DOMAIN newest' = DOMAIN last_good'
      BY <3>4, <3>5 DEF StoreInv
    <3>7. ASSUME NEW k \in DOMAIN last_good'
          PROVE  IsRow(last_good'[k]) /\ newest'[k] = last_good'[k].as_of
      <4>1. CASE k = key
        BY <2>1, <3>4, <3>5, <4>1
      <4>2. CASE k # key
        <5>1. k \in DOMAIN last_good /\ k \in DOMAIN newest
              /\ last_good'[k] = last_good[k] /\ newest'[k] = newest[k]
          BY <3>4, <3>5, <3>6, <4>2
        <5> QED
          BY <5>1 DEF StoreInv
      <4> QED
        BY <4>1, <4>2
    <3>8. "TOTAL_MCAP" \in DOMAIN last_good' => HistoryReal(last_good'["TOTAL_MCAP"])
      BY <2>1, <3>4 DEF StoreInv
    <3>9. StoreInv'
      BY <3>6, <3>7, <3>8 DEF StoreInv
    <3> QED
      BY <3>5, <3>9
  <2> QED
    BY <2>2, <2>3
<1> QED
  BY <1>1, <1>2 DEF RecordLastGood

(* What publishing a key leaves alone.                                      *)
OnlyKey(key) ==
    /\ \A k : k # key =>
          /\ k \in DOMAIN price' <=> k \in DOMAIN price
          /\ k \in unread' <=> k \in unread
          /\ k \in DOMAIN newest' <=> k \in DOMAIN newest
    /\ \A k \in DOMAIN price : k # key => price'[k] = price[k]

LEMMA PublishedKey ==
  ASSUME StoreInv, PriceInv, NEW key \in Keys, key \notin DOMAIN price \cup unread,
         Publishes(key)
  PROVE  /\ StoreInv'
         /\ PriceInv'
         /\ OnlyKey(key)
         /\ key \in DOMAIN newest' => key \in DOMAIN price' \cup unread'
<1>1. CASE \E s : /\ IsLive(s)
                  /\ key = "TOTAL_MCAP" => HistoryReal(s)
                  /\ PublishLive(key, s)
  <2>1. PICK s : /\ IsLive(s)
                 /\ key = "TOTAL_MCAP" => HistoryReal(s)
                 /\ PublishLive(key, s)
    BY <1>1
  <2>2. RecordLastGood(key, s) /\ price' = Put(price, key, s) /\ unread' = unread
    BY <2>1 DEF PublishLive
  <2>3. StoreInv'
    BY <2>1, <2>2, StoreKeepsNewest
  <2>4. \A k \in DOMAIN newest : k # key => k \in DOMAIN newest' /\ newest'[k] = newest[k]
    BY <2>1, <2>2, StoreKeepsNewest
  <2>5. DOMAIN newest' \subseteq DOMAIN newest \cup {key}
    BY <2>1, <2>2, StoreKeepsNewest
  <2>6. DOMAIN price' = DOMAIN price \cup {key} /\ price'[key] = s
        /\ \A k \in DOMAIN price : k # key => price'[k] = price[k]
    BY <2>2 DEF Put
  <2>7. OnlyKey(key)
    BY <2>2, <2>4, <2>5, <2>6 DEF OnlyKey
  <2>8. PriceInv'
    <3>1. DOMAIN price' \subseteq Keys /\ unread' \subseteq Keys \ DOMAIN price'
      BY <2>2, <2>6 DEF PriceInv
    <3>2. ASSUME NEW k \in DOMAIN price'
          PROVE  \/ IsLive(price'[k])
                 \/ IsRow(price'[k]) /\ k \in DOMAIN newest' /\ price'[k].as_of = newest'[k]
      <4>1. CASE k = key
        BY <2>1, <2>6, <4>1
      <4>2. CASE k # key
        <5>1. k \in DOMAIN price /\ price'[k] = price[k]
          BY <2>6, <4>2
        <5>2. CASE IsLive(price[k])
          BY <5>1, <5>2
        <5>3. CASE IsRow(price[k]) /\ k \in DOMAIN newest /\ price[k].as_of = newest[k]
          BY <2>4, <4>2, <5>1, <5>3
        <5> QED
          BY <5>1, <5>2, <5>3 DEF PriceInv
      <4> QED
        BY <4>1, <4>2
    <3>3. "TOTAL_MCAP" \in DOMAIN price' => HistoryReal(price'["TOTAL_MCAP"])
      BY <2>1, <2>6 DEF PriceInv
    <3> QED
      BY <3>1, <3>2, <3>3 DEF PriceInv
  <2> QED
    BY <2>3, <2>6, <2>7, <2>8
<1>2. CASE PublishLastGood(key)
  <2>1. last_good' = last_good /\ newest' = newest
    BY <1>2 DEF PublishLastGood
  <2>2. StoreInv'
    BY <2>1 DEF StoreInv
  <2>3. CASE key \in DOMAIN last_good /\ price' = Put(price, key, last_good[key]) /\ unread' = unread
    <3>1. DOMAIN price' = DOMAIN price \cup {key} /\ price'[key] = last_good[key]
          /\ \A k \in DOMAIN price : k # key => price'[k] = price[k]
      BY <2>3 DEF Put
    <3>2. OnlyKey(key)
      BY <2>1, <2>3, <3>1 DEF OnlyKey
    <3>3. DOMAIN price' \subseteq Keys /\ unread' \subseteq Keys \ DOMAIN price'
      BY <2>3, <3>1 DEF PriceInv
    <3>4. ASSUME NEW k \in DOMAIN price'
          PROVE  \/ IsLive(price'[k])
                 \/ IsRow(price'[k]) /\ k \in DOMAIN newest' /\ price'[k].as_of = newest'[k]
      <4>1. CASE k = key
        BY <2>1, <2>3, <3>1, <4>1 DEF StoreInv
      <4>2. CASE k # key
        <5>1. k \in DOMAIN price /\ price'[k] = price[k]
          BY <3>1, <4>2
        <5> QED
          BY <2>1, <5>1 DEF PriceInv
      <4> QED
        BY <4>1, <4>2
    <3>5. "TOTAL_MCAP" \in DOMAIN price' => HistoryReal(price'["TOTAL_MCAP"])
      BY <2>3, <3>1 DEF PriceInv, StoreInv
    <3>6. PriceInv'
      BY <3>3, <3>4, <3>5 DEF PriceInv
    <3> QED
      BY <2>2, <3>1, <3>2, <3>6
  <2>4. CASE key \notin DOMAIN last_good /\ price' = price /\ unread' = unread
    <3>1. OnlyKey(key) /\ PriceInv'
      BY <2>1, <2>4 DEF OnlyKey, PriceInv
    <3>2. key \notin DOMAIN newest'
      BY <2>1, <2>4 DEF StoreInv
    <3> QED
      BY <2>2, <3>1, <3>2
  <2>5. CASE unread' = unread \cup {key} /\ price' = price
    <3>1. OnlyKey(key)
      BY <2>1, <2>5 DEF OnlyKey
    <3>2. PriceInv'
      BY <2>1, <2>5 DEF PriceInv
    <3> QED
      BY <2>2, <2>5, <3>1, <3>2
  <2> QED
    BY <1>2, <2>3, <2>4, <2>5 DEF PublishLastGood
<1> QED
  BY <1>1, <1>2 DEF Publishes

-----------------------------------------------------------------------------
(* What is ahead. *)

LEMMA PlanTail ==
  ASSUME NEW q, Plan(q), q # <<>>
  PROVE  /\ Plan(Tail(q))
         /\ \A x : x \in ToSet(Tail(q)) <=> x \in ToSet(q) /\ x # Head(q)
<1>1. PICK n \in Nat \ {0} : n = Len(q)
  BY DEF Plan
<1>2. PICK t : t = Tail(q)
  OBVIOUS
<1>3. t \in Seq(Stages) /\ Len(t) = n - 1 /\ \A i \in 1..(n - 1) : t[i] = q[i + 1]
  BY <1>1, <1>2 DEF Plan
<1>4. PICK m \in Nat : m = n - 1
  BY <1>1
<1>5. \A i \in 1..m : i + 1 \in 1..n /\ i + 1 # 1
  BY <1>4
<1>6. Plan(t)
  <2>1. ASSUME NEW i \in 1..m, NEW j \in 1..m, t[i] = t[j] PROVE i = j
    <3>1. q[i + 1] = q[j + 1]
      BY <1>3, <1>4, <2>1
    <3>2. i + 1 = j + 1
      BY <1>1, <1>5, <3>1 DEF Plan
    <3> QED
      BY <3>2
  <2>2. ASSUME NEW i \in 1..m, t[i] = "finish" PROVE i = m
    <3>1. i + 1 = n
      BY <1>1, <1>3, <1>4, <1>5, <2>2 DEF Plan
    <3> QED
      BY <1>4, <3>1
  <2>3. ASSUME NEW i \in 1..m PROVE t[i] \notin CryptoSteps
    BY <1>1, <1>3, <1>4, <1>5 DEF Plan
  <2> QED
    BY <1>3, <1>4, <2>1, <2>2, <2>3 DEF Plan
<1>7. q[1] = Head(q) /\ 1 \in 1..n /\ DOMAIN q = 1..n /\ DOMAIN t = 1..m
  BY <1>1, <1>3, <1>4 DEF Plan
<1>8. ASSUME NEW x PROVE x \in ToSet(t) <=> x \in ToSet(q) /\ x # Head(q)
  <2>1. ASSUME x \in ToSet(t) PROVE x \in ToSet(q) /\ x # Head(q)
    <3>1. PICK i \in 1..m : t[i] = x
      BY <1>7, <2>1 DEF ToSet
    <3>2. q[i + 1] = x /\ i + 1 \in 1..n /\ i + 1 # 1
      BY <1>3, <1>4, <1>5, <3>1
    <3>3. x # q[1]
      BY <1>1, <1>7, <3>2 DEF Plan
    <3> QED
      BY <1>7, <3>2, <3>3 DEF ToSet
  <2>2. ASSUME x \in ToSet(q), x # Head(q) PROVE x \in ToSet(t)
    <3>1. PICK j \in 1..n : q[j] = x
      BY <1>7, <2>2 DEF ToSet
    <3>2. j # 1
      BY <1>7, <2>2, <3>1
    <3>3. PICK i \in 1..m : i = j - 1
      BY <1>4, <3>2
    <3>4. t[i] = x
      BY <1>3, <1>4, <3>1, <3>3
    <3> QED
      BY <1>7, <3>4 DEF ToSet
  <2> QED
    BY <2>1, <2>2
<1> QED
  BY <1>2, <1>6, <1>8

LEMMA PlanPush ==
  ASSUME NEW q, Plan(q), q # <<>>, Head(q) \in CryptoSymbols, NEW step \in CryptoSteps
  PROVE  /\ Plan(<<step>> \o q)
         /\ \A x : x \in ToSet(<<step>> \o q) <=> x \in ToSet(q) \/ x = step
         /\ <<step>> \o q # <<>>
<1>1. PICK n \in Nat \ {0} : n = Len(q)
  BY DEF Plan
<1>2. PICK t : t = <<step>> \o q
  OBVIOUS
<1>3. PICK m \in Nat : m = n + 1
  BY <1>1
<1>4. step \in Stages /\ step # "finish"
  BY DEF CryptoSteps, Stages
<1>5. t \in Seq(Stages) /\ Len(t) = m /\ t[1] = step /\ \A i \in 2..m : t[i] = q[i - 1]
  BY <1>1, <1>2, <1>3, <1>4 DEF Plan
<1>6. \A i \in 2..m : i - 1 \in 1..n
  BY <1>1, <1>3
<1>7. \A i \in 1..n : q[i] \notin CryptoSteps
  <2>1. q[1] \notin CryptoSteps
    BY DEF CryptoSymbols, CryptoSteps, Plan
  <2> QED
    BY <1>1, <2>1 DEF Plan
<1>8. \A i \in 1..m : i = 1 \/ i \in 2..m
  BY <1>3
<1>9. Plan(t)
  <2>1. ASSUME NEW i \in 1..m, NEW j \in 1..m, t[i] = t[j] PROVE i = j
    <3>1. CASE i = 1 \/ j = 1
      BY <1>5, <1>6, <1>7, <1>8, <2>1, <3>1
    <3>2. CASE i \in 2..m /\ j \in 2..m
      <4>1. i - 1 = j - 1
        BY <1>1, <1>5, <1>6, <2>1, <3>2 DEF Plan
      <4> QED
        BY <4>1
    <3> QED
      BY <1>8, <3>1, <3>2
  <2>2. ASSUME NEW i \in 1..m, t[i] = "finish" PROVE i = m
    <3>1. i \in 2..m
      BY <1>4, <1>5, <1>8, <2>2
    <3>2. i - 1 = n
      BY <1>1, <1>5, <1>6, <2>2, <3>1 DEF Plan
    <3> QED
      BY <1>3, <3>2
  <2>3. ASSUME NEW i \in 1..m, t[i] \in CryptoSteps PROVE i = 1
    BY <1>5, <1>6, <1>7, <1>8, <2>3
  <2>4. m >= 2 /\ t[2] \in CryptoSymbols
    <3>1. t[2] = q[1]
      BY <1>1, <1>3, <1>5
    <3>2. q[1] = Head(q)
      BY <1>1 DEF Plan
    <3> QED
      BY <1>1, <1>3, <3>1, <3>2
  <2> QED
    BY <1>5, <2>1, <2>2, <2>3, <2>4 DEF Plan
<1>10. DOMAIN q = 1..n /\ DOMAIN t = 1..m
  BY <1>1, <1>5 DEF Plan
<1>11. ASSUME NEW x PROVE x \in ToSet(t) <=> x \in ToSet(q) \/ x = step
  <2>1. ASSUME x \in ToSet(t) PROVE x \in ToSet(q) \/ x = step
    <3>1. PICK i \in 1..m : t[i] = x
      BY <1>10, <2>1 DEF ToSet
    <3> QED
      BY <1>5, <1>6, <1>8, <1>10, <3>1 DEF ToSet
  <2>2. ASSUME x \in ToSet(q) PROVE x \in ToSet(t)
    <3>1. PICK i \in 1..n : q[i] = x
      BY <1>10, <2>2 DEF ToSet
    <3>2. PICK j \in 2..m : j = i + 1
      BY <1>3
    <3>3. t[j] = x /\ j \in 1..m
      BY <1>5, <3>1, <3>2
    <3> QED
      BY <1>10, <3>3 DEF ToSet
  <2>3. step \in ToSet(t)
    BY <1>3, <1>5, <1>10 DEF ToSet
  <2> QED
    BY <2>1, <2>2, <2>3
<1>12. t # <<>>
  BY <1>1, <1>3, <1>5
<1> QED
  BY <1>2, <1>9, <1>11, <1>12

(* The path of an ingestion, with its end.                                  *)
LEMMA PlanBegins ==
  ASSUME NEW p \in Paths
  PROVE  /\ Plan(Append(p, "finish"))
         /\ ToSet(p) \subseteq ToSet(Append(p, "finish"))
         /\ Append(p, "finish") # <<>>
<1>1. p \in Seq(ToSet(AllStages)) /\ \A s \in ToSet(AllStages) : s \in Stages /\ s # "finish" /\ s \notin CryptoSteps
  <2>1. p \in Seq(ToSet(AllStages))
    BY IngestionAssumption
  <2> QED
    BY <2>1, KeysAre DEF CryptoSteps, Stages
<1>2. PICK n \in Nat : n = Len(p)
  BY <1>1
<1>3. DOMAIN p = 1..n /\ \A i \in 1..n : p[i] \in ToSet(AllStages)
  BY <1>1, <1>2
<1>4. ASSUME NEW i \in 1..n, NEW j \in 1..n, p[i] = p[j] PROVE i = j
  <2>1. PICK k \in DOMAIN AllStages, l \in DOMAIN AllStages :
           p[i] = AllStages[k] /\ p[j] = AllStages[l] /\ (i < j <=> k < l)
    BY <1>3, IngestionAssumption
  <2>2. PICK m \in DOMAIN AllStages, o \in DOMAIN AllStages :
           p[j] = AllStages[m] /\ p[i] = AllStages[o] /\ (j < i <=> m < o)
    BY <1>3, IngestionAssumption
  <2>3. DOMAIN AllStages = 1..8
    BY DEF AllStages
  <2>4. \A a, b \in 1..8 : AllStages[a] = AllStages[b] => a = b
    BY DEF AllStages
  <2>5. k = l /\ m = o
    BY <1>4, <2>1, <2>2, <2>3, <2>4
  <2>6. ~(i < j) /\ ~(j < i)
    BY <2>1, <2>2, <2>3, <2>5
  <2> QED
    BY <2>6
<1>5. PICK t : t = Append(p, "finish")
  OBVIOUS
<1>6. PICK m \in Nat \ {0} : m = n + 1
  BY <1>2
<1>7. t \in Seq(Stages) /\ Len(t) = m /\ t[m] = "finish" /\ \A i \in 1..n : t[i] = p[i]
  <2>1. p \in Seq(Stages) /\ "finish" \in Stages
    BY <1>1, <1>2, <1>3 DEF Stages
  <2> QED
    BY <1>2, <1>5, <1>6, <2>1
<1>8. \A i \in 1..m : i = m \/ i \in 1..n
  BY <1>6
<1>9. \A i \in 1..n : t[i] # "finish" /\ t[i] \notin CryptoSteps
  BY <1>1, <1>3, <1>7
<1>10. "finish" \notin CryptoSteps
  BY DEF CryptoSteps
<1>11. \A i \in 1..m : t[i] \notin CryptoSteps
  BY <1>7, <1>8, <1>9, <1>10
<1>12. \A i \in 1..m : t[i] = "finish" => i = m
  BY <1>8, <1>9
<1>13. ASSUME NEW i \in 1..m, NEW j \in 1..m, t[i] = t[j] PROVE i = j
  <2>1. CASE i = m \/ j = m
    BY <1>7, <1>12, <1>13, <2>1
  <2>2. CASE i \in 1..n /\ j \in 1..n
    BY <1>4, <1>7, <1>13, <2>2
  <2> QED
    BY <1>8, <2>1, <2>2
<1>14. Plan(t)
  BY <1>7, <1>11, <1>12, <1>13 DEF Plan
<1>15. DOMAIN t = 1..m
  BY <1>7
<1>16. ToSet(p) \subseteq ToSet(t)
  BY <1>3, <1>6, <1>7, <1>15 DEF ToSet
<1> QED
  BY <1>5, <1>6, <1>7, <1>14, <1>16

-----------------------------------------------------------------------------
(* The price of the sources. *)

LEMMA ThreeSources ==
  /\ IsFiniteSet(CryptoSources)
  /\ Cardinality(CryptoSources) = 3
<1>1. IsFiniteSet({}) /\ Cardinality({}) = 0
  BY FS_EmptySet
<1>2. IsFiniteSet({"coingecko"}) /\ Cardinality({"coingecko"}) = 1
  BY FS_Singleton
<1>3. IsFiniteSet({"coingecko"} \cup {"kifpool"}) /\ Cardinality({"coingecko"} \cup {"kifpool"}) = 2
  BY <1>2, FS_AddElement
<1>4. {"coingecko"} \cup {"kifpool"} = {"coingecko", "kifpool"}
  OBVIOUS
<1>5. /\ IsFiniteSet({"coingecko", "kifpool"} \cup {"gate"})
      /\ Cardinality({"coingecko", "kifpool"} \cup {"gate"}) = 3
  BY <1>3, <1>4, FS_AddElement
<1>6. {"coingecko", "kifpool"} \cup {"gate"} = CryptoSources
  BY DEF CryptoSources
<1> QED
  BY <1>5, <1>6

(* Only a live price has to be sound, but for the silence of three sources. *)
LEMMA SoundSame ==
  ASSUME NEW answers, NEW at, NEW live \in BOOLEAN, NEW live2 \in BOOLEAN, NEW p, NEW q,
         live <=> live2, live => p = q, Sound(answers, at, live, p)
  PROVE  Sound(answers, at, live2, q)
<1>1. CASE live
  BY <1>1
<1>2. CASE ~live
  BY <1>2 DEF Sound
<1> QED
  BY <1>1, <1>2

(* Two even numbers are as far from their middle as each other.             *)
LEMMA PairNear ==
  ASSUME NEW v \in Nat, NEW w \in Nat, v % 2 = 0, w % 2 = 0, NEW pct \in Nat,
         ~(Distance(v, w) * 200 > pct * (v + w))
  PROVE  100 * Distance(v, (v + w) \div 2) <= pct * ((v + w) \div 2)
<1>1. PICK m \in Nat : m = (v + w) \div 2
  OBVIOUS
<1>2. v + w = 2 * m
  BY <1>1
<1>3. PICK d \in Nat : d = Distance(v, m)
  <2>1. Distance(v, m) \in Nat
    <3>1. v \in Int /\ m \in Int
      BY <1>1
    <3> QED
      BY <3>1, DistanceIsNat
  <2> QED
    BY <2>1
<1>4. Distance(v, w) = 2 * d
  BY <1>2, <1>3 DEF Distance
<1>5. PICK k \in Nat : k = pct * m
  OBVIOUS
<1>6. pct * (v + w) = 2 * k
  BY <1>2, <1>5
<1>7. ~((2 * d) * 200 > 2 * k)
  BY <1>4, <1>6
<1>8. 100 * d <= k
  BY <1>7
<1> QED
  BY <1>1, <1>3, <1>5, <1>8

(* Every answer is fresh: the observations used are the young ones.         *)
LEMMA ValidAreYoung ==
  ASSUME NEW heard0, DOMAIN heard0 = CryptoSources, NEW at \in Int,
         \A s \in CryptoSources : heard0[s] # None => IsQuote(heard0[s])
  PROVE  ValidObservations(heard0, at) = Young(heard0, at)
<1>1. MaxAge \in Nat
  BY SourceSeriesAssumption
<1>2. ASSUME NEW s \in CryptoSources, heard0[s] # None
      PROVE  /\ ~Stale(heard0[s])
             /\ at - heard0[s].as_of \in 0..MaxAge <=> heard0[s].as_of \in (at - MaxAge)..at
  <2>1. heard0[s].as_of \in Int /\ heard0[s].reason = "fresh"
    BY <1>2 DEF IsQuote, IsLive
  <2>2. PICK t \in Int : t = heard0[s].as_of
    BY <2>1
  <2>3. at - t \in 0..MaxAge <=> t \in (at - MaxAge)..at
    BY <1>1
  <2> QED
    BY <2>1, <2>2, <2>3 DEF Stale
<1> QED
  BY <1>2 DEF ValidObservations, Young

LEMMA AggregateIsSound ==
  ASSUME NEW heard0, DOMAIN heard0 = CryptoSources, NEW at \in Int,
         \A s \in CryptoSources : heard0[s] # None => IsQuote(heard0[s])
  PROVE  /\ ~Agreed(heard0, at) => \A p : Sound(heard0, at, FALSE, p)
         /\ Agreed(heard0, at) =>
               /\ IsLive(Aggregate(heard0, at))
               /\ Aggregate(heard0, at).reason = "fresh"
               /\ Sound(heard0, at, TRUE, Aggregate(heard0, at))
<1> DEFINE young == Young(heard0, at)
<1>1. ValidObservations(heard0, at) = young
  BY ValidAreYoung
<1>2. young \in SUBSET CryptoSources
  BY DEF Young
<1>3. IsFiniteSet(young) /\ Cardinality(young) <= 3 /\ Cardinality(young) \in Nat
      /\ (Cardinality(young) = 3 => young = CryptoSources)
  <2> HIDE DEF young
  <2>1. IsFiniteSet(young) /\ Cardinality(young) <= Cardinality(CryptoSources)
        /\ (Cardinality(young) = Cardinality(CryptoSources) => young = CryptoSources)
    BY <1>2, ThreeSources, FS_Subset
  <2> QED
    BY <2>1, ThreeSources, FS_CardinalityType
<1>4. \A s \in young : heard0[s] # None /\ IsQuote(heard0[s])
  BY DEF Young
<1>5. ASSUME ~Agreed(heard0, at), NEW p PROVE Sound(heard0, at, FALSE, p)
  <2>1. ~(Cardinality(young) = 3 /\ MinSources <= 3)
    <3> HIDE DEF young
    <3>1. MinSources \in Nat
      BY SourceSeriesAssumption
    <3>2. Cardinality(young) < MinSources \/ Cardinality(young) = 2
      BY <1>1, <1>3, <1>5, <3>1 DEF Agreed
    <3> QED
      BY <1>3, <3>1, <3>2
  <2> QED
    BY <2>1 DEF Sound
<1>6. ASSUME Agreed(heard0, at)
      PROVE  /\ IsLive(Aggregate(heard0, at))
             /\ Aggregate(heard0, at).reason = "fresh"
             /\ Sound(heard0, at, TRUE, Aggregate(heard0, at))
  <2>1. PICK m : m = Aggregate(heard0, at)
    OBVIOUS
  <2>2. IsFiniteSet(DOMAIN heard0) /\ \A s \in DOMAIN heard0 : heard0[s] # None => IsLive(heard0[s])
    BY ThreeSources DEF IsQuote
  <2>3. /\ IsLive(m) /\ m.reason = "fresh"
        /\ m.value = Median(heard0, young)
        /\ \E s \in young : m.as_of = heard0[s].as_of
        /\ \A s \in young : m.as_of >= heard0[s].as_of
        /\ \A s \in young : Deviates(heard0[s].value, m.value, MaxDeviation) => s \in m.flags
        /\ young # CryptoSources => "reduced_source_count" \in m.flags
    <3> HIDE DEF young
    <3> QED
      BY <1>1, <1>6, <2>1, <2>2, AggregateIsLive
  <2>4. PICK n \in Nat : n = Cardinality(young)
    BY <1>3
  <2>5. n >= MinSources /\ n >= 1 /\ n <= 3 /\ (n = 2 => ~PairDisagrees(heard0, young))
    <3> HIDE DEF young
    <3>1. MinSources \in Nat \ {0}
      BY SourceSeriesAssumption
    <3> QED
      BY <1>1, <1>3, <1>6, <2>4, <3>1 DEF Agreed
  <2>6. \A s \in young : heard0[s].value \in Nat \ {0} /\ heard0[s].value % 2 = 0
    BY <1>4 DEF IsQuote, IsLive
  <2>7. young # {}
    <3> HIDE DEF young
    <3> QED
      BY <2>4, <2>5, FS_EmptySet
  <2>8. /\ 2 * Cardinality({s \in young : heard0[s].value <= m.value}) >= n
        /\ 2 * Cardinality({s \in young : heard0[s].value >= m.value}) >= n
        /\ n = 2 => \A s, t \in young :
                       s # t => m.value = (heard0[s].value + heard0[t].value) \div 2
    <3> HIDE DEF young
    <3>1. \A s \in young : heard0[s].value \in Int
      BY <2>6
    <3>2. 2 * Cardinality({s \in young : heard0[s].value <= Median(heard0, young)})
            >= Cardinality(young)
      BY <1>3, <2>7, <3>1, MedianBetween
    <3>3. 2 * Cardinality({s \in young : heard0[s].value >= Median(heard0, young)})
            >= Cardinality(young)
      BY <1>3, <2>7, <3>1, MedianBetween
    <3>4. Cardinality(young) = 2 =>
             \A s, t \in young :
                s # t => Median(heard0, young) = (heard0[s].value + heard0[t].value) \div 2
      BY <1>3, <2>7, <3>1, MedianBetween
    <3> QED
      BY <2>3, <2>4, <3>2, <3>3, <3>4
  <2>9. MaxDeviation \in Nat /\ m.value \in Nat
    BY <2>3, SourceSeriesAssumption DEF IsLive
  <2>10. ASSUME NEW s \in young
         PROVE  \/ 100 * Distance(heard0[s].value, m.value) <= MaxDeviation * m.value
                \/ s \in m.flags
    <3>1. PICK d \in Nat : d = Distance(heard0[s].value, m.value)
      <4>1. heard0[s].value \in Nat
        BY <2>6
      <4> HIDE DEF young
      <4> QED
        BY <2>9, <4>1 DEF Distance
    <3>2. PICK k \in Nat : k = MaxDeviation * m.value
      BY <2>9
    <3>3. d * 100 > k => s \in m.flags
      BY <2>3, <3>1, <3>2 DEF Deviates
    <3>4. d * 100 = 100 * d
      OBVIOUS
    <3> QED
      BY <3>1, <3>2, <3>3, <3>4
  <2>11. ASSUME n = 2, NEW s \in young
         PROVE  100 * Distance(heard0[s].value, m.value) <= MaxDeviation * m.value
    <3>1. PICK t \in young : t # s
      <4>1. SUFFICES ASSUME young = {s} PROVE FALSE
        BY <2>11
      <4>2. Cardinality({s}) = 1
        BY FS_Singleton
      <4> HIDE DEF young
      <4> QED
        <5>1. n = 1
          BY <2>4, <4>1, <4>2
        <5> QED
          BY <2>11, <5>1
    <3>2. m.value = (heard0[s].value + heard0[t].value) \div 2
      <4> HIDE DEF young
      <4> QED
        BY <2>8, <2>11, <3>1
    <3>3. ~(Distance(heard0[s].value, heard0[t].value) * 200
              > MaxDeviation * (heard0[s].value + heard0[t].value))
      <4> HIDE DEF young
      <4> QED
        BY <2>5, <2>11, <3>1 DEF PairDisagrees
    <3>4. PICK v \in Nat, w \in Nat : v = heard0[s].value /\ w = heard0[t].value
      BY <2>6, <3>1
    <3>5. v % 2 = 0 /\ w % 2 = 0
      BY <2>6, <3>1, <3>4
    <3> QED
      BY <2>9, <3>2, <3>3, <3>4, <3>5, PairNear
  <2>12. n < 3 => "reduced_source_count" \in m.flags
    <3>1. n < 3 => young # CryptoSources
      <4>1. young = CryptoSources => n = 3
        <5> HIDE DEF young
        <5>1. ASSUME young = CryptoSources PROVE n = Cardinality(CryptoSources)
          BY <2>4, <5>1
        <5> QED
          BY <5>1, ThreeSources
      <4> QED
        BY <4>1
    <3> QED
      BY <2>3, <3>1
  <2>13. Sound(heard0, at, TRUE, m)
    <3> HIDE DEF young
    <3>1. /\ n >= MinSources
          /\ 2 * Cardinality({s \in young : heard0[s].value <= m.value}) >= n
          /\ 2 * Cardinality({s \in young : heard0[s].value >= m.value}) >= n
          /\ \A s \in young :
                \/ 100 * Distance(heard0[s].value, m.value) <= MaxDeviation * m.value
                \/ s \in m.flags
          /\ n = 2 =>
                \A s \in young :
                   100 * Distance(heard0[s].value, m.value) <= MaxDeviation * m.value
          /\ n < 3 => "reduced_source_count" \in m.flags
          /\ \E s \in young : m.as_of = heard0[s].as_of
          /\ \A s \in young : m.as_of >= heard0[s].as_of
      BY <2>3, <2>5, <2>8, <2>10, <2>11, <2>12
    <3> QED
      BY <2>4, <3>1 DEF Sound, young
  <2> QED
    BY <2>1, <2>3, <2>13
<1> QED
  BY <1>5, <1>6

(* What merging the answers about a symbol publishes.                       *)
LEMMA MergePublishes ==
  ASSUME ClockInv, AnswersInv, StoreInv, NEW symbol \in CryptoSymbols, symbol \notin DOMAIN price,
         IF Agreed(heard[symbol], ctx_now)
         THEN PublishLive(symbol, Aggregate(heard[symbol], ctx_now))
         ELSE PublishLastGood(symbol)
  PROVE  /\ Publishes(symbol)
         /\ Sound(heard[symbol], ctx_now, symbol \in DOMAIN price' /\ price'[symbol].reason # "last_good",
                  price'[symbol])
<1>1. DOMAIN heard[symbol] = CryptoSources
  BY DEF AnswersInv
<1>2. \A s \in CryptoSources : heard[symbol][s] # None => IsQuote(heard[symbol][s])
  BY DEF AnswersInv
<1>3. ctx_now \in Int /\ symbol # "TOTAL_MCAP"
  BY ClockIsNat DEF CryptoSymbols
<1> DEFINE answers == heard[symbol]
<1>4. ~Agreed(answers, ctx_now) => \A p : Sound(answers, ctx_now, FALSE, p)
  BY <1>1, <1>2, <1>3, AggregateIsSound
<1>5. Agreed(answers, ctx_now) =>
         /\ IsLive(Aggregate(answers, ctx_now))
         /\ Aggregate(answers, ctx_now).reason = "fresh"
         /\ Sound(answers, ctx_now, TRUE, Aggregate(answers, ctx_now))
  BY <1>1, <1>2, <1>3, AggregateIsSound
<1>6. CASE Agreed(answers, ctx_now)
  <2>1. PICK m : m = Aggregate(answers, ctx_now)
    OBVIOUS
  <2>2. PublishLive(symbol, m) /\ IsLive(m) /\ m.reason = "fresh" /\ Sound(answers, ctx_now, TRUE, m)
    BY <1>5, <1>6, <2>1
  <2>3. Publishes(symbol)
    BY <1>3, <2>2 DEF Publishes
  <2>4. symbol \in DOMAIN price' /\ price'[symbol] = m
    BY <2>2 DEF PublishLive, Put
  <2>5. (symbol \in DOMAIN price' /\ price'[symbol].reason # "last_good") <=> TRUE
    BY <2>2, <2>4
  <2> HIDE DEF answers
  <2>6. Sound(answers, ctx_now, symbol \in DOMAIN price' /\ price'[symbol].reason # "last_good", m)
    BY <2>2, <2>5, SoundSame
  <2> QED
    BY <2>3, <2>4, <2>6 DEF answers
<1>7. CASE ~Agreed(answers, ctx_now)
  <2>1. PublishLastGood(symbol) /\ \A p : Sound(answers, ctx_now, FALSE, p)
    BY <1>4, <1>7
  <2>2. Publishes(symbol)
    BY <2>1 DEF Publishes
  <2>3. ~(symbol \in DOMAIN price' /\ price'[symbol].reason # "last_good")
    <3>1. SUFFICES ASSUME symbol \in DOMAIN price' PROVE price'[symbol].reason = "last_good"
      OBVIOUS
    <3>2. symbol \in DOMAIN last_good /\ price' = Put(price, symbol, last_good[symbol])
      BY <2>1, <3>1 DEF PublishLastGood
    <3>3. price'[symbol] = last_good[symbol]
      BY <3>2 DEF Put
    <3> QED
      BY <3>2, <3>3 DEF StoreInv, IsRow
  <2> HIDE DEF answers
  <2>4. Sound(answers, ctx_now, symbol \in DOMAIN price' /\ price'[symbol].reason # "last_good",
              price'[symbol])
    <3>1. Sound(answers, ctx_now, FALSE, price'[symbol])
      BY <2>1
    <3> QED
      BY <2>3, <3>1, SoundSame
  <2> QED
    BY <2>2, <2>4 DEF answers
<1> QED
  BY <1>6, <1>7

-----------------------------------------------------------------------------
(* The steps. *)

(* A stage that publishes its key and is done with it.                      *)
LEMMA StageDone ==
  ASSUME IngestInv, NEW key \in Keys \cap ToSet(todo), todo # <<>>,
         Publishes(key), TodoInv',
         \A k \in Keys : k \in ToSet(todo') => k \in ToSet(todo) /\ k # key,
         \A k \in Keys : k \in ToSet(todo) /\ k # key => k \in ToSet(todo'),
         UNCHANGED <<samples, now, ctx_now, path, heard, cmc, ingests>>,
         key \in CryptoSymbols =>
            Sound(heard[key], ctx_now, key \in DOMAIN price' /\ price'[key].reason # "last_good",
                  price'[key])
  PROVE  IngestInv'
<1>1. ClockInv' /\ SamplesInv' /\ AnswersInv'
  BY DEF IngestInv, ClockInv, SamplesInv, AnswersInv
<1>2. key \in Keys /\ key \notin DOMAIN price \cup unread
  BY DEF IngestInv, DoneInv
<1>3. StoreInv' /\ PriceInv'
  BY <1>2, PublishedKey DEF IngestInv
<1>4. OnlyKey(key) /\ (key \in DOMAIN newest' => key \in DOMAIN price' \cup unread')
  BY <1>2, PublishedKey DEF IngestInv
<1>5. DoneInv'
  <2>1. path' \in Paths
    BY DEF IngestInv, DoneInv
  <2>2. ASSUME NEW k \in Keys, k \in ToSet(todo') PROVE k \notin DOMAIN price' \cup unread'
    BY <1>4, <2>2 DEF OnlyKey, IngestInv, DoneInv
  <2>3. ASSUME NEW k \in ToSet(path') \cap Keys, k \notin ToSet(todo'), k \in DOMAIN newest'
        PROVE  k \in DOMAIN price' \cup unread'
    <3>1. CASE k = key
      BY <1>4, <2>3, <3>1
    <3>2. CASE k # key
      <4>1. k \notin ToSet(todo) /\ k \in DOMAIN newest
        BY <1>4, <2>3, <3>2 DEF OnlyKey
      <4>2. k \in DOMAIN price \cup unread
        BY <2>3, <4>1 DEF IngestInv, DoneInv
      <4> QED
        BY <1>4, <3>2, <4>2 DEF OnlyKey
    <3> QED
      BY <3>1, <3>2
  <2> QED
    BY <2>1, <2>2, <2>3 DEF DoneInv
<1>6. SoundInv'
  <2>1. ASSUME NEW k \in ToSet(path') \cap CryptoSymbols, k \notin ToSet(todo')
        PROVE  Sound(heard'[k], ctx_now', k \in DOMAIN price' /\ price'[k].reason # "last_good",
                     price'[k])
    <3>1. CASE k = key
      BY <2>1, <3>1
    <3>2. CASE k # key
      <4>1. k \in Keys
        BY <2>1, KeysAre DEF CryptoSymbols
      <4>2. Sound(heard[k], ctx_now, k \in DOMAIN price /\ price[k].reason # "last_good", price[k])
        BY <2>1, <3>2, <4>1 DEF IngestInv, SoundInv, IsLivePrice
      <4>3. (k \in DOMAIN price' <=> k \in DOMAIN price)
            /\ (k \in DOMAIN price => price'[k] = price[k])
        BY <1>4, <3>2 DEF OnlyKey
      <4>4. Sound(heard[k], ctx_now, k \in DOMAIN price' /\ price'[k].reason # "last_good", price'[k])
        BY <4>2, <4>3, SoundSame
      <4> QED
        BY <4>4
    <3> QED
      BY <3>1, <3>2
  <2> QED
    BY <2>1 DEF SoundInv, IsLivePrice
<1> QED
  BY <1>1, <1>3, <1>5, <1>6 DEF IngestInv

(* A source was asked about a symbol whose stage is not over.               *)
LEMMA SourceAsked ==
  ASSUME IngestInv, NEW symbol \in CryptoSymbols \cap ToSet(todo), todo # <<>>,
         NEW source \in CryptoSources, NEW answers,
         \A answer \in answers : answer # None => IsQuote(answer),
         Ask(symbol, source, answers), TodoInv',
         \A k \in Keys : k \in ToSet(todo') <=> k \in ToSet(todo)
  PROVE  IngestInv'
<1>1. PICK answer \in answers : heard' = [heard EXCEPT ![symbol][source] = answer]
  BY DEF Ask
<1>2. UNCHANGED <<tables, now, ctx_now, path, cmc, indicator, price, unread, ingests, newest>>
  BY DEF Ask
<1>3. ClockInv' /\ SamplesInv' /\ StoreInv' /\ PriceInv'
  BY <1>2 DEF IngestInv, ClockInv, SamplesInv, StoreInv, PriceInv, tables
<1>4. heard = [k \in CryptoSymbols |-> [s \in CryptoSources |-> heard[k][s]]]
  BY DEF IngestInv, AnswersInv
<1>5. \A k \in CryptoSymbols, s \in CryptoSources :
         heard'[k][s] = IF k = symbol /\ s = source THEN answer ELSE heard[k][s]
  BY <1>1, <1>4
<1>6. heard' = [k \in CryptoSymbols |-> [s \in CryptoSources |-> heard'[k][s]]]
  BY <1>1, <1>4
<1>7. AnswersInv'
  <2>1. ASSUME NEW k \in CryptoSymbols, NEW s \in CryptoSources, heard'[k][s] # None
        PROVE  IsQuote(heard'[k][s])
    <3>1. CASE k = symbol /\ s = source
      BY <1>5, <2>1, <3>1
    <3>2. CASE ~(k = symbol /\ s = source)
      <4>1. heard'[k][s] = heard[k][s]
        BY <1>5, <3>2
      <4> QED
        BY <2>1, <4>1 DEF IngestInv, AnswersInv
    <3> QED
      BY <3>1, <3>2
  <2>2. cmc' # None => IsLive(cmc') /\ HistoryReal(cmc')
    BY <1>2 DEF IngestInv, AnswersInv
  <2> QED
    BY <1>6, <2>1, <2>2 DEF AnswersInv
<1>8. DoneInv'
  BY <1>2 DEF IngestInv, DoneInv
<1>9. SoundInv'
  <2>1. ASSUME NEW k \in ToSet(path') \cap CryptoSymbols, k \notin ToSet(todo')
        PROVE  Sound(heard'[k], ctx_now', IsLivePrice(k)', price'[k])
    <3>1. k \in Keys
      BY <2>1, KeysAre DEF CryptoSymbols
    <3>2. k \notin ToSet(todo) /\ k # symbol
      BY <2>1, <3>1
    <3>3. heard'[k] = heard[k]
      BY <1>1, <1>4, <3>2
    <3>4. Sound(heard[k], ctx_now, IsLivePrice(k), price[k])
      BY <1>2, <2>1, <3>2 DEF IngestInv, SoundInv
    <3> QED
      BY <1>2, <3>3, <3>4 DEF IsLivePrice
  <2> QED
    BY <2>1 DEF SoundInv
<1> QED
  BY <1>3, <1>7, <1>8, <1>9 DEF IngestInv

(* The head of what is ahead, and what follows it.                          *)
LEMMA AtHead ==
  ASSUME TodoInv, NEW stage, At(stage)
  PROVE  /\ todo # <<>> /\ Head(todo) = stage /\ todo[1] = stage
         /\ stage \in ToSet(todo)
<1>1. PICK n \in Nat \ {0} : n = Len(todo)
  BY DEF At, TodoInv, Plan
<1>2. DOMAIN todo = 1..n /\ Head(todo) = todo[1]
  BY <1>1 DEF TodoInv, Plan
<1> QED
  BY <1>1, <1>2 DEF At, ToSet

(* A source is at the head, with its symbol after it.                       *)
LEMMA AtSource ==
  ASSUME TodoInv, NEW step \in CryptoSteps, At(step)
  PROVE  /\ todo[2] \in CryptoSymbols \cap ToSet(todo)
         /\ Plan(Tail(todo)) /\ Tail(todo) # <<>> /\ Head(Tail(todo)) = todo[2]
         /\ \A x : x \in ToSet(Tail(todo)) <=> x \in ToSet(todo) /\ x # step
<1>1. PICK n \in Nat : n = Len(todo)
  BY DEF TodoInv, Plan
<1>2. todo # <<>> /\ Head(todo) = step /\ todo[1] = step
  BY AtHead
<1>3. 1 \in 1..n
  BY <1>1, <1>2 DEF TodoInv, Plan
<1>4. n >= 2 /\ todo[2] \in CryptoSymbols
  BY <1>1, <1>2, <1>3 DEF TodoInv, Plan
<1>5. todo[2] \in ToSet(todo)
  BY <1>1, <1>4 DEF TodoInv, Plan, ToSet
<1>6. Tail(todo) # <<>> /\ Head(Tail(todo)) = todo[2]
  <2>1. PICK t : t = Tail(todo)
    OBVIOUS
  <2>2. todo \in Seq(Stages)
    BY DEF TodoInv, Plan
  <2>3. t \in Seq(Stages) /\ Len(t) = n - 1 /\ t[1] = todo[2]
    BY <1>1, <1>4, <2>1, <2>2
  <2>4. t # <<>> /\ Head(t) = t[1]
    BY <1>1, <1>4, <2>3
  <2> QED
    BY <2>1, <2>3, <2>4
<1> QED
  BY <1>2, <1>4, <1>5, <1>6, PlanTail DEF TodoInv

LEMMA CryptoStepsAreNoKeys ==
  ASSUME NEW k \in Keys
  PROVE  k \notin CryptoSteps /\ k # "finish" /\ k # "CMC"
BY KeysAre DEF CryptoSteps

(* The first of the sources: it goes before the symbol.                     *)
LEMMA AskCoinGeckoKeeps ==
  ASSUME IngestInv, AskCoinGecko
  PROVE  IngestInv'
<1>1. PICK symbol : symbol = Head(todo)
  OBVIOUS
<1>2. todo # <<>> /\ symbol \in CryptoSymbols /\ At(symbol)
  BY <1>1 DEF AskCoinGecko, At
<1>3. symbol \in ToSet(todo)
  BY <1>2, AtHead DEF IngestInv
<1>4. Ask(symbol, "coingecko", CoinGeckoAnswers) /\ todo' = <<"kifpool">> \o todo
  BY <1>1 DEF AskCoinGecko
<1>5. "kifpool" \in CryptoSteps /\ "coingecko" \in CryptoSources
  BY DEF CryptoSteps, CryptoSources
<1>6. /\ Plan(<<"kifpool">> \o todo)
      /\ \A x : x \in ToSet(<<"kifpool">> \o todo) <=> x \in ToSet(todo) \/ x = "kifpool"
  BY <1>1, <1>2, <1>5, PlanPush DEF IngestInv, TodoInv
<1>7. TodoInv' /\ \A k \in Keys : k \in ToSet(todo') <=> k \in ToSet(todo)
  BY <1>4, <1>5, <1>6, CryptoStepsAreNoKeys DEF TodoInv
<1>8. \A answer \in CoinGeckoAnswers : answer # None => IsQuote(answer)
  BY CoinGeckoQuotes DEF IngestInv
<1> QED
  BY <1>2, <1>3, <1>4, <1>5, <1>7, <1>8, SourceAsked

(* A source that gives way to the next one of the symbol.                   *)
LEMMA NextSource ==
  ASSUME IngestInv, NEW step \in CryptoSteps, NEW next \in CryptoSteps, At(step),
         NEW source \in CryptoSources, NEW answers,
         \A answer \in answers : answer # None => IsQuote(answer),
         Ask(todo[2], source, answers), todo' = <<next>> \o Tail(todo)
  PROVE  IngestInv'
<1>1. TodoInv
  BY DEF IngestInv
<1>2. PICK symbol : symbol = todo[2]
  OBVIOUS
<1>3. /\ symbol \in CryptoSymbols \cap ToSet(todo)
      /\ Plan(Tail(todo)) /\ Tail(todo) # <<>> /\ Head(Tail(todo)) = symbol
      /\ \A x : x \in ToSet(Tail(todo)) <=> x \in ToSet(todo) /\ x # step
  BY <1>1, <1>2, AtSource
<1>4. /\ Plan(<<next>> \o Tail(todo))
      /\ \A x : x \in ToSet(<<next>> \o Tail(todo)) <=> x \in ToSet(Tail(todo)) \/ x = next
  BY <1>3, PlanPush
<1>5. TodoInv'
  BY <1>4 DEF TodoInv
<1>6. \A k \in Keys : k \in ToSet(todo') <=> k \in ToSet(todo)
  BY <1>3, <1>4, CryptoStepsAreNoKeys
<1>7. todo # <<>>
  BY <1>1, AtHead
<1> QED
  BY <1>2, <1>3, <1>5, <1>6, <1>7, SourceAsked

LEMMA AskKifpoolKeeps ==
  ASSUME IngestInv, AskKifpool
  PROVE  IngestInv'
<1> DEFINE answers == {KifpoolCryptoSnapshot(p, ctx_now) : p \in Prices} \cup {None}
<1>1. \A answer \in answers : answer # None => IsQuote(answer)
  BY KifpoolQuotes DEF IngestInv
<1>2. /\ At("kifpool") /\ Ask(todo[2], "kifpool", answers) /\ todo' = <<"gate">> \o Tail(todo)
      /\ "kifpool" \in CryptoSteps /\ "gate" \in CryptoSteps /\ "kifpool" \in CryptoSources
  BY DEF AskKifpool, CryptoSteps, CryptoSources
<1> QED
  <2> HIDE DEF answers
  <2> QED
    BY <1>1, <1>2, NextSource

LEMMA AskGateKeeps ==
  ASSUME IngestInv, AskGate
  PROVE  IngestInv'
<1>1. \A answer \in GateAnswers : answer # None => IsQuote(answer)
  BY GateQuotes DEF IngestInv
<1>2. /\ At("gate") /\ Ask(todo[2], "gate", GateAnswers) /\ todo' = <<"merge">> \o Tail(todo)
      /\ "gate" \in CryptoSteps /\ "merge" \in CryptoSteps /\ "gate" \in CryptoSources
  BY DEF AskGate, CryptoSteps, CryptoSources
<1> QED
  BY <1>1, <1>2, NextSource

LEMMA MergeCryptoKeeps ==
  ASSUME IngestInv, MergeCrypto
  PROVE  IngestInv'
<1>1. PICK symbol : symbol = todo[2]
  OBVIOUS
<1>2. "merge" \in CryptoSteps /\ At("merge") /\ TodoInv
  BY DEF MergeCrypto, CryptoSteps, IngestInv
<1>3. /\ symbol \in CryptoSymbols \cap ToSet(todo)
      /\ Plan(Tail(todo)) /\ Tail(todo) # <<>> /\ Head(Tail(todo)) = symbol
      /\ \A x : x \in ToSet(Tail(todo)) <=> x \in ToSet(todo) /\ x # "merge"
  BY <1>1, <1>2, AtSource
<1>4. todo # <<>>
  BY <1>2, AtHead
<1>5. /\ Plan(Tail(Tail(todo)))
      /\ \A x : x \in ToSet(Tail(Tail(todo))) <=> x \in ToSet(Tail(todo)) /\ x # symbol
  BY <1>3, PlanTail
<1>6. todo' = Tail(Tail(todo)) /\ UNCHANGED <<samples, now, ctx_now, path, heard, cmc, ingests>>
  BY DEF MergeCrypto
<1>7. TodoInv'
  BY <1>5, <1>6 DEF TodoInv
<1>8. \A k \in Keys : k \in ToSet(todo') <=> k \in ToSet(todo) /\ k # symbol
  BY <1>2, <1>3, <1>5, <1>6, CryptoStepsAreNoKeys
<1>9. symbol \in Keys
  BY <1>3, KeysAre DEF CryptoSymbols
<1>10. symbol \notin DOMAIN price
  BY <1>3, <1>9 DEF IngestInv, DoneInv
<1>11. IF Agreed(heard[symbol], ctx_now)
       THEN PublishLive(symbol, Aggregate(heard[symbol], ctx_now))
       ELSE PublishLastGood(symbol)
  BY <1>1 DEF MergeCrypto
<1>12. /\ Publishes(symbol)
       /\ Sound(heard[symbol], ctx_now, symbol \in DOMAIN price' /\ price'[symbol].reason # "last_good",
                price'[symbol])
  BY <1>3, <1>10, <1>11, MergePublishes DEF IngestInv
<1> QED
  BY <1>3, <1>4, <1>6, <1>7, <1>8, <1>9, <1>12, StageDone

(* A stage of one source that publishes its key, and passes.                *)
LEMMA PublishKeeps ==
  ASSUME IngestInv, NEW key \in Keys \ CryptoSymbols, At(key), Publishes(key),
         Pass, UNCHANGED <<samples, now, ctx_now, path, heard, cmc, ingests>>
  PROVE  IngestInv'
<1>1. todo # <<>> /\ Head(todo) = key /\ key \in ToSet(todo)
  BY AtHead DEF IngestInv
<1>2. /\ Plan(Tail(todo))
      /\ \A x : x \in ToSet(Tail(todo)) <=> x \in ToSet(todo) /\ x # Head(todo)
  BY <1>1, PlanTail DEF IngestInv, TodoInv
<1>3. TodoInv' /\ \A k \in Keys : k \in ToSet(todo') <=> k \in ToSet(todo) /\ k # key
  BY <1>1, <1>2 DEF Pass, TodoInv
<1> QED
  BY <1>1, <1>3, StageDone

LEMMA PublishIs ==
  ASSUME NEW key, NEW snapshot, snapshot # None => IsLive(snapshot),
         key = "TOTAL_MCAP" /\ snapshot # None => HistoryReal(snapshot),
         Publish(key, snapshot)
  PROVE  /\ Publishes(key) /\ Pass
         /\ UNCHANGED <<samples, now, ctx_now, path, heard, cmc, ingests>>
<1>1. IF snapshot # None THEN PublishLive(key, snapshot) ELSE PublishLastGood(key)
  BY DEF Publish
<1>2. Publishes(key)
  BY <1>1 DEF Publishes
<1> QED
  BY <1>2 DEF Publish

LEMMA FetchGoldKeeps ==
  ASSUME IngestInv, FetchGold
  PROVE  IngestInv'
<1>1. PICK answer \in CoinGeckoAnswers : Publish("GOLD", answer)
  BY DEF FetchGold
<1>2. answer # None => IsLive(answer)
  BY CoinGeckoQuotes DEF IngestInv, IsQuote
<1>3. "GOLD" \in Keys \ CryptoSymbols /\ "GOLD" # "TOTAL_MCAP" /\ At("GOLD")
  BY KeysAre DEF CryptoSymbols, FetchGold
<1> QED
  BY <1>1, <1>2, <1>3, PublishIs, PublishKeeps

LEMMA FetchOilKeeps ==
  ASSUME IngestInv, FetchOil
  PROVE  IngestInv'
<1>1. PICK quote \in QuoteAnswers, rows \in HistoryAnswers :
         Publish("WTI", IF quote = None \/ rows = None THEN None
                        ELSE OilSnapshot(quote, rows, now))
  BY DEF FetchOil
<1>2. PICK s : s = IF quote = None \/ rows = None THEN None ELSE OilSnapshot(quote, rows, now)
  OBVIOUS
<1>3. ASSUME s # None PROVE IsLive(s)
  <2>1. quote # None /\ rows # None /\ s = OilSnapshot(quote, rows, now)
    BY <1>2, <1>3
  <2>2. quote.ts \in Int /\ quote.price \in Nat \ {0}
    BY <2>1, QuotesAreDated DEF IngestInv
  <2>3. PICK n \in Nat : DOMAIN rows = 1..n /\ \A i \in 1..n : rows[i].day \in Int /\ rows[i].close \in Nat
    BY <2>1, HistoryRows DEF IngestInv
  <2>4. now \in Int
    BY ClockIsNat DEF IngestInv
  <2> QED
    BY <1>3, <2>1, <2>2, <2>3, <2>4, OilIsLive
<1>4. "WTI" \in Keys \ CryptoSymbols /\ "WTI" # "TOTAL_MCAP" /\ At("WTI")
  BY KeysAre DEF CryptoSymbols, FetchOil
<1> QED
  BY <1>1, <1>2, <1>3, <1>4, PublishIs, PublishKeeps

LEMMA FetchDollarKeeps ==
  ASSUME IngestInv, FetchDollar
  PROVE  IngestInv'
<1>1. PICK spot \in {KifpoolUsdSnapshot(p, now) : p \in Prices} \cup {None},
           quote \in QuoteAnswers, rows \in HistoryAnswers :
         Publish("USD_IRR", HybridUsdSnapshot(spot, quote, rows, ctx_now))
  BY DEF FetchDollar
<1>2. PICK s : s = HybridUsdSnapshot(spot, quote, rows, ctx_now)
  OBVIOUS
<1>3. ASSUME s # None PROVE IsLive(s)
  <2>1. spot # None => IsLive(spot)
    BY KifpoolQuotes DEF IngestInv
  <2>2. quote # None => quote.ts \in Int /\ quote.price \in Nat \ {0}
    BY QuotesAreDated DEF IngestInv
  <2> QED
    BY <1>2, <1>3, <2>1, <2>2, HybridUsdIsLive
<1>4. "USD_IRR" \in Keys \ CryptoSymbols /\ "USD_IRR" # "TOTAL_MCAP" /\ At("USD_IRR")
  BY KeysAre DEF CryptoSymbols, FetchDollar
<1> QED
  BY <1>1, <1>2, <1>3, <1>4, PublishIs, PublishKeeps

LEMMA PublishTotalMcapKeeps ==
  ASSUME IngestInv, PublishTotalMcap
  PROVE  IngestInv'
<1>1. "TOTAL_MCAP" \in Keys \ CryptoSymbols /\ At("TOTAL_MCAP") /\ Publish("TOTAL_MCAP", cmc)
  BY KeysAre DEF CryptoSymbols, PublishTotalMcap
<1>2. cmc # None => IsLive(cmc) /\ HistoryReal(cmc)
  BY DEF IngestInv, AnswersInv
<1> QED
  BY <1>1, <1>2, PublishIs, PublishKeeps

LEMMA FetchFearGreedKeeps ==
  ASSUME IngestInv, FetchFearGreed
  PROVE  IngestInv'
<1>1. "FEAR_GREED" \in Keys \ CryptoSymbols /\ "FEAR_GREED" # "TOTAL_MCAP" /\ At("FEAR_GREED")
  BY KeysAre DEF CryptoSymbols, FetchFearGreed
<1>2. Pass /\ UNCHANGED <<samples, now, ctx_now, path, heard, cmc, ingests>>
  BY DEF FetchFearGreed
<1>3. PICK value \in Prices, t \in Instants :
         \/ PublishLive("FEAR_GREED", Snapshot("alternative_me", t, value, <<>>, <<>>))
         \/ PublishLastGood("FEAR_GREED")
  BY DEF FetchFearGreed
<1>4. IsLive(Snapshot("alternative_me", t, value, <<>>, <<>>))
  BY PricesAreEven, InstantsAreInt, SnapshotIsLive DEF IngestInv
<1>5. Publishes("FEAR_GREED")
  BY <1>1, <1>3, <1>4 DEF Publishes
<1> QED
  BY <1>1, <1>2, <1>5, PublishKeeps

(* CoinMarketCap's sample is in the table before the table is read.         *)
LEMMA FetchCoinMarketCapKeeps ==
  ASSUME IngestInv, FetchCoinMarketCap
  PROVE  IngestInv'
<1>1. PICK cap \in Prices, as_of \in Instants :
         \/ /\ samples' = RecordSample(samples, as_of, cap)
            /\ cmc' = EnrichTotalMcap(McapSnapshot(cap, as_of, ctx_now), ListRecent(samples'))
         \/ samples' = samples /\ cmc' = McapSnapshot(cap, as_of, ctx_now)
         \/ samples' = samples /\ cmc' = None
  BY DEF FetchCoinMarketCap
<1>2. At("CMC") /\ Pass /\ UNCHANGED <<last_good, now, ctx_now, path, heard, indicator, price, unread,
                                       ingests, newest>>
  BY DEF FetchCoinMarketCap
<1>3. cap \in Nat \ {0} /\ as_of \in Int
  BY PricesAreEven, InstantsAreInt DEF IngestInv
<1>4. PICK live : live = McapSnapshot(cap, as_of, ctx_now)
  OBVIOUS
<1>5. IsLive(live) /\ live.as_of = as_of /\ live.value = cap
  BY <1>3, <1>4, McapIsLive
<1>6. todo # <<>> /\ Head(todo) = "CMC" /\ TodoInv
  BY <1>2, AtHead DEF IngestInv
<1>7. /\ Plan(Tail(todo))
      /\ \A x : x \in ToSet(Tail(todo)) <=> x \in ToSet(todo) /\ x # Head(todo)
  BY <1>6, PlanTail DEF TodoInv
<1>8. TodoInv' /\ \A k \in Keys : k \in ToSet(todo') <=> k \in ToSet(todo)
  BY <1>2, <1>6, <1>7, CryptoStepsAreNoKeys DEF Pass, TodoInv
<1>9. ClockInv' /\ StoreInv' /\ PriceInv'
  BY <1>2 DEF IngestInv, ClockInv, StoreInv, PriceInv
<1>10. DoneInv'
  BY <1>2, <1>6, <1>8 DEF IngestInv, DoneInv
<1>11. SoundInv'
  <2>1. ASSUME NEW k \in ToSet(path') \cap CryptoSymbols, k \notin ToSet(todo')
        PROVE  Sound(heard'[k], ctx_now', IsLivePrice(k)', price'[k])
    <3>1. k \in Keys
      BY <2>1, KeysAre DEF CryptoSymbols
    <3>2. Sound(heard[k], ctx_now, IsLivePrice(k), price[k])
      BY <1>2, <1>6, <1>8, <2>1, <3>1 DEF IngestInv, SoundInv
    <3> QED
      BY <1>2, <3>2 DEF IsLivePrice
  <2> QED
    BY <2>1 DEF SoundInv
<1>12. SamplesInv'
  <2>1. CASE samples' = RecordSample(samples, as_of, cap)
    <3>1. DOMAIN samples' = DOMAIN samples \cup {as_of}
          /\ \A t \in DOMAIN samples' : samples'[t] = IF t = as_of THEN cap ELSE samples[t]
      BY <2>1 DEF RecordSample, Put
    <3>2. IsFiniteSet(DOMAIN samples')
      BY <3>1, FS_AddElement DEF IngestInv, SamplesInv
    <3> QED
      BY <1>3, <3>1, <3>2 DEF IngestInv, SamplesInv
  <2>2. CASE samples' = samples
    BY <2>2 DEF IngestInv, SamplesInv
  <2> QED
    BY <1>1, <2>1, <2>2
<1>13. cmc' # None => IsLive(cmc') /\ HistoryReal(cmc')
  <2>1. CASE /\ samples' = RecordSample(samples, as_of, cap)
             /\ cmc' = EnrichTotalMcap(live, ListRecent(samples'))
    <3>1. PICK table : table = samples'
      OBVIOUS
    <3>2. as_of \in DOMAIN table /\ table[as_of] = cap
      BY <2>1, <3>1 DEF RecordSample, Put
    <3>3. DOMAIN table \in SUBSET Int /\ IsFiniteSet(DOMAIN table)
          /\ \A t \in DOMAIN table : table[t] \in Int
      BY <1>12, <3>1, PricesAreEven DEF SamplesInv
    <3>4. PICK listed : listed = ListRecent(table)
      OBVIOUS
    <3>5. DOMAIN listed \in SUBSET DOMAIN table /\ \A t \in DOMAIN listed : listed[t] = table[t]
      BY <3>3, <3>4, RecentIsLatest
    <3>6. \A t \in DOMAIN listed, u \in DOMAIN table : t <= u => u \in DOMAIN listed
      BY <3>3, <3>4, RecentIsLatest
    <3>7. DOMAIN listed \in SUBSET Int /\ IsFiniteSet(DOMAIN listed)
          /\ \A t \in DOMAIN listed : listed[t] \in Int
      BY <3>3, <3>5, FS_Subset
    <3>8. (\E t \in DOMAIN listed : t <= live.as_of)
             => live.as_of \in DOMAIN listed /\ listed[live.as_of] = live.value
      BY <1>5, <3>2, <3>5, <3>6
    <3>9. HistoryReal(EnrichTotalMcap(live, listed))
      BY <1>5, <3>7, <3>8, EnrichedHistory
    <3>10. IsLive(EnrichTotalMcap(live, listed))
      BY <1>5, EnrichedIsLive
    <3> QED
      BY <2>1, <3>1, <3>4, <3>9, <3>10
  <2>2. CASE cmc' = live
    <3>1. live.closes = <<>>
      BY <1>4 DEF McapSnapshot, Snapshot
    <3> QED
      BY <1>5, <2>2, <3>1 DEF HistoryReal
  <2> QED
    BY <1>1, <1>4, <2>1, <2>2
<1>14. AnswersInv'
  BY <1>2, <1>13 DEF IngestInv, AnswersInv
<1> QED
  BY <1>8, <1>9, <1>10, <1>11, <1>12, <1>14 DEF IngestInv

LEMMA EmptyBundleKeeps ==
  ASSUME EmptyBundle
  PROVE  AnswersInv' /\ (StoreInv' => PriceInv')
<1>1. AnswersInv'
  BY DEF EmptyBundle, AnswersInv, NothingHeard
<1>2. DOMAIN price' = {} /\ unread' = {}
  BY DEF EmptyBundle
<1> QED
  BY <1>1, <1>2 DEF PriceInv

LEMMA EmptyPlan == Plan(<<>>) /\ ToSet(<<>>) = {}
<1>1. <<>> \in Seq(Stages) /\ Len(<<>>) = 0 /\ DOMAIN <<>> = {}
  OBVIOUS
<1>2. ToSet(<<>>) = {}
  BY <1>1 DEF ToSet
<1>3. \A i \in 1..0 : FALSE
  OBVIOUS
<1> QED
  BY <1>1, <1>2, <1>3 DEF Plan

LEMMA IngestInit ==
  ASSUME Init
  PROVE  IngestInv
<1>1. ClockInv
  BY IngestionAssumption DEF Init, ClockInv
<1>2. DOMAIN last_good = {} /\ DOMAIN newest = {} /\ DOMAIN samples = {} /\ DOMAIN price = {}
      /\ unread = {} /\ todo = <<>> /\ heard = NothingHeard /\ cmc = None /\ path \in Paths
  BY DEF Init
<1>3. StoreInv /\ PriceInv
  BY <1>2 DEF StoreInv, PriceInv
<1>4. SamplesInv
  BY <1>2, FS_EmptySet DEF SamplesInv
<1>5. TodoInv /\ SoundInv /\ DoneInv
  BY <1>2, EmptyPlan DEF TodoInv, SoundInv, DoneInv
<1>6. AnswersInv
  BY <1>2 DEF AnswersInv, NothingHeard
<1> QED
  BY <1>1, <1>3, <1>4, <1>5, <1>6 DEF IngestInv

LEMMA BeginKeeps ==
  ASSUME IngestInv, Begin
  PROVE  IngestInv'
<1>1. /\ ingests < MaxIngests /\ ingests' = ingests + 1
      /\ ctx_now' = now /\ todo' = Append(path, "finish") /\ EmptyBundle
      /\ UNCHANGED <<last_good, samples, now, path, newest>>
  BY DEF Begin, tables
<1>2. ClockInv'
  BY <1>1, ClockIsNat, IngestionAssumption DEF IngestInv, ClockInv
<1>3. StoreInv' /\ SamplesInv'
  BY <1>1 DEF IngestInv, StoreInv, SamplesInv
<1>4. AnswersInv' /\ PriceInv'
  BY <1>1, <1>3, EmptyBundleKeeps
<1>5. path \in Paths
  BY DEF IngestInv, DoneInv
<1>6. TodoInv' /\ ToSet(path) \subseteq ToSet(todo')
  BY <1>1, <1>5, PlanBegins DEF TodoInv
<1>7. DOMAIN price' = {} /\ unread' = {}
  BY <1>1 DEF EmptyBundle
<1>8. DoneInv'
  BY <1>1, <1>5, <1>6, <1>7 DEF DoneInv
<1>9. SoundInv'
  BY <1>1, <1>6 DEF SoundInv
<1> QED
  BY <1>2, <1>3, <1>4, <1>6, <1>8, <1>9 DEF IngestInv

LEMMA CrashKeeps ==
  ASSUME IngestInv, Crash
  PROVE  IngestInv'
<1>1. todo' = <<>> /\ EmptyBundle /\ UNCHANGED <<last_good, samples, now, ctx_now, path, ingests, newest>>
  BY DEF Crash, tables
<1>2. ClockInv' /\ StoreInv' /\ SamplesInv'
  BY <1>1 DEF IngestInv, ClockInv, StoreInv, SamplesInv
<1>3. AnswersInv' /\ PriceInv'
  BY <1>1, <1>2, EmptyBundleKeeps
<1>4. TodoInv' /\ SoundInv' /\ DoneInv'
  BY <1>1, EmptyPlan DEF IngestInv, TodoInv, SoundInv, DoneInv
<1> QED
  BY <1>2, <1>3, <1>4 DEF IngestInv

(* The ingestion is over when nothing but the end is ahead.                 *)
LEMMA AtFinish ==
  ASSUME TodoInv, At("finish")
  PROVE  /\ \A k \in Keys : k \notin ToSet(todo)
         /\ Tail(todo) = <<>>
<1>1. PICK n \in Nat \ {0} : n = Len(todo)
  BY DEF At, TodoInv, Plan
<1>2. todo[1] = "finish" /\ 1 \in 1..n
  BY <1>1, AtHead
<1>3. n = 1
  BY <1>1, <1>2 DEF TodoInv, Plan
<1>4. todo \in Seq(Stages) /\ Len(todo) = 1 /\ DOMAIN todo = {1}
  <2>1. todo \in Seq(Stages) /\ Len(todo) = 1
    BY <1>1, <1>3 DEF TodoInv, Plan
  <2>2. 1..1 = {1}
    OBVIOUS
  <2> QED
    BY <2>1, <2>2
<1>5. ToSet(todo) = {"finish"}
  BY <1>2, <1>4 DEF ToSet
<1>6. Tail(todo) = <<>>
  <2>1. PICK t : t = Tail(todo)
    OBVIOUS
  <2>2. t \in Seq(Stages) /\ Len(t) = 0
    BY <1>4, <2>1
  <2>3. t = <<>>
    BY <2>2
  <2> QED
    BY <2>1, <2>3
<1> QED
  BY <1>5, <1>6, CryptoStepsAreNoKeys

LEMMA FinishKeeps ==
  ASSUME IngestInv, Finish
  PROVE  IngestInv'
<1>1. At("finish") /\ Pass /\ UNCHANGED <<last_good, samples, now, ctx_now, path, heard, cmc,
                                          indicator, price, unread, ingests, newest>>
  BY DEF Finish, tables, bundle
<1>2. todo' = <<>>
  BY <1>1, AtFinish DEF Pass, IngestInv
<1>3. ClockInv' /\ StoreInv' /\ SamplesInv' /\ PriceInv' /\ AnswersInv'
  BY <1>1 DEF IngestInv, ClockInv, StoreInv, SamplesInv, PriceInv, AnswersInv
<1>4. TodoInv' /\ SoundInv' /\ DoneInv'
  BY <1>1, <1>2, EmptyPlan DEF IngestInv, TodoInv, SoundInv, DoneInv
<1> QED
  BY <1>3, <1>4 DEF IngestInv

LEMMA TickKeeps ==
  ASSUME IngestInv, Tick
  PROVE  IngestInv'
<1>1. now < MaxTime /\ now' = now + 1
      /\ UNCHANGED <<last_good, samples, ctx_now, path, todo, heard, cmc, indicator, price,
                     unread, ingests, newest>>
  BY DEF Tick, tables, bundle
<1>2. ClockInv'
  BY <1>1, ClockIsNat, IngestionAssumption DEF IngestInv, ClockInv
<1>3. StoreInv' /\ SamplesInv' /\ PriceInv' /\ AnswersInv' /\ TodoInv' /\ DoneInv'
  BY <1>1 DEF IngestInv, StoreInv, SamplesInv, PriceInv, AnswersInv, TodoInv, DoneInv
<1>4. SoundInv'
  BY <1>1 DEF IngestInv, SoundInv, IsLivePrice
<1> QED
  BY <1>2, <1>3, <1>4 DEF IngestInv

LEMMA StepKeeps ==
  ASSUME IngestInv, [Next]_vars
  PROVE  IngestInv'
<1>1. CASE UNCHANGED vars
  <2>1. UNCHANGED <<last_good, samples, now, ctx_now, path, todo, heard, cmc, indicator, price,
                    unread, ingests, newest>>
    BY <1>1 DEF vars, tables, bundle
  <2>2. ClockInv' /\ StoreInv' /\ SamplesInv' /\ PriceInv' /\ AnswersInv' /\ TodoInv' /\ DoneInv'
    BY <2>1 DEF IngestInv, ClockInv, StoreInv, SamplesInv, PriceInv, AnswersInv, TodoInv, DoneInv
  <2>3. SoundInv'
    BY <2>1 DEF IngestInv, SoundInv, IsLivePrice
  <2> QED
    BY <2>2, <2>3 DEF IngestInv
<1>2. CASE Tick
  BY <1>2, TickKeeps
<1>3. CASE Begin
  BY <1>3, BeginKeeps
<1>4. CASE FetchCoinMarketCap
  BY <1>4, FetchCoinMarketCapKeeps
<1>5. CASE AskCoinGecko
  BY <1>5, AskCoinGeckoKeeps
<1>6. CASE AskKifpool
  BY <1>6, AskKifpoolKeeps
<1>7. CASE AskGate
  BY <1>7, AskGateKeeps
<1>8. CASE MergeCrypto
  BY <1>8, MergeCryptoKeeps
<1>9. CASE FetchGold
  BY <1>9, FetchGoldKeeps
<1>10. CASE FetchOil
  BY <1>10, FetchOilKeeps
<1>11. CASE FetchDollar
  BY <1>11, FetchDollarKeeps
<1>12. CASE PublishTotalMcap
  BY <1>12, PublishTotalMcapKeeps
<1>13. CASE FetchFearGreed
  BY <1>13, FetchFearGreedKeeps
<1>14. CASE Finish
  BY <1>14, FinishKeeps
<1>15. CASE Crash
  BY <1>15, CrashKeeps
<1> QED
  BY <1>1, <1>2, <1>3, <1>4, <1>5, <1>6, <1>7, <1>8, <1>9, <1>10, <1>11, <1>12, <1>13,
     <1>14, <1>15 DEF Next

(* What holds of an ingestion in every state: the clock, the store and the  *)
(* samples, what is ahead, the answers, the prices, and for each stage that *)
(* is behind a key that was served and a price that is sound.               *)
THEOREM IngestionInvariant == Spec => []IngestInv
<1>1. Init => IngestInv
  BY IngestInit
<1>2. IngestInv /\ [Next]_vars => IngestInv'
  BY StepKeeps
<1> QED
  BY <1>1, <1>2, PTL DEF Spec

-----------------------------------------------------------------------------
(* What a run checks. *)

LEMMA InvGivesTypes ==
  ASSUME IngestInv
  PROVE  TypeOK
<1>1. ASSUME NEW row \in Rows
      PROVE  row.reason = "last_good" /\ row.as_of \in Int /\ row.value > 0
  <2>1. PICK k \in DOMAIN last_good : row = last_good[k]
    BY <1>1 DEF Rows, Range
  <2> QED
    BY <2>1 DEF IngestInv, StoreInv, IsRow
<1>2. ASSUME NEW s \in Published
      PROVE  s.reason \in {"fresh", "aged", "last_good"} /\ s.value > 0
  <2>1. PICK k \in DOMAIN price : s = price[k]
    BY <1>2 DEF Published, Range
  <2>2. IsLive(s) \/ IsRow(s)
    BY <2>1 DEF IngestInv, PriceInv
  <2> QED
    BY <2>2 DEF IsLive, IsRow
<1>3. ASSUME NEW k \in CryptoSymbols, NEW s \in CryptoSources, heard[k][s] # None
      PROVE  heard[k][s].reason # "last_good"
  BY <1>3 DEF IngestInv, AnswersInv, IsQuote
<1>4. /\ now \in Start..MaxTime /\ ctx_now \in Start..now
      /\ ingests \in 0..MaxIngests
      /\ DOMAIN samples \subseteq Int
      /\ \A t \in DOMAIN samples : samples[t] \in Prices
      /\ unread \subseteq Keys \ DOMAIN price
      /\ DOMAIN last_good \subseteq Keys
      /\ DOMAIN newest = DOMAIN last_good
  BY DEF IngestInv, ClockInv, SamplesInv, PriceInv, StoreInv
<1> QED
  BY <1>1, <1>2, <1>3, <1>4 DEF TypeOK

(* The tables and the bundle have their shapes; a row of the store is       *)
(* marked as the last good one and an answer of a crypto source never is.   *)
THEOREM IngestionTypes == Spec => []TypeOK
BY IngestionInvariant, InvGivesTypes, PTL

LEMMA InvGivesSound ==
  ASSUME IngestInv
  PROVE  CryptoPriceSound
<1>1. ASSUME At("finish"), NEW k \in CryptoSymbols \cap ToSet(path)
      PROVE  Sound(heard[k], ctx_now, IsLivePrice(k), price[k])
  <2>1. todo # <<>> /\ k \in Keys
    BY <1>1, KeysAre DEF At, CryptoSymbols
  <2>2. k \notin ToSet(todo)
    BY <1>1, <2>1, AtFinish DEF IngestInv
  <2> QED
    BY <1>1, <2>1, <2>2 DEF IngestInv, SoundInv
<1> QED
  BY <1>1 DEF CryptoPriceSound

(* A live crypto price is the median of at least MinSources young sources,  *)
(* near which they are or else flagged; two of them agree; and three young  *)
(* ones always give one.  real_ingest_provider and aggregate_snapshots.     *)
THEOREM CryptoPricesSound == Spec => []CryptoPriceSound
BY IngestionInvariant, InvGivesSound, PTL

LEMMA InvGivesHistory ==
  ASSUME IngestInv
  PROVE  McapHistoryReal
BY DEF IngestInv, PriceInv, McapHistoryReal

(* The history published with the capitalisation ends at its own sample,    *)
(* and its changes are to that value from the nearest sample listed.        *)
THEOREM CapHistoryReal == Spec => []McapHistoryReal
BY IngestionInvariant, InvGivesHistory, PTL

LEMMA InvGivesFallback ==
  ASSUME IngestInv
  PROVE  FallbackIsNewest
BY DEF IngestInv, PriceInv, IsLive, FallbackIsNewest

(* A price served for sources that failed is the newest ever put into the   *)
(* store, by its own timestamp: an older one never replaces it.             *)
THEOREM FallbacksNewest == Spec => []FallbackIsNewest
BY IngestionInvariant, InvGivesFallback, PTL

LEMMA InvGivesSurvival ==
  ASSUME IngestInv
  PROVE  PriceSurvives
<1>1. ASSUME At("finish"), NEW k \in ToSet(path) \cap Keys, k \in DOMAIN newest
      PROVE  k \in DOMAIN price \cup unread
  <2>1. todo # <<>>
    BY <1>1 DEF At
  <2>2. k \notin ToSet(todo)
    BY <1>1, AtFinish DEF IngestInv
  <2> QED
    BY <1>1, <2>1, <2>2 DEF IngestInv, DoneInv
<1> QED
  BY <1>1 DEF PriceSurvives

(* A symbol priced once has a price at the end of every later ingestion, if *)
(* the store could be read.                                                 *)
THEOREM PricesSurvive == Spec => []PriceSurvives
BY IngestionInvariant, InvGivesSurvival, PTL

-----------------------------------------------------------------------------
(* The series of the bundle.  They are what the sources answered, or what   *)
(* the store kept of an earlier answer: so the answers and the rows have to *)
(* end with their values too.                                               *)

\* The symbols whose published snapshot is their indicator.
Serial == {"GOLD", "WTI", "USD_IRR", "TOTAL_MCAP"}

SeriesInv ==
    /\ \A k \in CryptoSymbols, s \in {"coingecko", "gate"} :
          heard[k][s] # None => EndsWithValue(k, heard[k][s])
    /\ cmc # None => EndsWithValue("TOTAL_MCAP", cmc)
    /\ \A k \in DOMAIN last_good \cap Serial : EndsWithValue(k, last_good[k])
    /\ \A k \in DOMAIN price \cap Serial : EndsWithValue(k, price[k])
    /\ SeriesEndsWithValue

\* The part of it that is about the store and the prices.
KeptEnds ==
    /\ \A k \in DOMAIN last_good \cap Serial : EndsWithValue(k, last_good[k])
    /\ \A k \in DOMAIN price \cap Serial : EndsWithValue(k, price[k])

\* The part of it that is about the answers.
AnswersEnd ==
    /\ \A k \in CryptoSymbols, s \in {"coingecko", "gate"} :
          heard[k][s] # None => EndsWithValue(k, heard[k][s])
    /\ cmc # None => EndsWithValue("TOTAL_MCAP", cmc)

LEMMA SeriesParts == SeriesInv <=> KeptEnds /\ AnswersEnd /\ SeriesEndsWithValue
BY DEF SeriesInv, KeptEnds, AnswersEnd

LEMMA RowEnds ==
  ASSUME NEW k, NEW s, IsLive(s), EndsWithValue(k, s)
  PROVE  EndsWithValue(k, Row(s))
<1>1. PICK r : r = Row(s)
  OBVIOUS
<1>2. /\ r.as_of = s.as_of /\ r.value = s.value /\ r.source = s.source
      /\ r.closes = s.closes /\ r.dates = s.dates
  BY <1>1 DEF Row, IsLive
<1>3. EndsWithValue(k, r)
  BY <1>2 DEF EndsWithValue
<1> QED
  BY <1>1, <1>3

(* A live snapshot that ends with its value, published and recorded.        *)
LEMMA LiveEnds ==
  ASSUME KeptEnds, NEW key, NEW s, IsLive(s), key \in Serial => EndsWithValue(key, s),
         PublishLive(key, s)
  PROVE  KeptEnds'
<1>1. RecordLastGood(key, s) /\ price' = Put(price, key, s)
  BY DEF PublishLive
<1>2. ASSUME NEW k \in DOMAIN price' \cap Serial PROVE EndsWithValue(k, price'[k])
  <2>1. CASE k = key
    <3>1. price'[k] = s
      BY <1>1, <2>1 DEF Put
    <3> QED
      BY <1>2, <2>1, <3>1
  <2>2. CASE k # key
    <3>1. k \in DOMAIN price /\ price'[k] = price[k]
      BY <1>1, <1>2, <2>2 DEF Put
    <3> QED
      BY <1>2, <3>1 DEF KeptEnds
  <2> QED
    BY <2>1, <2>2
<1>3. last_good' = last_good \/ last_good' = Put(last_good, key, Row(s))
  BY <1>1 DEF RecordLastGood, Upsert
<1>4. ASSUME NEW k \in DOMAIN last_good' \cap Serial PROVE EndsWithValue(k, last_good'[k])
  <2>1. CASE last_good' = last_good
    BY <1>4, <2>1 DEF KeptEnds
  <2>2. CASE last_good' = Put(last_good, key, Row(s)) /\ k = key
    <3>1. last_good'[k] = Row(s)
      BY <2>2 DEF Put
    <3> QED
      BY <1>4, <2>2, <3>1, RowEnds
  <2>3. CASE last_good' = Put(last_good, key, Row(s)) /\ k # key
    <3>1. k \in DOMAIN last_good /\ last_good'[k] = last_good[k]
      BY <1>4, <2>3 DEF Put
    <3> QED
      BY <1>4, <3>1 DEF KeptEnds
  <2> QED
    BY <1>3, <2>1, <2>2, <2>3
<1> QED
  BY <1>2, <1>4 DEF KeptEnds

(* A last good one published again.                                         *)
LEMMA LastGoodEnds ==
  ASSUME KeptEnds, NEW key, PublishLastGood(key)
  PROVE  KeptEnds'
<1>1. last_good' = last_good
  BY DEF PublishLastGood
<1>2. \/ price' = price
      \/ key \in DOMAIN last_good /\ price' = Put(price, key, last_good[key])
  BY DEF PublishLastGood
<1>3. ASSUME NEW k \in DOMAIN price' \cap Serial PROVE EndsWithValue(k, price'[k])
  <2>1. CASE price' = price
    BY <1>3, <2>1 DEF KeptEnds
  <2>2. CASE /\ key \in DOMAIN last_good /\ price' = Put(price, key, last_good[key])
             /\ k = key
    <3>1. price'[k] = last_good[k]
      BY <2>2 DEF Put
    <3> QED
      BY <1>3, <2>2, <3>1 DEF KeptEnds
  <2>3. CASE price' = Put(price, key, last_good[key]) /\ k # key
    <3>1. k \in DOMAIN price /\ price'[k] = price[k]
      BY <1>3, <2>3 DEF Put
    <3> QED
      BY <1>3, <3>1 DEF KeptEnds
  <2> QED
    BY <1>2, <2>1, <2>2, <2>3
<1> QED
  BY <1>1, <1>3 DEF KeptEnds

(* A stage that publishes a symbol's price as its indicator.                *)
LEMMA PublishEnds ==
  ASSUME SeriesInv, NEW key \in Serial, NEW snapshot,
         snapshot # None => IsLive(snapshot) /\ EndsWithValue(key, snapshot),
         Publish(key, snapshot)
  PROVE  SeriesInv'
<1>1. KeptEnds /\ AnswersEnd /\ SeriesEndsWithValue
  BY SeriesParts
<1>2. IF snapshot # None THEN PublishLive(key, snapshot) ELSE PublishLastGood(key)
  BY DEF Publish
<1>3. KeptEnds'
  BY <1>1, <1>2, LiveEnds, LastGoodEnds
<1>4. AnswersEnd'
  BY <1>1 DEF Publish, AnswersEnd
<1>5. indicator' = IF key \in DOMAIN price' THEN Put(indicator, key, price'[key]) ELSE indicator
  BY DEF Publish
<1>6. ASSUME NEW k \in DOMAIN indicator' PROVE EndsWithValue(k, indicator'[k])
  <2>1. CASE indicator' = indicator
    BY <1>1, <2>1 DEF SeriesEndsWithValue
  <2>2. CASE key \in DOMAIN price' /\ indicator' = Put(indicator, key, price'[key]) /\ k = key
    <3>1. indicator'[k] = price'[k]
      BY <2>2 DEF Put
    <3> QED
      BY <1>3, <2>2, <3>1 DEF KeptEnds
  <2>3. CASE indicator' = Put(indicator, key, price'[key]) /\ k # key
    <3>1. k \in DOMAIN indicator /\ indicator'[k] = indicator[k]
      BY <2>3 DEF Put
    <3> QED
      BY <1>1, <3>1 DEF SeriesEndsWithValue
  <2> QED
    BY <1>5, <2>1, <2>2, <2>3
<1>7. SeriesEndsWithValue'
  BY <1>6 DEF SeriesEndsWithValue
<1>8. (KeptEnds /\ AnswersEnd /\ SeriesEndsWithValue)'
  BY <1>3, <1>4, <1>7
<1> QED
  BY <1>8 DEF SeriesInv, KeptEnds, AnswersEnd

(* An answer of a crypto source.                                            *)
LEMMA AskEnds ==
  ASSUME SeriesInv, IngestInv, NEW symbol \in CryptoSymbols, NEW source, NEW answers,
         Ask(symbol, source, answers),
         source \in {"coingecko", "gate"} =>
            \A answer \in answers : answer # None => EndsWithValue(symbol, answer)
  PROVE  SeriesInv'
<1>1. KeptEnds /\ AnswersEnd /\ SeriesEndsWithValue
  BY SeriesParts
<1>2. PICK answer \in answers : heard' = [heard EXCEPT ![symbol][source] = answer]
  BY DEF Ask
<1>3. UNCHANGED <<last_good, cmc, indicator, price>>
  BY DEF Ask, tables
<1>4. heard = [k \in CryptoSymbols |-> [s \in CryptoSources |-> heard[k][s]]]
  BY DEF IngestInv, AnswersInv
<1>5. ASSUME NEW k \in CryptoSymbols, NEW s \in {"coingecko", "gate"}, heard'[k][s] # None
      PROVE  EndsWithValue(k, heard'[k][s])
  <2>1. CASE k = symbol /\ s = source
    <3>1. heard'[k][s] = answer
      BY <1>2, <1>4, <2>1 DEF CryptoSources
    <3> QED
      BY <1>2, <1>5, <2>1, <3>1
  <2>2. CASE ~(k = symbol /\ s = source)
    <3>1. heard'[k][s] = heard[k][s]
      BY <1>2, <1>4, <2>2 DEF CryptoSources
    <3> QED
      BY <1>1, <1>5, <3>1 DEF AnswersEnd
  <2> QED
    BY <2>1, <2>2
<1>6. AnswersEnd'
  BY <1>1, <1>3, <1>5 DEF AnswersEnd
<1>7. KeptEnds' /\ SeriesEndsWithValue'
  BY <1>1, <1>3 DEF KeptEnds, SeriesEndsWithValue
<1> QED
  BY <1>6, <1>7 DEF SeriesInv, KeptEnds, AnswersEnd

LEMMA CryptoEnds ==
  ASSUME SeriesInv, IngestInv, AskCoinGecko \/ AskKifpool \/ AskGate
  PROVE  SeriesInv'
<1>1. ClockInv /\ TodoInv
  BY DEF IngestInv
<1>2. ASSUME NEW symbol \in CryptoSymbols
      PROVE  symbol # "TOTAL_MCAP"
  BY DEF CryptoSymbols
<1>3. CASE AskCoinGecko
  <2>1. Head(todo) \in CryptoSymbols /\ Ask(Head(todo), "coingecko", CoinGeckoAnswers)
    BY <1>3 DEF AskCoinGecko
  <2>2. \A answer \in CoinGeckoAnswers : answer # None => EndsWithValue(Head(todo), answer)
    BY <1>1, <1>2, <2>1, CoinGeckoQuotes
  <2> QED
    BY <2>1, <2>2, AskEnds
<1>4. CASE AskKifpool
  <2>1. PICK answers : Ask(todo[2], "kifpool", answers)
    BY <1>4 DEF AskKifpool
  <2>2. todo[2] \in CryptoSymbols
    BY <1>1, <1>4, AtSource DEF AskKifpool, CryptoSteps
  <2> QED
    BY <2>1, <2>2, AskEnds
<1>5. CASE AskGate
  <2>1. Ask(todo[2], "gate", GateAnswers)
    BY <1>5 DEF AskGate
  <2>2. todo[2] \in CryptoSymbols
    BY <1>1, <1>5, AtSource DEF AskGate, CryptoSteps
  <2>3. \A answer \in GateAnswers : answer # None => EndsWithValue(todo[2], answer)
    BY <1>1, <1>2, <2>2, GateQuotes
  <2> QED
    BY <2>1, <2>2, <2>3, AskEnds
<1> QED
  BY <1>3, <1>4, <1>5

LEMMA MergeEnds ==
  ASSUME SeriesInv, IngestInv, MergeCrypto
  PROVE  SeriesInv'
<1>1. KeptEnds /\ AnswersEnd /\ SeriesEndsWithValue
  BY SeriesParts
<1>2. PICK symbol : symbol = todo[2]
  OBVIOUS
<1>3. symbol \in CryptoSymbols
  BY <1>2, AtSource DEF MergeCrypto, CryptoSteps, IngestInv
<1>4. symbol \notin Serial
  BY <1>3 DEF CryptoSymbols, Serial
<1>5. PICK series : series = SelectIndicator(heard[symbol])
  OBVIOUS
<1>6. /\ indicator' = IF series # None THEN Put(indicator, symbol, series) ELSE indicator
      /\ IF Agreed(heard[symbol], ctx_now)
         THEN PublishLive(symbol, Aggregate(heard[symbol], ctx_now))
         ELSE PublishLastGood(symbol)
      /\ UNCHANGED <<heard, cmc>>
  BY <1>2, <1>5 DEF MergeCrypto
<1>7. KeptEnds'
  <2>1. CASE Agreed(heard[symbol], ctx_now)
    <3>1. PICK h : h = heard[symbol]
      OBVIOUS
    <3>2. DOMAIN h = CryptoSources /\ \A s \in CryptoSources : h[s] # None => IsLive(h[s])
      BY <1>3, <3>1 DEF IngestInv, AnswersInv, IsQuote
    <3>3. IsFiniteSet(CryptoSources)
      BY ThreeSources
    <3>4. ctx_now \in Int
      BY ClockIsNat DEF IngestInv
    <3>5. IsLive(Aggregate(h, ctx_now))
      BY <2>1, <3>1, <3>2, <3>3, <3>4, AggregateIsLive
    <3> QED
      BY <1>1, <1>4, <1>6, <2>1, <3>1, <3>5, LiveEnds
  <2>2. CASE ~Agreed(heard[symbol], ctx_now)
    BY <1>1, <1>6, <2>2, LastGoodEnds
  <2> QED
    BY <2>1, <2>2
<1>8. AnswersEnd'
  BY <1>1, <1>6 DEF AnswersEnd
<1>9. series # None => EndsWithValue(symbol, series)
  <2>1. series # None => series = heard[symbol]["gate"] \/ series = heard[symbol]["coingecko"]
    BY <1>5 DEF SelectIndicator
  <2> QED
    BY <1>1, <1>3, <2>1 DEF AnswersEnd
<1>10. ASSUME NEW k \in DOMAIN indicator' PROVE EndsWithValue(k, indicator'[k])
  <2>1. CASE indicator' = indicator
    BY <1>1, <2>1 DEF SeriesEndsWithValue
  <2>2. CASE series # None /\ indicator' = Put(indicator, symbol, series) /\ k = symbol
    <3>1. indicator'[k] = series
      BY <2>2 DEF Put
    <3> QED
      BY <1>9, <2>2, <3>1
  <2>3. CASE indicator' = Put(indicator, symbol, series) /\ k # symbol
    <3>1. k \in DOMAIN indicator /\ indicator'[k] = indicator[k]
      BY <2>3 DEF Put
    <3> QED
      BY <1>1, <3>1 DEF SeriesEndsWithValue
  <2> QED
    BY <1>6, <2>1, <2>2, <2>3
<1>11. SeriesEndsWithValue'
  BY <1>10 DEF SeriesEndsWithValue
<1> QED
  BY <1>7, <1>8, <1>11 DEF SeriesInv, KeptEnds, AnswersEnd

LEMMA CapEnds ==
  ASSUME SeriesInv, IngestInv, IngestInv', FetchCoinMarketCap
  PROVE  SeriesInv'
<1>1. KeptEnds /\ AnswersEnd /\ SeriesEndsWithValue
  BY SeriesParts
<1>2. PICK cap \in Prices, as_of \in Instants :
         \/ /\ samples' = RecordSample(samples, as_of, cap)
            /\ cmc' = EnrichTotalMcap(McapSnapshot(cap, as_of, ctx_now), ListRecent(samples'))
         \/ cmc' = McapSnapshot(cap, as_of, ctx_now)
         \/ cmc' = None
  BY DEF FetchCoinMarketCap
<1>3. UNCHANGED <<last_good, heard, indicator, price>>
  BY DEF FetchCoinMarketCap
<1>4. cap \in Nat \ {0} /\ as_of \in Int
  BY PricesAreEven, InstantsAreInt DEF IngestInv
<1>5. PICK live : live = McapSnapshot(cap, as_of, ctx_now)
  OBVIOUS
<1>6. IsLive(live) /\ live.as_of = as_of /\ live.value = cap
  BY <1>4, <1>5, McapIsLive
<1>7. live.source = "coinmarketcap" /\ live.closes = <<>> /\ live.dates = <<>>
  BY <1>5 DEF McapSnapshot, Snapshot
<1>8. CASE /\ samples' = RecordSample(samples, as_of, cap)
           /\ cmc' = EnrichTotalMcap(live, ListRecent(samples'))
  <2>1. PICK table : table = samples'
    OBVIOUS
  <2>2. as_of \in DOMAIN table /\ table[as_of] = cap
    BY <1>8, <2>1 DEF RecordSample, Put
  <2>3. DOMAIN table \in SUBSET Int /\ IsFiniteSet(DOMAIN table)
    BY <2>1 DEF IngestInv, SamplesInv
  <2>4. PICK listed : listed = ListRecent(table)
    OBVIOUS
  <2>5. DOMAIN listed \in SUBSET DOMAIN table /\ \A t \in DOMAIN listed : listed[t] = table[t]
    BY <2>3, <2>4, RecentIsLatest
  <2>6. \A t \in DOMAIN listed, u \in DOMAIN table : t <= u => u \in DOMAIN listed
    BY <2>3, <2>4, RecentIsLatest
  <2>7. DOMAIN listed \in SUBSET Int /\ IsFiniteSet(DOMAIN listed)
    BY <2>3, <2>5, FS_Subset
  <2>8. (\E t \in DOMAIN listed : t <= live.as_of)
           => live.as_of \in DOMAIN listed /\ listed[live.as_of] = live.value
    BY <1>6, <2>2, <2>5, <2>6
  <2>9. EndsWithValue("TOTAL_MCAP", EnrichTotalMcap(live, listed))
    BY <1>6, <1>7, <2>7, <2>8, EnrichedEnds
  <2>10. cmc' # None => EndsWithValue("TOTAL_MCAP", cmc')
    BY <1>8, <2>1, <2>4, <2>9
  <2> QED
    BY <1>1, <1>3, <2>10 DEF SeriesInv, KeptEnds, AnswersEnd, SeriesEndsWithValue
<1>9. CASE cmc' = live
  <2>1. Len(<<>>) = 0 /\ HistoryLimit \in Nat
    BY SourceSeriesAssumption
  <2>2. EndsWithValue("TOTAL_MCAP", live)
    BY <1>6, <1>7, <2>1 DEF EndsWithValue
  <2>3. cmc' # None => EndsWithValue("TOTAL_MCAP", cmc')
    BY <1>9, <2>2
  <2> QED
    BY <1>1, <1>3, <2>3 DEF SeriesInv, KeptEnds, AnswersEnd, SeriesEndsWithValue
<1>10. CASE cmc' = None
  BY <1>1, <1>3, <1>10 DEF SeriesInv, KeptEnds, AnswersEnd, SeriesEndsWithValue
<1> QED
  BY <1>2, <1>5, <1>8, <1>9, <1>10

LEMMA PublishedEnds ==
  ASSUME SeriesInv, IngestInv, FetchGold \/ FetchOil \/ FetchDollar \/ PublishTotalMcap
  PROVE  SeriesInv'
<1>1. ClockInv
  BY DEF IngestInv
<1>2. CASE FetchGold
  <2>1. PICK answer \in CoinGeckoAnswers : Publish("GOLD", answer)
    BY <1>2 DEF FetchGold
  <2>2. answer # None => IsLive(answer) /\ EndsWithValue("GOLD", answer)
    BY <1>1, CoinGeckoQuotes DEF IsQuote
  <2>3. "GOLD" \in Serial
    BY DEF Serial
  <2> QED
    BY <2>1, <2>2, <2>3, PublishEnds
<1>3. CASE FetchOil
  <2>1. PICK quote \in QuoteAnswers, rows \in HistoryAnswers :
           Publish("WTI", IF quote = None \/ rows = None THEN None
                          ELSE OilSnapshot(quote, rows, now))
    BY <1>3 DEF FetchOil
  <2>2. PICK s : s = IF quote = None \/ rows = None THEN None ELSE OilSnapshot(quote, rows, now)
    OBVIOUS
  <2>3. ASSUME s # None PROVE IsLive(s) /\ EndsWithValue("WTI", s)
    <3>1. quote # None /\ rows # None /\ s = OilSnapshot(quote, rows, now)
      BY <2>2, <2>3
    <3>2. quote.ts \in Int /\ quote.price \in Prices /\ quote.price \in Nat \ {0}
      BY <1>1, <3>1, InstantsAreInt, PricesAreEven DEF QuoteAnswers
    <3>3. PICK n \in Nat :
             /\ DOMAIN rows = 1..n
             /\ \A i \in 1..n : /\ rows[i].day \in Int /\ rows[i].close \in Nat
                                /\ rows[i].close > 0 => rows[i].close \in Prices
             /\ \A i, j \in 1..n : i < j => rows[j].day < rows[i].day
      BY <1>1, <3>1, HistoryFalls
    <3>4. PICK bars : bars = HistoryBars(rows)
      OBVIOUS
    <3>5. bars # None
      BY <2>3, <3>1, <3>4 DEF OilSnapshot
    <3>6. Daily(bars, Prices)
      BY <3>3, <3>4, <3>5, BarsAreDaily
    <3>7. EndsWithValue("WTI", s)
      BY <3>1, <3>2, <3>4, <3>5, <3>6, OilEnds
    <3>8. IsLive(s)
      <4>1. now \in Int
        BY <1>1, ClockIsNat
      <4> QED
        BY <2>3, <3>1, <3>2, <3>3, <4>1, OilIsLive
    <3> QED
      BY <3>7, <3>8
  <2>4. "WTI" \in Serial
    BY DEF Serial
  <2> QED
    BY <2>1, <2>2, <2>3, <2>4, PublishEnds
<1>4. CASE FetchDollar
  <2>1. PICK spot \in {KifpoolUsdSnapshot(p, now) : p \in Prices} \cup {None},
             quote \in QuoteAnswers, rows \in HistoryAnswers :
           Publish("USD_IRR", HybridUsdSnapshot(spot, quote, rows, ctx_now))
    BY <1>4 DEF FetchDollar
  <2>2. PICK s : s = HybridUsdSnapshot(spot, quote, rows, ctx_now)
    OBVIOUS
  <2>3. ASSUME s # None PROVE IsLive(s) /\ EndsWithValue("USD_IRR", s)
    <3>1. spot # None => IsLive(spot)
      BY <1>1, KifpoolQuotes
    <3>2. quote # None => quote.ts \in Int /\ quote.price \in Nat \ {0}
      BY <1>1, QuotesAreDated
    <3>3. IsLive(s)
      BY <2>2, <2>3, <3>1, <3>2, HybridUsdIsLive
    <3>4. EndsWithValue("USD_IRR", s)
      BY <1>1, <2>2, <2>3, DollarEnds
    <3> QED
      BY <3>3, <3>4
  <2>4. "USD_IRR" \in Serial
    BY DEF Serial
  <2> QED
    BY <2>1, <2>2, <2>3, <2>4, PublishEnds
<1>5. CASE PublishTotalMcap
  <2>1. Publish("TOTAL_MCAP", cmc) /\ "TOTAL_MCAP" \in Serial
    BY <1>5 DEF PublishTotalMcap, Serial
  <2>2. cmc # None => IsLive(cmc) /\ EndsWithValue("TOTAL_MCAP", cmc)
    BY DEF IngestInv, AnswersInv, SeriesInv
  <2> QED
    BY <2>1, <2>2, PublishEnds
<1> QED
  BY <1>2, <1>3, <1>4, <1>5

LEMMA FearGreedEnds ==
  ASSUME SeriesInv, IngestInv, FetchFearGreed
  PROVE  SeriesInv'
<1>1. KeptEnds /\ AnswersEnd /\ SeriesEndsWithValue
  BY SeriesParts
<1>2. PICK value \in Prices, t \in Instants :
         \/ PublishLive("FEAR_GREED", Snapshot("alternative_me", t, value, <<>>, <<>>))
         \/ PublishLastGood("FEAR_GREED")
  BY DEF FetchFearGreed
<1>3. IsLive(Snapshot("alternative_me", t, value, <<>>, <<>>))
  BY PricesAreEven, InstantsAreInt, SnapshotIsLive DEF IngestInv
<1>4. "FEAR_GREED" \notin Serial
  BY DEF Serial
<1>5. KeptEnds'
  BY <1>1, <1>2, <1>3, <1>4, LiveEnds, LastGoodEnds
<1>6. UNCHANGED <<heard, cmc, indicator>>
  BY DEF FetchFearGreed
<1>7. AnswersEnd' /\ SeriesEndsWithValue'
  BY <1>1, <1>6 DEF AnswersEnd, SeriesEndsWithValue
<1> QED
  BY <1>5, <1>7 DEF SeriesInv, KeptEnds, AnswersEnd

(* The bundle is empty: what the store kept is all there is.                *)
LEMMA EmptyEnds ==
  ASSUME SeriesInv, EmptyBundle, last_good' = last_good
  PROVE  SeriesInv'
<1>1. KeptEnds'
  BY DEF SeriesInv, KeptEnds, EmptyBundle
<1>2. AnswersEnd'
  BY DEF EmptyBundle, AnswersEnd, NothingHeard, CryptoSources
<1>3. SeriesEndsWithValue'
  BY DEF EmptyBundle, SeriesEndsWithValue
<1> QED
  BY <1>1, <1>2, <1>3 DEF SeriesInv, KeptEnds, AnswersEnd

LEMMA SeriesKept ==
  ASSUME SeriesInv, IngestInv, IngestInv', [Next]_vars
  PROVE  SeriesInv'
<1>1. CASE UNCHANGED <<last_good, heard, cmc, indicator, price>>
  BY <1>1 DEF SeriesInv, SeriesEndsWithValue
<1>2. CASE UNCHANGED vars \/ Tick \/ Finish
  BY <1>1, <1>2 DEF vars, tables, bundle, Tick, Finish
<1>3. CASE Begin \/ Crash
  BY <1>3, EmptyEnds DEF Begin, Crash, tables
<1>4. CASE FetchCoinMarketCap
  BY <1>4, CapEnds
<1>5. CASE AskCoinGecko \/ AskKifpool \/ AskGate
  BY <1>5, CryptoEnds
<1>6. CASE MergeCrypto
  BY <1>6, MergeEnds
<1>7. CASE FetchGold \/ FetchOil \/ FetchDollar \/ PublishTotalMcap
  BY <1>7, PublishedEnds
<1>8. CASE FetchFearGreed
  BY <1>8, FearGreedEnds
<1> QED
  BY <1>2, <1>3, <1>4, <1>5, <1>6, <1>7, <1>8 DEF Next

LEMMA SeriesInit ==
  ASSUME Init
  PROVE  SeriesInv
<1>1. DOMAIN last_good = {} /\ DOMAIN price = {} /\ DOMAIN indicator = {} /\ cmc = None
      /\ heard = NothingHeard
  BY DEF Init
<1> QED
  BY <1>1 DEF SeriesInv, SeriesEndsWithValue, NothingHeard, CryptoSources

(* A series published goes forward in time, is no longer than it may be and *)
(* ends with the value beside it: thinned charts, buckets of candles, bars  *)
(* merged with a quote of the day, and the samples of the capitalisation,   *)
(* live or read back.  downsample, merge_current_bar, enrich_total_mcap.    *)
THEOREM SeriesEnd == Spec => []SeriesEndsWithValue
<1>1. Init => SeriesInv
  BY SeriesInit
<1>2. SeriesInv /\ IngestInv /\ IngestInv' /\ [Next]_vars => SeriesInv'
  BY SeriesKept
<1>3. SeriesInv => SeriesEndsWithValue
  BY DEF SeriesInv
<1> QED
  BY <1>1, <1>2, <1>3, IngestionInvariant, PTL DEF Spec

=============================================================================
