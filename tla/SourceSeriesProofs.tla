------------------------- MODULE SourceSeriesProofs -------------------------
(***************************************************************************)
(* What the adapters and the median compute, for every answer, number of   *)
(* bars and sources: the lemmas that the proofs about an ingestion rest on.*)
(***************************************************************************)
EXTENDS SourceSeries, ListingProofs, SequenceTheorems

-----------------------------------------------------------------------------
(* The median. *)

(* The i-th smallest value is one of the values: at least i are no larger,  *)
(* and fewer than i are smaller.                                            *)
LEMMA RankedValue ==
  ASSUME NEW heard, NEW valid, IsFiniteSet(valid),
         \A s \in valid : heard[s].value \in Int,
         NEW i \in Nat, 1 <= i, i <= Cardinality(valid)
  PROVE  LET r == Ranked(heard, valid, i)
         IN  /\ \E s \in valid : heard[s].value = r
             /\ Cardinality({s \in valid : heard[s].value <= r}) >= i
             /\ Cardinality({s \in valid : heard[s].value < r}) < i
<1> DEFINE f == [s \in valid |-> heard[s].value]
           V == {heard[s].value : s \in valid}
           UpTo(v) == {s \in valid : heard[s].value <= v}
           Q == {v \in V : Cardinality(UpTo(v)) >= i}
           r == Ranked(heard, valid, i)
<1>1. V \in SUBSET Int
  OBVIOUS
<1>2. f \in Surjection(valid, V)
  BY DEF Surjection
<1>3. IsFiniteSet(V)
  <2> HIDE DEF f, V
  <2> QED
    BY <1>2, FS_Surjection
<1>4. Cardinality(valid) \in Nat /\ valid # {}
  BY FS_CardinalityType, FS_EmptySet
<1>5. V # {}
  BY <1>4
<1>6. PICK top \in V : \A v \in V : v <= top
  <2> HIDE DEF V
  <2> QED
    BY <1>1, <1>3, <1>5, Largest
<1>7. UpTo(top) = valid
  BY <1>6
<1>8. top \in Q
  BY <1>6, <1>7
<1>9. Q \in SUBSET Int /\ IsFiniteSet(Q) /\ Q # {}
  <2>1. Q \in SUBSET V
    OBVIOUS
  <2> HIDE DEF Q, V
  <2> QED
    BY <1>1, <1>3, <1>8, <2>1, FS_Subset
<1>10. r = Min(Q)
  BY DEF Ranked
<1>11. r \in Q /\ \A v \in Q : r <= v
  <2> HIDE DEF Q, r
  <2> QED
    BY <1>9, <1>10, MinIsSmallest
<1> DEFINE Less == {s \in valid : heard[s].value < r}
<1>12. Cardinality(Less) < i
  <2>1. IsFiniteSet(Less) /\ Cardinality(Less) \in Nat
    <3>1. Less \in SUBSET valid
      OBVIOUS
    <3> HIDE DEF Less
    <3> QED
      BY <3>1, FS_Subset, FS_CardinalityType
  <2>2. SUFFICES ASSUME Cardinality(Less) >= i PROVE FALSE
    BY <2>1
  <2> DEFINE W == {v \in V : v < r}
  <2>3. Less # {}
    <3> HIDE DEF Less
    <3>1. SUFFICES ASSUME Less = {} PROVE FALSE
      OBVIOUS
    <3>2. Cardinality(Less) = 0
      BY <3>1, FS_EmptySet
    <3> QED
      BY <2>2, <3>2
  <2>4. W # {}
    BY <2>3
  <2>5. W \in SUBSET Int /\ IsFiniteSet(W)
    <3>1. W \in SUBSET V
      OBVIOUS
    <3> HIDE DEF W, V
    <3> QED
      BY <1>1, <1>3, <3>1, FS_Subset
  <2>6. PICK w \in W : \A v \in W : v <= w
    <3> HIDE DEF W
    <3> QED
      BY <2>4, <2>5, Largest
  <2>7. r \in Int /\ w \in Int /\ w < r
    BY <1>9, <1>11, <2>5, <2>6
  <2>8. UpTo(w) = Less
    <3>1. ASSUME NEW s \in valid PROVE heard[s].value <= w <=> heard[s].value < r
      <4> DEFINE v == heard[s].value
      <4>1. v \in Int /\ v \in V
        OBVIOUS
      <4>2. v < r => v \in W
        BY <4>1
      <4>3. v < r => v <= w
        BY <2>6, <4>2
      <4>4. v <= w => v < r
        BY <2>7, <4>1
      <4> QED
        BY <4>3, <4>4
    <3> HIDE DEF r
    <3> QED
      BY <3>1
  <2>9. w \in Q
    <3>1. w \in V
      BY <2>6
    <3> QED
      BY <2>2, <2>8, <3>1
  <2>10. r <= w
    BY <1>11, <2>9
  <2> QED
    BY <2>7, <2>10
<1>13. \E s \in valid : heard[s].value = r
  BY <1>11
<1>14. Cardinality(UpTo(r)) >= i
  BY <1>11
<1> QED
  BY <1>12, <1>13, <1>14

(* The median: at least half of the values on either side, and half way     *)
(* between the two values of a pair.                                        *)
LEMMA MedianBetween ==
  ASSUME NEW heard, NEW valid, IsFiniteSet(valid), valid # {},
         \A s \in valid : heard[s].value \in Int
  PROVE  LET m == Median(heard, valid)
             n == Cardinality(valid)
         IN  /\ m \in Int
             /\ n \in Nat
             /\ (\A s \in valid : heard[s].value >= 1) => m >= 1
             /\ 2 * Cardinality({s \in valid : heard[s].value <= m}) >= n
             /\ 2 * Cardinality({s \in valid : heard[s].value >= m}) >= n
             /\ n = 2 => \A s, t \in valid :
                            s # t => m = (heard[s].value + heard[t].value) \div 2
<1>1. PICK n \in Nat : n = Cardinality(valid)
  BY FS_CardinalityType
<1>2. n >= 1
  BY <1>1, FS_EmptySet
<1>3. PICK i : i = (n + 1) \div 2
  OBVIOUS
<1>4. PICK j : j = n \div 2 + 1
  OBVIOUS
<1>5. /\ i \in Nat /\ 1 <= i /\ i <= n /\ 2 * i >= n
      /\ j \in Nat /\ 1 <= j /\ j <= n /\ 2 * (n - j + 1) >= n /\ i <= j
  BY <1>2, <1>3, <1>4
<1>6. PICK a : a = Ranked(heard, valid, i)
  OBVIOUS
<1>7. PICK b : b = Ranked(heard, valid, j)
  OBVIOUS
<1>8. PICK m : m = Median(heard, valid)
  OBVIOUS
<1>9. m = (a + b) \div 2
  BY <1>1, <1>3, <1>4, <1>6, <1>7, <1>8 DEF Median
<1> DEFINE UpTo(v) == {s \in valid : heard[s].value <= v}
           Under(v) == {s \in valid : heard[s].value < v}
           From(v) == {s \in valid : heard[s].value >= v}
<1>10. /\ \E s \in valid : heard[s].value = a
       /\ Cardinality(UpTo(a)) >= i
       /\ Cardinality(Under(a)) < i
  <2>1. i <= Cardinality(valid)
    BY <1>1, <1>5
  <2> QED
    BY <1>5, <1>6, <2>1, RankedValue
<1>11. /\ \E s \in valid : heard[s].value = b
       /\ Cardinality(UpTo(b)) >= j
       /\ Cardinality(Under(b)) < j
  <2>1. j <= Cardinality(valid)
    BY <1>1, <1>5
  <2> QED
    BY <1>5, <1>7, <2>1, RankedValue
<1>12. a \in Int /\ b \in Int
  BY <1>10, <1>11
<1>13. \A T \in SUBSET valid : IsFiniteSet(T) /\ Cardinality(T) \in Nat
  BY FS_Subset, FS_CardinalityType
<1>14. a <= b
  <2>1. SUFFICES ASSUME b < a PROVE FALSE
    BY <1>12
  <2>2. UpTo(b) \in SUBSET Under(a) /\ Under(a) \in SUBSET valid /\ UpTo(b) \in SUBSET valid
    BY <1>12, <2>1
  <2> HIDE DEF UpTo, Under
  <2>3. Cardinality(UpTo(b)) <= Cardinality(Under(a))
    BY <1>13, <2>2, FS_Subset
  <2>4. Cardinality(UpTo(b)) \in Nat /\ Cardinality(Under(a)) \in Nat
    BY <1>13, <2>2
  <2> QED
    BY <1>5, <1>10, <1>11, <2>3, <2>4
<1>15. m \in Int /\ a <= m /\ m <= b
  BY <1>9, <1>12, <1>14
<1>16. (\A s \in valid : heard[s].value >= 1) => m >= 1
  <2>1. PICK s \in valid : heard[s].value = a
    BY <1>10
  <2> QED
    BY <1>12, <1>15, <2>1
<1>17. 2 * Cardinality(UpTo(m)) >= n
  <2>1. UpTo(a) \in SUBSET UpTo(m) /\ UpTo(m) \in SUBSET valid /\ UpTo(a) \in SUBSET valid
    BY <1>12, <1>15
  <2> HIDE DEF UpTo
  <2>2. Cardinality(UpTo(a)) <= Cardinality(UpTo(m))
    BY <1>13, <2>1, FS_Subset
  <2>3. Cardinality(UpTo(a)) \in Nat /\ Cardinality(UpTo(m)) \in Nat
    BY <1>13, <2>1
  <2> QED
    BY <1>5, <1>10, <2>2, <2>3
<1>18. 2 * Cardinality(From(m)) >= n
  <2>1. valid \ Under(b) \in SUBSET From(m) /\ From(m) \in SUBSET valid
        /\ valid \cap Under(b) = Under(b) /\ Under(b) \in SUBSET valid
    BY <1>12, <1>15
  <2> HIDE DEF From, Under
  <2>2. Cardinality(valid \ Under(b)) = n - Cardinality(Under(b))
    BY <1>1, <2>1, FS_Difference
  <2>3. Cardinality(valid \ Under(b)) <= Cardinality(From(m))
    BY <1>13, <2>1, FS_Subset
  <2>4. /\ Cardinality(Under(b)) \in Nat /\ Cardinality(From(m)) \in Nat
        /\ Cardinality(valid \ Under(b)) \in Nat
    BY <1>13, <2>1
  <2> QED
    BY <1>5, <1>11, <2>2, <2>3, <2>4
<1>19. ASSUME n = 2, NEW s \in valid, NEW t \in valid, s # t
       PROVE  m = (heard[s].value + heard[t].value) \div 2
  <2>1. valid = {s, t}
    <3>1. IsFiniteSet({s} \cup {t}) /\ Cardinality({s} \cup {t}) = 2
      <4>1. IsFiniteSet({s}) /\ Cardinality({s}) = 1
        BY FS_Singleton
      <4>2. t \notin {s}
        BY <1>19
      <4>3. IsFiniteSet({s} \cup {t}) /\ Cardinality({s} \cup {t}) = Cardinality({s}) + 1
        BY <4>1, <4>2, FS_AddElement
      <4> QED
        BY <4>1, <4>3
    <3>2. {s} \cup {t} \in SUBSET valid
      OBVIOUS
    <3>3. valid = {s} \cup {t}
      BY <1>1, <1>19, <3>1, <3>2, FS_Subset
    <3> QED
      BY <3>3
  <2>2. i = 1 /\ j = 2
    BY <1>3, <1>4, <1>19
  <2>3. ASSUME NEW x \in valid PROVE a <= heard[x].value
    <3>1. Under(a) = {}
      <4>1. Under(a) \in SUBSET valid
        OBVIOUS
      <4> HIDE DEF Under
      <4>2. Cardinality(Under(a)) = 0
        BY <1>10, <1>13, <2>2, <4>1
      <4> QED
        BY <1>13, <4>1, <4>2, FS_EmptySet
    <3>2. ~(heard[x].value < a)
      BY <3>1
    <3> QED
      BY <1>12, <3>2
  <2>4. ASSUME NEW x \in valid PROVE heard[x].value <= b
    <3>1. UpTo(b) = valid
      <4>1. UpTo(b) \in SUBSET valid
        OBVIOUS
      <4> HIDE DEF UpTo
      <4>2. Cardinality(UpTo(b)) = n
        <5>1. Cardinality(UpTo(b)) <= n /\ Cardinality(UpTo(b)) \in Nat
          BY <1>1, <1>13, <4>1, FS_Subset
        <5> QED
          BY <1>11, <1>19, <2>2, <5>1
      <4> QED
        BY <1>1, <4>1, <4>2, FS_Subset
    <3> QED
      BY <3>1
  <2>5. a + b = heard[s].value + heard[t].value
    <3>1. heard[s].value \in Int /\ heard[t].value \in Int
      OBVIOUS
    <3>2. a = heard[s].value \/ a = heard[t].value
      BY <1>10, <2>1
    <3>3. b = heard[s].value \/ b = heard[t].value
      BY <1>11, <2>1
    <3>4. a <= heard[s].value /\ a <= heard[t].value
      BY <2>3
    <3>5. heard[s].value <= b /\ heard[t].value <= b
      BY <2>4
    <3> QED
      BY <3>1, <3>2, <3>3, <3>4, <3>5
  <2> QED
    BY <1>9, <2>5
<1> QED
  BY <1>1, <1>8, <1>15, <1>16, <1>17, <1>18, <1>19

-----------------------------------------------------------------------------
(* Snapshots. *)

(* A snapshot as a source gives it: dated, with a positive price, and never *)
(* marked as read from the store.                                           *)
IsLive(s) ==
    /\ DOMAIN s = {"source", "as_of", "value", "reason", "closes", "dates", "flags", "changes"}
    /\ s.as_of \in Int
    /\ s.value \in Nat \ {0}
    /\ s.reason \in {"fresh", "aged"}

LEMMA SnapshotIsLive ==
  ASSUME NEW source, NEW as_of \in Int, NEW value \in Nat \ {0}, NEW closes, NEW dates
  PROVE  LET s == Snapshot(source, as_of, value, closes, dates)
         IN  IsLive(s) /\ s.reason = "fresh" /\ s.as_of = as_of /\ s.value = value
BY DEF IsLive, Snapshot

LEMMA AgeIsLive ==
  ASSUME NEW s, IsLive(s), NEW age, NEW limit
  PROVE  LET t == [s EXCEPT !.reason = Age(age, limit)]
         IN  IsLive(t) /\ t.as_of = s.as_of /\ t.value = s.value
BY DEF IsLive, Age

(* A product divided by one of its factors.                                 *)
LEMMA ExactDivision ==
  ASSUME NEW m \in Int, NEW b \in Nat \ {0}
  PROVE  (m * b) \div b = m /\ (m * b) % b = 0
<1> DEFINE q == (m * b) \div b
           r == (m * b) % b
<1>1. q \in Int /\ r \in 0..(b - 1) /\ m * b = b * q + r
  OBVIOUS
<1> HIDE DEF q, r
<1>2. CASE m > q
  <2>1. PICK d \in Nat : d > 0 /\ m = q + d
    BY <1>1, <1>2
  <2>2. m * b = q * b + d * b
    BY <1>1, <2>1
  <2>3. d * b = r
    BY <1>1, <2>2
  <2>4. d * b >= b
    BY <2>1
  <2> QED
    BY <1>1, <2>3, <2>4
<1>3. CASE m < q
  <2>1. PICK d \in Nat : d > 0 /\ q = m + d
    BY <1>1, <1>3
  <2>2. b * q = m * b + d * b
    BY <1>1, <2>1
  <2>3. d * b + r = 0
    BY <1>1, <2>1, <2>2
  <2>4. d * b >= b
    BY <2>1
  <2> QED
    BY <1>1, <2>1, <2>3, <2>4
<1>4. CASE m = q
  <2>1. m * b = b * q
    BY <1>1, <1>4
  <2>2. r = 0
    BY <1>1, <2>1
  <2> QED
    BY <1>4, <2>2 DEF q, r
<1> QED
  BY <1>1, <1>2, <1>3, <1>4

(* The thinned chart ends with the last price of the chart.                 *)
LEMMA ThinnedEndsWithLast ==
  ASSUME NEW n \in Nat \ {0}, NEW prices, DOMAIN prices = 1..n, Len(prices) = n,
         NEW k \in Nat \ {0}
  PROVE  Last(Downsample(prices, k)) = prices[n]
<1>1. CASE n <= k
  BY <1>1 DEF Downsample, Last
<1>2. CASE n > k /\ k = 1
  <2>1. Downsample(prices, k) = <<prices[n]>>
    BY <1>2 DEF Downsample, Last
  <2> QED
    BY <2>1 DEF Last
<1>3. CASE n > k /\ k # 1
  <2>1. PICK b \in Nat \ {0} : b = k - 1
    BY <1>3
  <2>2. PICK m \in Nat : m = n - 1
    OBVIOUS
  <2>3. Rounded(m * b, b) = m
    <3>1. (m * b) \div b = m /\ (m * b) % b = 0
      BY ExactDivision
    <3> QED
      BY <3>1 DEF Rounded
  <2>4. Rounded((k - 1) * (n - 1), k - 1) = n - 1
    <3>1. (k - 1) * (n - 1) = m * b
      BY <2>1, <2>2
    <3> QED
      BY <2>1, <2>2, <2>3, <3>1
  <2> DEFINE thin == [i \in 1..k |-> prices[Rounded((i - 1) * (Len(prices) - 1), k - 1) + 1]]
  <2>5. Downsample(prices, k) = thin
    BY <1>3 DEF Downsample
  <2>6. Len(thin) = k
    OBVIOUS
  <2>7. thin[k] = prices[(n - 1) + 1]
    BY <2>4
  <2> QED
    BY <2>5, <2>6, <2>7 DEF Last
<1> QED
  BY <1>1, <1>2, <1>3

(* Rounding a quotient moves it by a half at most.                          *)
LEMMA RoundedNear ==
  ASSUME NEW a \in Nat, NEW b \in Nat \ {0}, NEW x, x = b * Rounded(a, b)
  PROVE  /\ Rounded(a, b) \in Nat /\ x \in Int
         /\ 2 * a - b <= 2 * x /\ 2 * x <= 2 * a + b
<1>1. PICK q \in Nat, r \in 0..(b - 1) : q = a \div b /\ r = a % b /\ a = b * q + r
  <2> DEFINE d == a \div b
             m == a % b
  <2>1. d \in Int /\ m \in 0..(b - 1) /\ a = b * d + m
    OBVIOUS
  <2>2. d \in Nat
    OBVIOUS
  <2> HIDE DEF d, m
  <2> QED
    BY <2>1, <2>2 DEF d, m
<1>2. PICK y \in Int : y = b * q
  OBVIOUS
<1>3. Rounded(a, b) = IF 2 * r < b \/ (2 * r = b /\ q % 2 = 0) THEN q ELSE q + 1
  BY <1>1 DEF Rounded
<1>4. CASE 2 * r <= b /\ Rounded(a, b) = q
  <2>1. x = y
    BY <1>2, <1>4
  <2> QED
    BY <1>1, <1>2, <1>4, <2>1
<1>5. CASE 2 * r >= b /\ Rounded(a, b) = q + 1
  <2>1. x = y + b
    BY <1>2, <1>5
  <2> QED
    BY <1>1, <1>2, <1>5, <2>1
<1> QED
  BY <1>1, <1>3, <1>4, <1>5

LEMMA ProductGrows ==
  ASSUME NEW b \in Nat, NEW q \in Int, NEW r \in Int, q <= r
  PROVE  b * q <= b * r
<1>1. PICK d \in Nat : r = q + d
  OBVIOUS
<1>2. b * r = b * q + b * d /\ b * d \in Nat /\ b * q \in Int
  BY <1>1
<1> QED
  BY <1>2

(* Quotients more than one apart are not rounded to the same number.        *)
LEMMA RoundedApart ==
  ASSUME NEW a \in Nat, NEW c \in Nat, NEW b \in Nat \ {0}, c > a + b
  PROVE  Rounded(a, b) < Rounded(c, b)
<1>1. PICK q, x : q = Rounded(a, b) /\ x = b * q
  OBVIOUS
<1>2. PICK r, y : r = Rounded(c, b) /\ y = b * r
  OBVIOUS
<1>3. q \in Nat /\ x \in Int /\ 2 * x <= 2 * a + b
  BY <1>1, RoundedNear
<1>4. r \in Nat /\ y \in Int /\ 2 * c - b <= 2 * y
  BY <1>2, RoundedNear
<1>5. x < y
  BY <1>3, <1>4
<1>6. ~(r <= q)
  <2>1. r <= q => y <= x
    BY <1>1, <1>2, <1>3, <1>4, ProductGrows
  <2> QED
    BY <1>3, <1>4, <1>5, <2>1
<1> QED
  BY <1>1, <1>2, <1>3, <1>4, <1>6

(* The thinned chart keeps its order, has no more points than it may, and   *)
(* ends with the last price of the chart.                                   *)
LEMMA ThinnedClimbs ==
  ASSUME NEW n \in Nat \ {0}, NEW prices, DOMAIN prices = 1..n, Len(prices) = n,
         \A i \in 1..n : prices[i] \in Int,
         \A i, j \in 1..n : i < j => prices[i] < prices[j],
         NEW k \in Nat \ {0}
  PROVE  LET thin == Downsample(prices, k)
         IN  /\ Len(thin) \in 1..k
             /\ \A i \in 1..(Len(thin) - 1) : thin[i] < thin[i + 1]
             /\ Last(thin) = prices[n]
<1>1. PICK thin : thin = Downsample(prices, k)
  OBVIOUS
<1>2. Last(thin) = prices[n]
  BY <1>1, ThinnedEndsWithLast
<1>3. CASE n <= k
  <2>1. thin = prices
    BY <1>1, <1>3 DEF Downsample
  <2>2. \A i \in 1..(n - 1) : i \in 1..n /\ i + 1 \in 1..n /\ i < i + 1
    OBVIOUS
  <2> QED
    BY <1>1, <1>2, <1>3, <2>1, <2>2
<1>4. CASE n > k /\ k = 1
  <2>1. thin = <<Last(prices)>>
    BY <1>1, <1>4 DEF Downsample
  <2>2. Len(thin) = 1
    BY <2>1
  <2> QED
    BY <1>1, <1>2, <1>4, <2>2
<1>5. CASE n > k /\ k # 1
  <2>1. PICK b \in Nat \ {0} : b = k - 1
    BY <1>5
  <2>2. PICK m \in Nat : m = n - 1 /\ m > b
    BY <1>5, <2>1
  <2>3. thin = [i \in 1..k |-> prices[Rounded((i - 1) * m, b) + 1]]
    BY <1>1, <1>5, <2>1, <2>2 DEF Downsample
  <2>4. Len(thin) = k
    BY <2>3
  <2>5. ASSUME NEW i \in 1..k
        PROVE  (i - 1) * m \in Nat /\ Rounded((i - 1) * m, b) \in 0..m
    <3>1. PICK h \in Nat : h = i - 1 /\ h <= b
      BY <2>1
    <3>2. PICK a \in Nat : a = h * m /\ a = m * h
      OBVIOUS
    <3>3. PICK z \in Nat : z = m * b /\ z = b * m
      OBVIOUS
    <3>4. a <= z
      BY <3>1, <3>2, <3>3, ProductGrows
    <3>5. PICK q, x : q = Rounded(a, b) /\ x = b * q
      OBVIOUS
    <3>6. q \in Nat /\ x \in Int /\ 2 * x <= 2 * a + b
      BY <3>5, RoundedNear
    <3>7. PICK u \in Nat : u = m + 1 /\ b * u = z + b
      BY <3>3
    <3>8. ~(u <= q)
      <4>1. ASSUME u <= q PROVE FALSE
        <5>1. b * u <= b * q
          BY <3>6, <4>1, ProductGrows
        <5> QED
          BY <3>3, <3>4, <3>5, <3>6, <3>7, <5>1
      <4> QED
        BY <4>1
    <3> QED
      BY <3>1, <3>2, <3>5, <3>6, <3>7, <3>8
  <2>6. ASSUME NEW i \in 1..(k - 1) PROVE thin[i] < thin[i + 1]
    <3>1. i \in 1..k /\ i + 1 \in 1..k
      OBVIOUS
    <3>2. PICK a \in Nat : a = (i - 1) * m
      BY <2>5, <3>1
    <3>3. PICK c \in Nat : c = (i + 1 - 1) * m /\ c = a + m
      BY <3>2
    <3>4. Rounded(a, b) < Rounded(c, b)
      BY <2>2, <3>3, RoundedApart
    <3>5. Rounded(a, b) \in 0..m /\ Rounded(c, b) \in 0..m
      <4>1. Rounded(a, b) \in 0..m
        BY <2>5, <3>1, <3>2
      <4>2. PICK j \in 1..k : j = i + 1
        BY <3>1
      <4>3. Rounded((j - 1) * m, b) \in 0..m
        BY <2>5
      <4> QED
        BY <3>3, <4>1, <4>2, <4>3
    <3>6. PICK v \in 1..n, w \in 1..n : v = Rounded(a, b) + 1 /\ w = Rounded(c, b) + 1 /\ v < w
      BY <2>2, <3>4, <3>5
    <3>7. thin[i] = prices[v] /\ thin[i + 1] = prices[w]
      BY <2>3, <3>1, <3>2, <3>3, <3>6
    <3> QED
      BY <3>6, <3>7
  <2> QED
    BY <1>1, <1>2, <2>4, <2>6
<1> QED
  BY <1>3, <1>4, <1>5

(* The last elements of a sequence.                                         *)
Dropped(s, n) == IF Len(s) <= n THEN 0 ELSE Len(s) - n

LEMMA KeptSuffix ==
  ASSUME NEW S, NEW s \in Seq(S), NEW n \in Nat
  PROVE  /\ Dropped(s, n) \in 0..Len(s)
         /\ Keep(s, n) \in Seq(S)
         /\ Len(Keep(s, n)) = Len(s) - Dropped(s, n)
         /\ \A i \in 1..(Len(s) - Dropped(s, n)) : Keep(s, n)[i] = s[Dropped(s, n) + i]
<1>1. PICK l \in Nat : l = Len(s)
  OBVIOUS
<1>2. PICK k : k = Keep(s, n)
  OBVIOUS
<1> DEFINE Suffix(d) == /\ k \in Seq(S)
                        /\ Len(k) = l - d
                        /\ d = Dropped(s, n)
                        /\ \A i \in 1..(l - d) : k[i] = s[d + i]
<1>3. CASE l <= n
  <2>1. k = s
    BY <1>1, <1>2, <1>3 DEF Keep
  <2>2. Suffix(0)
    BY <1>1, <1>3, <2>1 DEF Dropped
  <2> QED
    BY <1>1, <1>2, <2>2
<1>4. CASE l > n
  <2>1. k = SubSeq(s, l - n + 1, l)
    BY <1>1, <1>2, <1>4 DEF Keep
  <2>2. PICK d \in 0..l : d = l - n
    BY <1>4
  <2>3. l - d = n /\ d + 1 = l - n + 1
    BY <2>2
  <2>4. Len(k) = n
    BY <1>1, <1>4, <2>1
  <2>5. k \in Seq(S)
    <3>1. \A i \in (l - n + 1)..l : s[i] \in S
      BY <1>1, <1>4
    <3> QED
      BY <1>1, <1>4, <2>1, <3>1, SubSeqProperties
  <2>6. ASSUME NEW i \in 1..n PROVE k[i] = s[d + i]
    BY <1>1, <1>4, <2>1, <2>2
  <2>7. Suffix(d)
    BY <1>1, <1>4, <2>2, <2>3, <2>4, <2>5, <2>6 DEF Dropped
  <2> QED
    BY <1>1, <1>2, <2>2, <2>7
<1> QED
  BY <1>3, <1>4

(* What is kept of a climbing sequence climbs, and ends as it ended.        *)
LEMMA KeptClimbs ==
  ASSUME NEW S \in SUBSET Int, NEW s \in Seq(S), NEW n \in Nat,
         \A i, j \in 1..Len(s) : i < j => s[i] < s[j],
         NEW k, k = Keep(s, n)
  PROVE  /\ k \in Seq(S) /\ Len(k) \in Nat
         /\ Len(s) <= n => Len(k) = Len(s)
         /\ Len(s) > n => Len(k) = n
         /\ \A i, j \in 1..Len(k) : i < j => k[i] < k[j]
         /\ Len(k) > 0 => k[Len(k)] = s[Len(s)]
<1>1. PICK l \in Nat : l = Len(s)
  OBVIOUS
<1>2. PICK d : d = Dropped(s, n)
  OBVIOUS
<1>3. d = IF l <= n THEN 0 ELSE l - n
  BY <1>1, <1>2 DEF Dropped
<1>4. d \in 0..l
  BY <1>3
<1>5. k \in Seq(S)
  BY KeptSuffix
<1>6. Len(k) = l - d
  BY <1>1, <1>2, KeptSuffix
<1>7. \A i \in 1..(l - d) : k[i] = s[d + i]
  BY <1>1, <1>2, KeptSuffix
<1>8. ASSUME NEW i \in 1..Len(k), NEW j \in 1..Len(k), i < j PROVE k[i] < k[j]
  <2>1. PICK v \in 1..l, w \in 1..l : v = d + i /\ w = d + j /\ v < w
    BY <1>4, <1>6, <1>8
  <2>2. k[i] = s[v] /\ k[j] = s[w]
    BY <1>6, <1>7, <2>1
  <2> QED
    BY <1>1, <2>1, <2>2
<1>9. ASSUME Len(k) > 0 PROVE k[Len(k)] = s[Len(s)]
  <2>1. PICK i \in 1..(l - d) : i = l - d
    BY <1>4, <1>6, <1>9
  <2>2. k[i] = s[d + i] /\ d + i = l
    BY <1>4, <1>7, <2>1
  <2> QED
    BY <1>1, <1>6, <2>1, <2>2
<1> QED
  BY <1>1, <1>3, <1>4, <1>5, <1>6, <1>8, <1>9

(* The bars of a history are of its rows with a price.                      *)
LEMMA BarsAreRows ==
  ASSUME NEW n \in Nat, NEW rows, DOMAIN rows = 1..n,
         \A i \in 1..n : rows[i].day \in Int /\ rows[i].close \in Nat,
         HistoryBars(rows) # None
  PROVE  /\ Len(HistoryBars(rows)) = TargetBars
         /\ \A i \in 1..TargetBars : /\ HistoryBars(rows)[i].day \in Int
                                     /\ HistoryBars(rows)[i].close \in Nat \ {0}
<1> DEFINE P == {i \in DOMAIN rows : rows[i].close > 0}
           bars == [i \in 1..TargetBars |-> rows[Ascending(P)[TargetBars + 1 - i]]]
<1>1. TargetBars \in Nat
  BY SourceSeriesAssumption
<1>2. P \in SUBSET (1..n) /\ P \in SUBSET Int
  OBVIOUS
<1>3. IsFiniteSet(P)
  <2>1. IsFiniteSet(1..n)
    BY FS_Interval
  <2> HIDE DEF P
  <2> QED
    BY <1>2, <2>1, FS_Subset
<1>4. /\ Cardinality(P) \in Nat
      /\ Ascending(P) \in [1..Cardinality(P) -> P]
      /\ Len(Ascending(P)) = Cardinality(P)
  <2> HIDE DEF P
  <2> QED
    BY <1>2, <1>3, AscendingSet
<1>5. ~(Len(Ascending(P)) < TargetBars) /\ HistoryBars(rows) = bars
  <2> HIDE DEF bars
  <2>1. HistoryBars(rows) = IF Len(Ascending(P)) < TargetBars THEN None ELSE bars
    BY DEF HistoryBars, bars
  <2> QED
    BY <2>1
<1>6. ASSUME NEW i \in 1..TargetBars
      PROVE  bars[i].day \in Int /\ bars[i].close \in Nat \ {0}
  <2>1. TargetBars + 1 - i \in 1..Cardinality(P)
    BY <1>1, <1>4, <1>5
  <2>2. PICK j \in P : j = Ascending(P)[TargetBars + 1 - i]
    BY <1>4, <2>1
  <2>3. bars[i] = rows[j]
    BY <2>2
  <2> QED
    BY <2>2, <2>3
<1>7. Len(bars) = TargetBars
  BY <1>1
<1> QED
  BY <1>5, <1>6, <1>7

(* The bars of a daily history: one for each day, the days in order.        *)
Daily(bars, P) ==
    /\ bars \in Seq(Range(bars)) /\ Len(bars) = TargetBars
    /\ \A i \in 1..TargetBars : bars[i].day \in Int /\ bars[i].close \in P
    /\ \A i, j \in 1..TargetBars : i < j => bars[i].day < bars[j].day

(* The bars of a history whose rows go back in time are daily.              *)
LEMMA BarsAreDaily ==
  ASSUME NEW n \in Nat, NEW rows, DOMAIN rows = 1..n, NEW P,
         \A i \in 1..n : /\ rows[i].day \in Int /\ rows[i].close \in Nat
                         /\ rows[i].close > 0 => rows[i].close \in P,
         \A i, j \in 1..n : i < j => rows[j].day < rows[i].day,
         HistoryBars(rows) # None
  PROVE  Daily(HistoryBars(rows), P)
<1>1. PICK k \in Nat \ {0} : k = TargetBars
  BY SourceSeriesAssumption
<1>2. PICK V : V = {i \in DOMAIN rows : rows[i].close > 0}
  OBVIOUS
<1>3. V \in SUBSET (1..n) /\ V \in SUBSET Int
  BY <1>2
<1>4. IsFiniteSet(V)
  <2>1. IsFiniteSet(1..n)
    BY FS_Interval
  <2> QED
    BY <1>3, <2>1, FS_Subset
<1>5. PICK m \in Nat : m = Cardinality(V)
  BY <1>4, FS_CardinalityType
<1>6. PICK valid : valid = Ascending(V)
  OBVIOUS
<1>7. /\ valid \in [1..m -> V] /\ Len(valid) = m
      /\ \A i, j \in 1..m : i < j => valid[i] < valid[j]
  BY <1>3, <1>4, <1>5, <1>6, AscendingSet
<1>8. PICK bars : bars = [i \in 1..k |-> rows[valid[k + 1 - i]]]
  OBVIOUS
<1>9. ~(m < k) /\ HistoryBars(rows) = bars
  <2>1. HistoryBars(rows) = IF m < k THEN None ELSE bars
    BY <1>1, <1>2, <1>6, <1>7, <1>8 DEF HistoryBars
  <2> QED
    BY <2>1
<1>10. ASSUME NEW i \in 1..k
       PROVE  \E v \in 1..n : /\ v = valid[k + 1 - i] /\ bars[i] = rows[v]
                              /\ rows[v].day \in Int /\ rows[v].close \in P
  <2>1. PICK h \in 1..m : h = k + 1 - i
    BY <1>9
  <2>2. PICK v \in V : v = valid[h]
    BY <1>7
  <2>3. v \in 1..n /\ rows[v].close > 0
    BY <1>2, <1>3
  <2>4. bars[i] = rows[v]
    BY <1>8, <2>1, <2>2
  <2> QED
    BY <2>1, <2>2, <2>3, <2>4
<1>11. ASSUME NEW i \in 1..k, NEW j \in 1..k, i < j PROVE bars[i].day < bars[j].day
  <2>1. PICK v \in 1..n : v = valid[k + 1 - i] /\ bars[i] = rows[v]
    BY <1>10
  <2>2. PICK w \in 1..n : w = valid[k + 1 - j] /\ bars[j] = rows[w]
    BY <1>10
  <2>3. PICK g \in 1..m, h \in 1..m : g = k + 1 - i /\ h = k + 1 - j /\ h < g
    BY <1>9, <1>11
  <2>4. w < v
    BY <1>7, <2>1, <2>2, <2>3
  <2> QED
    BY <2>1, <2>2, <2>4
<1>12. DOMAIN bars = 1..k /\ Len(bars) = k
  BY <1>8
<1>13. bars \in Seq(Range(bars))
  <2>1. bars \in [1..k -> Range(bars)]
    BY <1>8, <1>12 DEF Range
  <2> QED
    BY <2>1
<1>14. \A i \in 1..k : bars[i].day \in Int /\ bars[i].close \in P
  BY <1>10
<1> QED
  BY <1>1, <1>9, <1>11, <1>12, <1>13, <1>14 DEF Daily

(* A bar of the last day or a later one joins them: the day is there once,  *)
(* and the new bar is the last.                                             *)
LEMMA MergedIsDaily ==
  ASSUME NEW P, NEW bars, Daily(bars, P),
         NEW bar, bar.day \in Int, bar.close \in P, Last(bars).day <= bar.day
  PROVE  LET m == MergeCurrent(bars, bar)
         IN  Daily(m, P) /\ Last(m) = bar
<1>1. PICK k \in Nat \ {0} : k = TargetBars
  BY SourceSeriesAssumption
<1>2. PICK S : S = Range(bars) \cup {bar}
  OBVIOUS
<1>3. /\ bars \in Seq(S) /\ Len(bars) = k
      /\ \A i \in 1..k : bars[i].day \in Int /\ bars[i].close \in P
      /\ \A i, j \in 1..k : i < j => bars[i].day < bars[j].day
  BY <1>1, <1>2 DEF Daily
<1>4. Last(bars) = bars[k]
  BY <1>3 DEF Last
<1>5. PICK m : m = MergeCurrent(bars, bar)
  OBVIOUS
<1>6. \E d \in {0, 1} : /\ m \in Seq(S) /\ Len(m) = k /\ m[k] = bar
                        /\ \A i \in 1..(k - 1) : m[i] = bars[d + i]
                        /\ d = 0 => bars[k].day = bar.day
                        /\ d = 1 => bars[k].day < bar.day
  <2>1. CASE bars[k].day = bar.day
    <3>1. PICK f : f = SubSeq(bars, 1, k - 1)
      OBVIOUS
    <3>2. m = Append(f, bar)
      BY <1>3, <1>4, <1>5, <2>1, <3>1 DEF MergeCurrent, Front
    <3>3. f \in Seq(S) /\ Len(f) = k - 1 /\ \A i \in 1..(k - 1) : f[i] = bars[i]
      BY <1>3, <3>1
    <3>4. m \in Seq(S) /\ Len(m) = k /\ m[k] = bar
      BY <1>2, <3>2, <3>3
    <3>5. \A i \in 1..(k - 1) : m[i] = bars[0 + i]
      BY <3>2, <3>3
    <3> QED
      BY <2>1, <3>4, <3>5
  <2>2. CASE bars[k].day # bar.day
    <3>1. PICK a : a = Append(bars, bar)
      OBVIOUS
    <3>2. m = Keep(a, k)
      BY <1>1, <1>4, <1>5, <2>2, <3>1 DEF MergeCurrent
    <3>3. a \in Seq(S) /\ Len(a) = k + 1 /\ a[k + 1] = bar /\ \A i \in 1..k : a[i] = bars[i]
      BY <1>2, <1>3, <3>1
    <3>4. Dropped(a, k) = 1
      BY <3>3 DEF Dropped
    <3>5. m \in Seq(S)
      BY <3>2, <3>3, KeptSuffix
    <3>6. Len(m) = k
      <4>1. Len(m) = Len(a) - Dropped(a, k)
        BY <3>2, <3>3, KeptSuffix
      <4> QED
        BY <3>3, <3>4, <4>1
    <3>7. ASSUME NEW i \in 1..k PROVE m[i] = a[1 + i]
      <4>1. \A h \in 1..(Len(a) - Dropped(a, k)) : m[h] = a[Dropped(a, k) + h]
        BY <3>2, <3>3, KeptSuffix
      <4>2. Len(a) - Dropped(a, k) = k
        BY <3>3, <3>4
      <4> QED
        BY <3>4, <4>1, <4>2
    <3>8. m[k] = bar /\ \A i \in 1..(k - 1) : m[i] = bars[1 + i]
      BY <3>3, <3>7
    <3>9. bars[k].day < bar.day
      BY <1>3, <1>4, <2>2
    <3> QED
      BY <3>5, <3>6, <3>8, <3>9
  <2> QED
    BY <2>1, <2>2
<1>7. PICK d \in {0, 1} : /\ m \in Seq(S) /\ Len(m) = k /\ m[k] = bar
                          /\ \A i \in 1..(k - 1) : m[i] = bars[d + i]
                          /\ d = 0 => bars[k].day = bar.day
                          /\ d = 1 => bars[k].day < bar.day
  BY <1>6
<1>8. ASSUME NEW i \in 1..(k - 1)
      PROVE  \E h \in 1..k : h = d + i /\ m[i] = bars[h]
  <2>1. PICK h \in 1..k : h = d + i
    OBVIOUS
  <2>2. m[i] = bars[d + i]
    BY <1>7
  <2> QED
    BY <2>1, <2>2
<1>9. ASSUME NEW i \in 1..k PROVE m[i].day \in Int /\ m[i].close \in P
  <2>1. CASE i = k
    BY <1>7, <2>1
  <2>2. CASE i # k
    <3>1. i \in 1..(k - 1)
      BY <2>2
    <3> QED
      BY <1>3, <1>8, <3>1
  <2> QED
    BY <2>1, <2>2
<1>10. ASSUME NEW i \in 1..k, NEW j \in 1..k, i < j PROVE m[i].day < m[j].day
  <2>1. i \in 1..(k - 1)
    BY <1>10
  <2>2. PICK h \in 1..k : h = d + i /\ m[i] = bars[h]
    BY <1>8, <2>1
  <2>3. CASE j = k
    <3>1. m[j] = bar
      BY <1>7, <2>3
    <3>2. CASE h = k
      <4>1. d = 1
        BY <2>1, <2>2, <3>2
      <4> QED
        BY <1>7, <2>2, <3>1, <3>2, <4>1
    <3>3. CASE h # k
      <4>1. PICK e \in Int, l \in Int : e = bars[h].day /\ l = bars[k].day
        BY <1>3
      <4>2. e < l
        BY <1>3, <3>3, <4>1
      <4>3. l <= bar.day
        BY <1>4, <4>1
      <4> QED
        BY <2>2, <3>1, <4>1, <4>2, <4>3
    <3> QED
      BY <3>2, <3>3
  <2>4. CASE j # k
    <3>1. j \in 1..(k - 1)
      BY <2>4
    <3>2. PICK l \in 1..k : l = d + j /\ m[j] = bars[l]
      BY <1>8, <3>1
    <3>3. h < l
      BY <1>10, <2>2, <3>2
    <3> QED
      BY <1>3, <2>2, <3>2, <3>3
  <2> QED
    BY <2>3, <2>4
<1>11. m \in Seq(Range(m))
  <2>1. DOMAIN m = 1..k /\ m = [i \in 1..k |-> m[i]]
    BY <1>7
  <2>2. m \in [1..k -> Range(m)]
    BY <2>1 DEF Range
  <2> QED
    BY <2>2
<1>12. Last(m) = bar
  BY <1>7 DEF Last
<1> QED
  BY <1>1, <1>5, <1>7, <1>9, <1>10, <1>11, <1>12 DEF Daily

LEMMA OilIsLive ==
  ASSUME NEW n \in Nat, NEW rows, DOMAIN rows = 1..n,
         \A i \in 1..n : rows[i].day \in Int /\ rows[i].close \in Nat,
         NEW quote, quote.ts \in Int, quote.price \in Nat \ {0},
         NEW now \in Int, OilSnapshot(quote, rows, now) # None
  PROVE  IsLive(OilSnapshot(quote, rows, now))
<1> DEFINE bars == HistoryBars(rows)
           newest == Last(bars)
           live == TehranDate(quote.ts) >= newest.day
           day == IF live THEN TehranDate(quote.ts) ELSE newest.day
           value == IF live THEN quote.price ELSE newest.close
           as_of == IF live THEN quote.ts ELSE newest.day * Day + Day \div 2
           merged == MergeCurrent(bars, [day |-> day, close |-> value])
           s == Snapshot("tgju", as_of, value, Closes(merged), Dates(merged))
<1>1. bars # None
  BY DEF OilSnapshot
<1>2. newest.day \in Int /\ newest.close \in Nat \ {0}
  <2>1. TargetBars \in Nat \ {0}
    BY SourceSeriesAssumption
  <2>2. Len(bars) = TargetBars
    BY <1>1, BarsAreRows
  <2>3. bars[TargetBars].day \in Int /\ bars[TargetBars].close \in Nat \ {0}
    BY <1>1, <2>1, BarsAreRows
  <2> QED
    BY <2>2, <2>3 DEF Last
<1>3. as_of \in Int /\ value \in Nat \ {0}
  <2>1. Day \in Nat \ {0}
    BY SourceSeriesAssumption
  <2>2. newest.day * Day \in Int /\ Day \div 2 \in Int
    BY <1>2, <2>1
  <2> QED
    BY <1>2, <2>2
<1>4. IsLive(s)
  <2> HIDE DEF as_of, value, merged
  <2> QED
    BY <1>3, SnapshotIsLive
<1>5. OilSnapshot(quote, rows, now)
         = [s EXCEPT !.reason = Age(TehranDate(now) - day, OilStaleDays)]
  BY <1>1 DEF OilSnapshot
<1> QED
  <2> HIDE DEF s, day
  <2> QED
    BY <1>4, <1>5, AgeIsLive

LEMMA TgjuUsdIsLive ==
  ASSUME NEW rows, NEW quote, quote.ts \in Int, quote.price \in Nat \ {0},
         NEW now, TgjuUsdSnapshot(quote, rows, now) # None
  PROVE  IsLive(TgjuUsdSnapshot(quote, rows, now))
<1> DEFINE merged == TgjuBars(quote, HistoryBars(rows))
           s == Snapshot("tgju", quote.ts, quote.price, Closes(merged), Dates(merged))
<1>1. IsLive(s)
  <2> HIDE DEF merged
  <2> QED
    BY SnapshotIsLive
<1>2. TgjuUsdSnapshot(quote, rows, now)
         = [s EXCEPT !.reason = Age(now - quote.ts, UsdStaleAfter)]
  BY DEF TgjuUsdSnapshot
<1> QED
  <2> HIDE DEF s
  <2> QED
    BY <1>1, <1>2, AgeIsLive

LEMMA HybridUsdIsLive ==
  ASSUME NEW rows, NEW quote, quote # None => quote.ts \in Int /\ quote.price \in Nat \ {0},
         NEW spot, spot # None => IsLive(spot),
         NEW now, HybridUsdSnapshot(spot, quote, rows, now) # None
  PROVE  IsLive(HybridUsdSnapshot(spot, quote, rows, now))
<1> DEFINE bars == IF rows = None THEN None ELSE HistoryBars(rows)
           hybrid == HybridUsdSnapshot(spot, quote, rows, now)
           s == Snapshot("kifpool_tgju", spot.as_of, spot.value, Closes(bars), Dates(bars))
<1>1. CASE spot = None
  <2>1. /\ quote # None
        /\ hybrid = TgjuUsdSnapshot(quote, rows, now)
    BY <1>1 DEF HybridUsdSnapshot
  <2> QED
    BY <2>1, TgjuUsdIsLive
<1>2. CASE spot # None /\ bars = None
  <2>1. hybrid = KifpoolOnly(spot)
    BY <1>2 DEF HybridUsdSnapshot
  <2>2. IsLive(KifpoolOnly(spot))
    BY <1>2 DEF KifpoolOnly, IsLive
  <2> QED
    BY <2>1, <2>2
<1>3. CASE spot # None /\ bars # None
  <2>1. hybrid = [s EXCEPT !.flags = DeviationFlags(spot.value, Last(bars).close)]
    BY <1>3 DEF HybridUsdSnapshot
  <2>2. IsLive(s)
    <3>1. spot.as_of \in Int /\ spot.value \in Nat \ {0}
      BY <1>3 DEF IsLive
    <3> HIDE DEF bars
    <3> QED
      BY <3>1, SnapshotIsLive
  <2>3. ASSUME NEW flags PROVE IsLive([s EXCEPT !.flags = flags])
    <3> HIDE DEF s
    <3> QED
      BY <2>2 DEF IsLive
  <2> QED
    BY <2>1, <2>3
<1> QED
  BY <1>1, <1>2, <1>3

LEMMA CoinGeckoIsLive ==
  ASSUME NEW ts \in Int, NEW n \in Nat, NEW prices, DOMAIN prices = 1..n, Len(prices) = n,
         n > 0 => prices[n] \in Nat \ {0},
         n = 0 => prices = <<>>,
         CoinGeckoSnapshot([ts |-> ts, prices |-> prices]) # None
  PROVE  LET s == CoinGeckoSnapshot([ts |-> ts, prices |-> prices])
         IN  IsLive(s) /\ s.reason = "fresh" /\ n > 0 /\ s.value = prices[n]
<1> DEFINE closes == Downsample(prices, TargetBars)
           s == Snapshot("coingecko", ts, Last(closes), closes, <<>>)
<1>1. prices # <<>> /\ CoinGeckoSnapshot([ts |-> ts, prices |-> prices]) = s
  BY DEF CoinGeckoSnapshot
<1>2. n \in Nat \ {0} /\ prices[n] \in Nat \ {0}
  BY <1>1
<1>3. Last(closes) = prices[n]
  BY <1>2, SourceSeriesAssumption, ThinnedEndsWithLast
<1>4. IsLive(s) /\ s.reason = "fresh" /\ s.value = Last(closes)
  <2>1. Last(closes) \in Nat \ {0}
    BY <1>2, <1>3
  <2> HIDE DEF closes
  <2> QED
    BY <2>1, SnapshotIsLive
<1> QED
  BY <1>1, <1>2, <1>3, <1>4

LEMMA DivisionGrows ==
  ASSUME NEW a \in Int, NEW c \in Int, a <= c, NEW b \in Nat \ {0}
  PROVE  a \div b <= c \div b
<1> DEFINE q == a \div b
           r == a % b
           u == c \div b
           v == c % b
<1>1. q \in Int /\ r \in 0..(b - 1) /\ a = b * q + r
  OBVIOUS
<1>2. u \in Int /\ v \in 0..(b - 1) /\ c = b * u + v
  OBVIOUS
<1> HIDE DEF q, r, u, v
<1>3. ASSUME u < q PROVE FALSE
  <2>1. PICK w \in Int : w = u + 1 /\ w <= q
    BY <1>1, <1>2, <1>3
  <2>2. b * w <= b * q
    BY <1>1, <2>1, ProductGrows
  <2>3. b * w = b * u + b
    BY <1>2, <2>1
  <2>4. b * q \in Int /\ b * u \in Int
    BY <1>1, <1>2
  <2> QED
    BY <1>1, <1>2, <2>2, <2>3, <2>4
<1> QED
  BY <1>1, <1>2, <1>3 DEF q, u

(* A series of Gate: of candles that climb it makes closes that climb, as   *)
(* many as it may have, the last of them the close of the last candle.      *)
LEMMA GateSeries ==
  ASSUME NEW candles, DOMAIN candles \in SUBSET Int, IsFiniteSet(DOMAIN candles),
         \A t \in DOMAIN candles : candles[t] \in Int,
         \A t, u \in DOMAIN candles : t < u => candles[t] < candles[u],
         NEW top \in DOMAIN candles, \A t \in DOMAIN candles : t <= top,
         candles[top] \in Nat \ {0},
         NEW now \in Int, GateSnapshot(candles, now) # None
  PROVE  LET s == GateSnapshot(candles, now)
         IN  /\ IsLive(s) /\ s.reason = "fresh" /\ s.source = "gate"
             /\ s.value = candles[top] /\ Last(s.closes) = candles[top]
             /\ Len(s.closes) = TargetBars /\ Len(s.dates) = TargetBars
             /\ \A i \in 1..(Len(s.dates) - 1) : s.dates[i] < s.dates[i + 1]
             /\ \A i \in 1..(Len(s.closes) - 1) : s.closes[i] < s.closes[i + 1]
<1> DEFINE D == DOMAIN candles
<1>1. PICK k \in Nat \ {0}, w \in Nat \ {0} : k = TargetBars /\ w = TicksPerBar
  BY SourceSeriesAssumption
<1>2. PICK B : B = Buckets(candles)
  OBVIOUS
<1>3. B = {t \div w : t \in D}
  BY <1>1, <1>2 DEF Buckets
<1>4. B \in SUBSET Int /\ IsFiniteSet(B)
  <2>1. PICK f : f = [t \in D |-> t \div w]
    OBVIOUS
  <2>2. B = {f[t] : t \in D}
    BY <1>3, <2>1
  <2>3. IsFiniteSet({f[t] : t \in D})
    BY ImageFinite
  <2>4. B \in SUBSET Int
    BY <1>3
  <2> QED
    BY <2>2, <2>3, <2>4
<1>5. PICK m \in Nat : m = Cardinality(B)
  BY <1>4, FS_CardinalityType
<1>6. PICK sorted : sorted = Ascending(B)
  OBVIOUS
<1>7. /\ sorted \in [1..m -> B] /\ sorted \in Seq(B) /\ Len(sorted) = m
      /\ \A i, j \in 1..m : i < j => sorted[i] < sorted[j]
      /\ \A x \in B : \E i \in 1..m : sorted[i] = x
  BY <1>4, <1>5, <1>6, AscendingSet
<1>8. PICK bars : bars = Keep(sorted, k)
  OBVIOUS
<1>9. /\ bars \in Seq(B) /\ Len(bars) \in Nat /\ Len(bars) <= k
      /\ \A i, j \in 1..Len(bars) : i < j => bars[i] < bars[j]
      /\ Len(bars) > 0 => bars[Len(bars)] = sorted[m]
  <2>1. k \in Nat /\ \A i, j \in 1..Len(sorted) : i < j => sorted[i] < sorted[j]
    BY <1>7
  <2>2. bars \in Seq(B) /\ Len(bars) \in Nat
    BY <1>4, <1>7, <1>8, <2>1, KeptClimbs
  <2>3. Len(bars) <= k
    <3>1. (Len(sorted) <= k => Len(bars) = Len(sorted)) /\ (Len(sorted) > k => Len(bars) = k)
      BY <1>4, <1>7, <1>8, <2>1, KeptClimbs
    <3> QED
      BY <1>7, <3>1
  <2>4. \A i, j \in 1..Len(bars) : i < j => bars[i] < bars[j]
    BY <1>4, <1>7, <1>8, <2>1, KeptClimbs
  <2>5. Len(bars) > 0 => bars[Len(bars)] = sorted[Len(sorted)]
    BY <1>4, <1>7, <1>8, <2>1, KeptClimbs
  <2> QED
    BY <1>7, <2>2, <2>3, <2>4, <2>5
<1>10. PICK closes : closes = [i \in DOMAIN bars |-> BarClose(candles, bars[i])]
  OBVIOUS
<1>11. PICK s : s = Snapshot("gate", now, Last(closes), closes, bars)
  OBVIOUS
<1>12. Len(bars) = k /\ DOMAIN bars = 1..k /\ GateSnapshot(candles, now) = s
  <2>1. GateSnapshot(candles, now) = IF Len(bars) < k THEN None ELSE s
    BY <1>1, <1>2, <1>6, <1>8, <1>10, <1>11 DEF GateSnapshot
  <2>2. ~(Len(bars) < k)
    BY <2>1
  <2>3. Len(bars) = k
    BY <1>9, <2>2
  <2> QED
    BY <1>9, <2>1, <2>2, <2>3
<1>13. ASSUME NEW i \in 1..k
       PROVE  \E u \in D : /\ u \div w = bars[i] /\ closes[i] = candles[u]
                           /\ \A t \in D : t \div w = bars[i] => t <= u
  <2>1. PICK T : T = {t \in D : t \div w = bars[i]}
    OBVIOUS
  <2>2. bars[i] \in B
    BY <1>9, <1>12
  <2>3. T \in SUBSET D /\ T # {} /\ T \in SUBSET Int
    BY <1>3, <2>1, <2>2
  <2>4. IsFiniteSet(T)
    BY <2>3, FS_Subset
  <2>5. Max(T) \in T /\ \A t \in T : t <= Max(T)
    BY <2>3, <2>4, MaxIsLargest
  <2>6. closes[i] = candles[Max(T)]
    BY <1>1, <1>10, <1>12, <2>1 DEF BarClose
  <2> QED
    BY <2>1, <2>5, <2>6
<1>14. Len(closes) = k
  BY <1>10, <1>12
<1>15. bars[k] = top \div w
  <2>1. PICK z \in B : z = top \div w
    BY <1>3
  <2>2. PICK j \in 1..m : sorted[j] = z
    BY <1>7
  <2>3. sorted[m] \in B /\ m \in 1..m
    BY <1>7, <2>2
  <2>4. PICK t \in D : sorted[m] = t \div w
    BY <1>3, <2>3
  <2>5. t \in Int /\ top \in Int /\ t <= top
    OBVIOUS
  <2>6. sorted[m] <= z
    BY <2>1, <2>4, <2>5, DivisionGrows
  <2>7. ~(j < m)
    <3>1. j < m => z < sorted[m]
      BY <1>7, <2>2, <2>3
    <3>2. PICK x \in Int : x = sorted[m]
      BY <1>4, <2>3
    <3>3. z \in Int
      BY <1>4
    <3> QED
      BY ONLY <2>6, <3>1, <3>2, <3>3
  <2>8. j = m
    BY <2>2, <2>7
  <2> QED
    BY <1>9, <1>12, <2>1, <2>2, <2>8
<1>16. Last(closes) = candles[top]
  <2>1. k \in 1..k
    OBVIOUS
  <2>2. PICK u \in D : /\ closes[k] = candles[u]
                       /\ \A t \in D : t \div w = bars[k] => t <= u
    BY <1>13, <2>1
  <2>3. top <= u /\ u <= top /\ u \in Int /\ top \in Int
    BY <1>15, <2>2
  <2>4. u = top
    BY <2>3
  <2> QED
    BY <1>14, <2>2, <2>4 DEF Last
<1>17. ASSUME NEW i \in 1..(k - 1) PROVE bars[i] < bars[i + 1] /\ closes[i] < closes[i + 1]
  <2>1. PICK j \in 1..k : j = i + 1 /\ i \in 1..k /\ i < j
    OBVIOUS
  <2>2. bars[i] < bars[j] /\ bars[i] \in Int /\ bars[j] \in Int
    <3>1. bars[i] \in B /\ bars[j] \in B
      BY <1>9, <1>12, <2>1
    <3>2. bars[i] < bars[j]
      BY <1>9, <1>12, <2>1
    <3> QED
      BY <1>4, <3>1, <3>2
  <2>3. PICK u \in D : u \div w = bars[i] /\ closes[i] = candles[u]
    BY <1>13, <2>1
  <2>4. PICK v \in D : v \div w = bars[j] /\ closes[j] = candles[v]
    BY <1>13
  <2>5. u \in Int /\ v \in Int
    OBVIOUS
  <2>6. ~(v <= u)
    <3>1. v <= u => bars[j] <= bars[i]
      BY <2>3, <2>4, <2>5, DivisionGrows
    <3> QED
      BY <2>2, <3>1
  <2>7. candles[u] < candles[v]
    BY <2>5, <2>6
  <2> QED
    BY <2>1, <2>2, <2>3, <2>4, <2>7
<1>18. IsLive(s) /\ s.reason = "fresh" /\ s.value = Last(closes)
  BY <1>11, <1>16, SnapshotIsLive
<1>19. s.source = "gate" /\ s.closes = closes /\ s.dates = bars
  BY <1>11 DEF Snapshot
<1> QED
  BY <1>1, <1>12, <1>14, <1>16, <1>17, <1>18, <1>19

LEMMA McapIsLive ==
  ASSUME NEW cap \in Nat \ {0}, NEW as_of \in Int, NEW now
  PROVE  LET s == McapSnapshot(cap, as_of, now)
         IN  IsLive(s) /\ s.as_of = as_of /\ s.value = cap
<1> DEFINE t == Snapshot("coinmarketcap", as_of, cap, <<>>, <<>>)
<1>1. IsLive(t) /\ t.as_of = as_of /\ t.value = cap
  BY SnapshotIsLive
<1>2. McapSnapshot(cap, as_of, now) = [t EXCEPT !.reason = Age(now - as_of, McapStaleAfter)]
  BY DEF McapSnapshot
<1> QED
  <2> HIDE DEF t
  <2> QED
    BY <1>1, <1>2, AgeIsLive

LEMMA EnrichedIsLive ==
  ASSUME NEW s, IsLive(s), NEW samples
  PROVE  LET e == EnrichTotalMcap(s, samples)
         IN  IsLive(e) /\ e.as_of = s.as_of /\ e.value = s.value
BY DEF EnrichTotalMcap, IsLive

(* The aggregate of sources that agree: the median of the young ones, dated *)
(* by the newest, with a flag for each one that is far from it.             *)
LEMMA AggregateIsLive ==
  ASSUME NEW heard, IsFiniteSet(DOMAIN heard),
         \A s \in DOMAIN heard : heard[s] # None => IsLive(heard[s]),
         NEW now \in Int, Agreed(heard, now)
  PROVE  LET m == Aggregate(heard, now)
             valid == ValidObservations(heard, now)
         IN  /\ IsLive(m) /\ m.reason = "fresh"
             /\ m.value = Median(heard, valid)
             /\ \E s \in valid : m.as_of = heard[s].as_of
             /\ \A s \in valid : m.as_of >= heard[s].as_of
             /\ \A s \in valid : Deviates(heard[s].value, m.value, MaxDeviation) => s \in m.flags
             /\ valid # DOMAIN heard => "reduced_source_count" \in m.flags
<1> DEFINE valid == ValidObservations(heard, now)
           median == Median(heard, valid)
           times == {heard[s].as_of : s \in valid}
           newest == Max(times)
           t == Snapshot("crypto_median", newest, median, <<>>, <<>>)
           flags == (UNION {heard[s].flags : s \in valid})
                    \cup {s \in valid : Deviates(heard[s].value, median, MaxDeviation)}
                    \cup IF valid # DOMAIN heard THEN {"reduced_source_count"} ELSE {}
<1>1. Aggregate(heard, now) = [t EXCEPT !.flags = flags]
  BY DEF Aggregate
<1>2. valid \in SUBSET DOMAIN heard /\ \A s \in valid : IsLive(heard[s])
  BY DEF ValidObservations
<1>3. IsFiniteSet(valid)
  <2> HIDE DEF valid
  <2> QED
    BY <1>2, FS_Subset
<1>4. valid # {}
  <2>1. Cardinality(valid) >= MinSources /\ MinSources \in Nat \ {0}
    BY SourceSeriesAssumption DEF Agreed
  <2>2. SUFFICES ASSUME valid = {} PROVE FALSE
    OBVIOUS
  <2>3. Cardinality(valid) = 0
    <3> HIDE DEF valid
    <3> QED
      BY <2>2, FS_EmptySet
  <2> QED
    BY <2>1, <2>3
<1>5. newest \in times /\ \A x \in times : x <= newest
  <2>1. times \in SUBSET Int /\ times # {}
    <3>1. \A s \in valid : heard[s].as_of \in Int
      BY <1>2 DEF IsLive
    <3> HIDE DEF valid
    <3> QED
      BY <1>4, <3>1
  <2>2. IsFiniteSet(times)
    <3> DEFINE f == [s \in valid |-> heard[s].as_of]
    <3>1. f \in Surjection(valid, times)
      BY DEF Surjection
    <3> HIDE DEF f, times, valid
    <3> QED
      BY <1>3, <3>1, FS_Surjection
  <2> HIDE DEF times
  <2> QED
    BY <2>1, <2>2, MaxIsLargest
<1>6. newest \in Int
  BY <1>2, <1>5 DEF IsLive
<1>7. median \in Nat \ {0}
  <2>1. \A s \in valid : heard[s].value \in Int /\ heard[s].value >= 1
    BY <1>2 DEF IsLive
  <2>2. median \in Int /\ median >= 1
    <3> HIDE DEF valid
    <3> QED
      BY <1>3, <1>4, <2>1, MedianBetween
  <2> QED
    BY <2>2
<1>8. IsLive(t) /\ t.reason = "fresh" /\ t.value = median /\ t.as_of = newest
  <2> HIDE DEF newest, median
  <2> QED
    BY <1>6, <1>7, SnapshotIsLive
<1>9. PICK m : m = Aggregate(heard, now)
  OBVIOUS
<1>10. IsLive(m) /\ m.reason = "fresh" /\ m.value = median /\ m.as_of = newest /\ m.flags = flags
  <2> HIDE DEF t, flags
  <2> QED
    BY <1>1, <1>8, <1>9 DEF IsLive
<1>11. \E s \in valid : newest = heard[s].as_of
  BY <1>5
<1>12. ASSUME NEW s \in valid PROVE newest >= heard[s].as_of
  <2>1. heard[s].as_of \in times /\ heard[s].as_of \in Int
    BY <1>2 DEF IsLive
  <2>2. heard[s].as_of <= newest
    BY <1>5, <2>1
  <2> QED
    BY <1>6, <2>1, <2>2
<1>13. \A s \in valid : Deviates(heard[s].value, median, MaxDeviation) => s \in flags
  <2> DEFINE far == {s \in valid : Deviates(heard[s].value, median, MaxDeviation)}
  <2>1. far \subseteq flags
    OBVIOUS
  <2> HIDE DEF valid, median, flags
  <2> QED
    BY <2>1
<1>14. valid # DOMAIN heard => "reduced_source_count" \in flags
  <2> SUFFICES ASSUME valid # DOMAIN heard PROVE "reduced_source_count" \in flags
    OBVIOUS
  <2>1. (IF valid # DOMAIN heard THEN {"reduced_source_count"} ELSE {}) \subseteq flags
    OBVIOUS
  <2> HIDE DEF valid, median, flags
  <2> QED
    BY <2>1
<1> QED
  <2> HIDE DEF newest, median, valid, flags
  <2> QED
    BY <1>9, <1>10, <1>11, <1>12, <1>13, <1>14 DEF valid, median

=============================================================================
