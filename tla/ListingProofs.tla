---------------------------- MODULE ListingProofs ----------------------------
(***************************************************************************)
(* Numbers in finite sets, and what the lists of Listing hold: the lemmas  *)
(* that the proofs about the ingestion and the analysis rest on.           *)
(***************************************************************************)
EXTENDS Listing, SequencesExt, FiniteSetTheorems, TLAPS

-----------------------------------------------------------------------------
(* Finite sets of numbers. *)

(* The least of some natural numbers.                                       *)
LEMMA LeastOfNumbers ==
  ASSUME NEW K \in SUBSET Nat, K # {}
  PROVE  \E m \in K : \A k \in K : m <= k
<1> DEFINE Less == OpToRel(<, Nat)
<1>1. IsWellFoundedOn(Less, Nat)
  BY NatLessThanWellFounded
<1>2. \A x, y \in Nat : <<x, y>> \in Less <=> x < y
  BY DEF OpToRel
<1> HIDE DEF Less
<1>3. PICK m \in K : \A k \in K : ~(<<k, m>> \in Less)
  BY <1>1, WFMin
<1>4. ASSUME NEW k \in K PROVE m <= k
  <2>1. m \in Nat /\ k \in Nat /\ ~(<<k, m>> \in Less)
    BY <1>3
  <2>2. ~(k < m)
    BY <1>2, <2>1
  <2> QED
    BY <2>1, <2>2
<1> QED
  BY <1>4

(* A finite set of numbers that is not empty has a largest one: else take   *)
(* one away from a smallest subset that has none.                           *)
LEMMA Largest ==
  ASSUME NEW S \in SUBSET Int, IsFiniteSet(S), S # {}
  PROVE  \E m \in S : \A x \in S : x <= m
<1> DEFINE Has(T) == \E m \in T : \A x \in T : x <= m
           Bad == {T \in SUBSET S : T # {} /\ ~Has(T)}
           K == {Cardinality(T) : T \in Bad}
<1> SUFFICES ASSUME ~Has(S) PROVE FALSE
  OBVIOUS
<1>1. \A T \in SUBSET S : IsFiniteSet(T) /\ Cardinality(T) \in Nat
  BY FS_Subset, FS_CardinalityType
<1>2. K \in SUBSET Nat /\ K # {}
  <2>1. S \in Bad
    OBVIOUS
  <2> QED
    BY <1>1, <2>1
<1>3. PICK n \in K : \A k \in K : n <= k
  <2> HIDE DEF K
  <2> QED
    BY <1>2, LeastOfNumbers
<1>4. PICK T \in Bad : n = Cardinality(T)
  OBVIOUS
<1>5. PICK x \in T : TRUE
  BY <1>4
<1>6. IsFiniteSet(T \ {x}) /\ Cardinality(T \ {x}) = n - 1 /\ n \in Nat
  BY <1>1, <1>4, <1>5, FS_RemoveElement
<1>7. T \ {x} \notin Bad
  <2>1. SUFFICES ASSUME T \ {x} \in Bad PROVE FALSE
    OBVIOUS
  <2>2. Cardinality(T \ {x}) \in K
    BY <2>1
  <2>3. n <= Cardinality(T \ {x})
    BY <1>3, <2>2
  <2> QED
    BY <1>6, <2>3
<1>8. CASE T \ {x} = {}
  <2>1. T = {x} /\ x <= x
    BY <1>4, <1>5, <1>8
  <2> QED
    BY <1>4, <2>1
<1>9. CASE T \ {x} # {}
  <2>1. Has(T \ {x})
    BY <1>4, <1>7, <1>9
  <2>2. PICK m \in T \ {x} : \A y \in T \ {x} : y <= m
    BY <2>1
  <2>3. m \in T /\ m \in Int /\ x \in Int
    BY <1>4, <1>5, <2>2
  <2>4. CASE x <= m
    <3>1. \A y \in T : y <= m
      BY <2>2, <2>4
    <3> QED
      BY <1>4, <2>3, <3>1
  <2>5. CASE m < x
    <3>1. ASSUME NEW y \in T PROVE y <= x
      <4>1. y \in Int
        BY <1>4, <3>1
      <4>2. CASE y = x
        BY <4>1, <4>2
      <4>3. CASE y # x
        BY <2>2, <2>3, <2>5, <4>1, <4>3
      <4> QED
        BY <4>2, <4>3
    <3> QED
      BY <1>4, <1>5, <3>1
  <2> QED
    BY <2>3, <2>4, <2>5
<1> QED
  BY <1>8, <1>9

LEMMA MaxIsLargest ==
  ASSUME NEW S \in SUBSET Int, IsFiniteSet(S), S # {}
  PROVE  Max(S) \in S /\ \A x \in S : x <= Max(S)
<1>1. PICK m \in S : \A x \in S : m >= x
  BY Largest
<1>2. Max(S) \in S /\ \A x \in S : Max(S) >= x
  BY <1>1 DEF Max
<1> QED
  BY <1>2

(* The smallest of a finite set is the largest of its negations.            *)
LEMMA MinIsSmallest ==
  ASSUME NEW S \in SUBSET Int, IsFiniteSet(S), S # {}
  PROVE  Min(S) \in S /\ \A x \in S : Min(S) <= x
<1> DEFINE T == {-x : x \in S}
           f == [x \in S |-> -x]
<1>1. f \in Surjection(S, T)
  BY DEF Surjection
<1>2. IsFiniteSet(T) /\ T \in SUBSET Int /\ T # {}
  <2>1. T \in SUBSET Int /\ T # {}
    <3>1. \A x \in S : -x \in T
      OBVIOUS
    <3>2. \A x \in S : -x \in Int
      OBVIOUS
    <3>3. \A y \in T : \E x \in S : y = -x
      OBVIOUS
    <3> HIDE DEF T
    <3> QED
      BY <3>1, <3>2, <3>3
  <2> HIDE DEF T, f
  <2>2. IsFiniteSet(T)
    BY <1>1, FS_Surjection
  <2> QED
    BY <2>1, <2>2
<1>3. PICK m \in T : \A y \in T : y <= m
  <2> HIDE DEF T
  <2> QED
    BY <1>2, Largest
<1>4. -m \in S /\ \A x \in S : -m <= x
  BY <1>3
<1>5. Min(S) \in S /\ \A x \in S : Min(S) =< x
  BY <1>4 DEF Min
<1> QED
  BY <1>5

(* As many as there were, or fewer, whatever is made of each.               *)
LEMMA ImageFinite ==
  ASSUME NEW S, IsFiniteSet(S), NEW f
  PROVE  IsFiniteSet({f[x] : x \in S}) /\ Cardinality({f[x] : x \in S}) <= Cardinality(S)
<1> DEFINE T == {f[x] : x \in S}
           g == [x \in S |-> f[x]]
<1>1. g \in Surjection(S, T)
  BY DEF Surjection
<1> HIDE DEF g
<1> QED
  BY <1>1, FS_Surjection

LEMMA MaxOfTwo ==
  ASSUME NEW x \in Int, NEW y \in Int
  PROVE  Max({x, y}) = IF x >= y THEN x ELSE y
<1>1. {x, y} \in SUBSET Int /\ IsFiniteSet({x, y}) /\ {x, y} # {}
  <2>1. IsFiniteSet({} \cup {x})
    BY FS_EmptySet, FS_AddElement
  <2>2. IsFiniteSet(({} \cup {x}) \cup {y})
    BY <2>1, FS_AddElement
  <2>3. {x, y} = ({} \cup {x}) \cup {y}
    OBVIOUS
  <2> QED
    BY <2>2, <2>3
<1>2. Max({x, y}) \in {x, y} /\ \A z \in {x, y} : z <= Max({x, y})
  BY <1>1, MaxIsLargest
<1>3. PICK m : m = Max({x, y})
  OBVIOUS
<1>4. (m = x \/ m = y) /\ x <= m /\ y <= m
  BY <1>2, <1>3
<1> QED
  BY <1>3, <1>4

LEMMA MinOfTwo ==
  ASSUME NEW x \in Int, NEW y \in Int
  PROVE  Min({x, y}) = IF x <= y THEN x ELSE y
<1>1. {x, y} \in SUBSET Int /\ IsFiniteSet({x, y}) /\ {x, y} # {}
  <2>1. IsFiniteSet({} \cup {x})
    BY FS_EmptySet, FS_AddElement
  <2>2. IsFiniteSet(({} \cup {x}) \cup {y})
    BY <2>1, FS_AddElement
  <2>3. {x, y} = ({} \cup {x}) \cup {y}
    OBVIOUS
  <2> QED
    BY <2>2, <2>3
<1>2. Min({x, y}) \in {x, y} /\ \A z \in {x, y} : Min({x, y}) <= z
  BY <1>1, MinIsSmallest
<1>3. PICK m : m = Min({x, y})
  OBVIOUS
<1>4. (m = x \/ m = y) /\ m <= x /\ m <= y
  BY <1>2, <1>3
<1> QED
  BY <1>3, <1>4

(* What holds at lo, and at every number after one where it holds, holds up *)
(* to hi.                                                                   *)
LEMMA Climb ==
  ASSUME NEW lo \in Int, NEW hi \in Int, NEW P,
         lo \in P, \A i \in (lo + 1)..hi : i - 1 \in P => i \in P
  PROVE  \A i \in lo..hi : i \in P
<1> DEFINE K == {n \in Nat : lo + n \in lo..hi /\ lo + n \notin P}
<1> SUFFICES ASSUME NEW i \in lo..hi, i \notin P PROVE FALSE
  OBVIOUS
<1>1. i - lo \in K
  <2>1. i - lo \in Nat /\ lo + (i - lo) = i
    OBVIOUS
  <2> QED
    BY <2>1
<1>2. PICK n \in K : \A k \in K : n <= k
  <2>1. K \in SUBSET Nat /\ K # {}
    BY <1>1
  <2> HIDE DEF K
  <2> QED
    BY <2>1, LeastOfNumbers
<1>3. n \in Nat /\ lo + n \in lo..hi /\ lo + n \notin P
  BY <1>2
<1>4. n # 0
  <2>1. lo + 0 = lo
    OBVIOUS
  <2> QED
    BY <1>3, <2>1
<1>5. n - 1 \in Nat /\ lo + (n - 1) \in lo..hi /\ lo + n \in (lo + 1)..hi
      /\ lo + (n - 1) = (lo + n) - 1 /\ ~(n <= n - 1)
  BY <1>3, <1>4
<1>6. n - 1 \notin K
  BY <1>2, <1>5
<1>7. lo + (n - 1) \in P
  BY <1>5, <1>6
<1> QED
  BY <1>3, <1>5, <1>7

-----------------------------------------------------------------------------
(* Lists. *)

(* R puts the members of S in one order.                                    *)
Orders(R, S) ==
    /\ \A x \in S : <<x, x>> \notin R
    /\ \A x, y, z \in S : <<x, y>> \in R /\ <<y, z>> \in R => <<x, z>> \in R
    /\ \A x, y \in S : x = y \/ <<x, y>> \in R \/ <<y, x>> \in R

(* Arranged(S, R) has every member of S once, each before those that it     *)
(* comes before: the number of members before it is its place.              *)
LEMMA ArrangedSet ==
  ASSUME NEW S, IsFiniteSet(S), NEW R, Orders(R, S)
  PROVE  /\ Cardinality(S) \in Nat
         /\ Arranged(S, R) \in [1..Cardinality(S) -> S]
         /\ Arranged(S, R) \in Seq(S) /\ Len(Arranged(S, R)) = Cardinality(S)
         /\ \A i, j \in 1..Cardinality(S) :
               i < j => <<Arranged(S, R)[i], Arranged(S, R)[j]>> \in R
         /\ \A x \in S : \E i \in 1..Cardinality(S) : Arranged(S, R)[i] = x
<1> DEFINE Before(x) == {y \in S : <<y, x>> \in R}
           rank == [x \in S |-> Cardinality(Before(x))]
<1>1. PICK n \in Nat : n = Cardinality(S)
  BY FS_CardinalityType
<1>2. \A x \in S : IsFiniteSet(Before(x)) /\ Cardinality(Before(x)) \in Nat
  <2>1. \A x \in S : Before(x) \in SUBSET S
    OBVIOUS
  <2> HIDE DEF Before
  <2> QED
    BY <2>1, FS_Subset, FS_CardinalityType
<1>3. ASSUME NEW x \in S PROVE rank[x] \in 0..(n - 1)
  <2>1. Before(x) \in SUBSET S /\ Before(x) # S
    BY DEF Orders
  <2>2. Cardinality(Before(x)) < Cardinality(S)
    <3> HIDE DEF Before
    <3>1. Cardinality(Before(x)) <= Cardinality(S) /\ Cardinality(Before(x)) # Cardinality(S)
      BY <2>1, FS_Subset
    <3> QED
      BY <1>1, <1>2, <3>1
  <2>3. rank[x] = Cardinality(Before(x))
    OBVIOUS
  <2> HIDE DEF Before, rank
  <2> QED
    BY <1>1, <1>2, <2>2, <2>3
<1>4. ASSUME NEW x \in S, NEW y \in S, <<x, y>> \in R PROVE rank[x] < rank[y]
  <2>1. Before(x) \in SUBSET Before(y)
    BY <1>4 DEF Orders
  <2>2. x \in Before(y) /\ x \notin Before(x)
    BY <1>4 DEF Orders
  <2>3. Cardinality(Before(x)) < Cardinality(Before(y))
    <3>1. IsFiniteSet(Before(y))
      BY <1>2
    <3> HIDE DEF Before
    <3>2. /\ Cardinality(Before(x)) <= Cardinality(Before(y))
          /\ Cardinality(Before(x)) # Cardinality(Before(y))
      BY <2>1, <2>2, <3>1, FS_Subset
    <3> QED
      BY <1>2, <3>2
  <2> QED
    BY <2>3
<1>5. \A x \in S : rank[x] \in Int
  BY <1>2
<1>6. ASSUME NEW x \in S, NEW y \in S, rank[x] = rank[y] PROVE x = y
  <2>1. rank[x] \in Int /\ rank[y] \in Int
    BY <1>5
  <2> HIDE DEF rank
  <2>2. ~(<<x, y>> \in R) /\ ~(<<y, x>> \in R)
    BY <1>4, <1>6, <2>1
  <2> QED
    BY <2>2 DEF Orders
<1>7. rank \in Injection(S, 0..(n - 1))
  <2>1. rank \in [S -> 0..(n - 1)]
    <3>1. rank = [x \in S |-> rank[x]]
      OBVIOUS
    <3> HIDE DEF rank
    <3> QED
      BY <1>3, <3>1
  <2> HIDE DEF rank
  <2> QED
    BY <1>6, <2>1 DEF Injection, IsInjective
<1>8. rank \in Surjection(S, 0..(n - 1))
  <2>1. IsFiniteSet(0..(n - 1)) /\ Cardinality(0..(n - 1)) = n
    <3>1. 0 \in Int /\ n - 1 \in Int /\ (n - 1) - 0 + 1 = n /\ (0 > n - 1 => n = 0)
      BY <1>1
    <3> QED
      BY <3>1, FS_Interval
  <2> HIDE DEF rank
  <2> QED
    BY <1>1, <1>7, <2>1, FS_Injection
<1> DEFINE at(k) == CHOOSE x \in S : Cardinality(Before(x)) = k - 1
<1>9. PICK s : s = Arranged(S, R)
  OBVIOUS
<1>10. s = [k \in 1..n |-> at(k)]
  BY <1>1, <1>9 DEF Arranged
<1>11. ASSUME NEW k \in 1..n PROVE s[k] \in S /\ rank[s[k]] = k - 1
  <2>1. k - 1 \in 0..(n - 1)
    OBVIOUS
  <2>2. PICK x \in S : rank[x] = k - 1
    <3> HIDE DEF rank
    <3> QED
      BY <1>8, <2>1 DEF Surjection
  <2>3. \E y \in S : Cardinality(Before(y)) = k - 1
    BY <2>2
  <2>4. s[k] = at(k)
    BY <1>10
  <2>5. s[k] \in S /\ Cardinality(Before(s[k])) = k - 1
    <3> HIDE DEF Before
    <3> QED
      BY <2>3, <2>4
  <2> QED
    BY <2>5
<1>12. s \in [1..n -> S]
  <2> HIDE DEF at
  <2>1. \A k \in 1..n : at(k) \in S
    BY <1>10, <1>11
  <2> QED
    BY <1>10, <2>1
<1>13. ASSUME NEW i \in 1..n, NEW j \in 1..n, i < j PROVE <<s[i], s[j]>> \in R
  <2>1. /\ s[i] \in S /\ rank[s[i]] = i - 1
        /\ s[j] \in S /\ rank[s[j]] = j - 1
    BY <1>11
  <2> HIDE DEF rank
  <2>2. s[i] # s[j] /\ ~(<<s[j], s[i]>> \in R)
    BY <1>4, <1>13, <2>1
  <2> QED
    BY <2>1, <2>2 DEF Orders
<1>14. ASSUME NEW x \in S PROVE \E i \in 1..n : s[i] = x
  <2>1. PICK k \in 1..n : rank[x] = k - 1
    <3>1. rank[x] \in 0..(n - 1)
      BY <1>3
    <3> HIDE DEF rank
    <3>2. rank[x] + 1 \in 1..n /\ rank[x] = (rank[x] + 1) - 1
      BY <3>1
    <3> QED
      BY <3>2
  <2>2. s[k] \in S /\ rank[s[k]] = rank[x]
    BY <1>11, <2>1
  <2> HIDE DEF rank
  <2> QED
    BY <1>6, <2>2
<1>15. s \in Seq(S) /\ Len(s) = n
  BY <1>12
<1> QED
  BY <1>1, <1>9, <1>12, <1>13, <1>14, <1>15

LEMMA AscendingSet ==
  ASSUME NEW S \in SUBSET Int, IsFiniteSet(S)
  PROVE  /\ Cardinality(S) \in Nat
         /\ Ascending(S) \in [1..Cardinality(S) -> S]
         /\ Ascending(S) \in Seq(S) /\ Len(Ascending(S)) = Cardinality(S)
         /\ \A i, j \in 1..Cardinality(S) : i < j => Ascending(S)[i] < Ascending(S)[j]
         /\ \A x \in S : \E i \in 1..Cardinality(S) : Ascending(S)[i] = x
<1> DEFINE R == {p \in S \X S : p[1] < p[2]}
<1>1. \A x, y \in S : <<x, y>> \in R <=> x < y
  OBVIOUS
<1>2. Ascending(S) = Arranged(S, R)
  BY DEF Ascending
<1> HIDE DEF R
<1>3. \A x \in S : x \in Int
  OBVIOUS
<1>4. Orders(R, S)
  BY <1>1, <1>3 DEF Orders
<1>5. /\ Cardinality(S) \in Nat
      /\ Arranged(S, R) \in [1..Cardinality(S) -> S]
      /\ Arranged(S, R) \in Seq(S) /\ Len(Arranged(S, R)) = Cardinality(S)
      /\ \A i, j \in 1..Cardinality(S) :
            i < j => <<Arranged(S, R)[i], Arranged(S, R)[j]>> \in R
      /\ \A x \in S : \E i \in 1..Cardinality(S) : Arranged(S, R)[i] = x
  BY <1>4, ArrangedSet
<1>6. ASSUME NEW i \in 1..Cardinality(S), NEW j \in 1..Cardinality(S), i < j
      PROVE  Arranged(S, R)[i] < Arranged(S, R)[j]
  BY <1>1, <1>5, <1>6
<1> QED
  BY <1>2, <1>5, <1>6

(* Chosen(s, K) has what is at each place of K, once for each, in the order *)
(* of the places.                                                           *)
LEMMA ChosenList ==
  ASSUME NEW s, NEW K \in SUBSET Int, IsFiniteSet(K)
  PROVE  LET n == Cardinality(K)
         IN  /\ n \in Nat
             /\ DOMAIN Chosen(s, K) = 1..n /\ Len(Chosen(s, K)) = n
             /\ \E places \in [1..n -> K] :
                   /\ \A i, j \in 1..n : i < j => places[i] < places[j]
                   /\ \A k \in K : \E i \in 1..n : places[i] = k
                   /\ \A i \in 1..n : Chosen(s, K)[i] = s[places[i]]
<1>1. PICK n \in Nat : n = Cardinality(K)
  BY FS_CardinalityType
<1>2. PICK places : places = Ascending(K)
  OBVIOUS
<1>3. /\ places \in [1..n -> K]
      /\ \A i, j \in 1..n : i < j => places[i] < places[j]
      /\ \A k \in K : \E i \in 1..n : places[i] = k
  BY <1>1, <1>2, AscendingSet
<1>4. Chosen(s, K) = [k \in 1..n |-> s[places[k]]]
  BY <1>1, <1>2 DEF Chosen
<1>5. /\ DOMAIN Chosen(s, K) = 1..n /\ Len(Chosen(s, K)) = n
      /\ \A i \in 1..n : Chosen(s, K)[i] = s[places[i]]
  BY <1>4
<1> QED
  BY <1>1, <1>3, <1>5

LEMMA ChosenTyped ==
  ASSUME NEW T, NEW s \in Seq(T), NEW K \in SUBSET DOMAIN s
  PROVE  /\ IsFiniteSet(K) /\ Chosen(s, K) \in Seq(T)
         /\ \A i \in 1..Len(Chosen(s, K)) : \E k \in K : Chosen(s, K)[i] = s[k]
         /\ \A k \in K : \E i \in 1..Len(Chosen(s, K)) : Chosen(s, K)[i] = s[k]
<1>1. PICK n \in Nat : n = Len(s) /\ DOMAIN s = 1..n
  OBVIOUS
<1>2. K \in SUBSET Int /\ IsFiniteSet(K)
  <2>1. IsFiniteSet(1..n)
    BY FS_Interval
  <2> QED
    BY <1>1, <2>1, FS_Subset
<1>3. PICK m \in Nat : m = Cardinality(K)
  BY <1>2, FS_CardinalityType
<1>4. PICK c : c = Chosen(s, K)
  OBVIOUS
<1>5. DOMAIN c = 1..m /\ Len(c) = m
  BY <1>2, <1>3, <1>4, ChosenList
<1>6. PICK places \in [1..m -> K] :
         /\ \A k \in K : \E i \in 1..m : places[i] = k
         /\ \A i \in 1..m : c[i] = s[places[i]]
  BY <1>2, <1>3, <1>4, ChosenList
<1>7. c = [i \in 1..m |-> s[places[i]]]
  <2>1. c = [i \in 1..m |-> c[i]]
    <3>1. Chosen(s, K) = [k \in 1..Cardinality(K) |-> Chosen(s, K)[k]]
      BY DEF Chosen
    <3> QED
      BY <1>3, <1>4, <3>1
  <2> QED
    BY <1>6, <2>1
<1>8. c \in Seq(T)
  <2>1. \A i \in 1..m : s[places[i]] \in T
    BY <1>1, <1>6
  <2> QED
    BY <1>7, <2>1
<1>9. /\ \A i \in 1..Len(c) : \E k \in K : c[i] = s[k]
      /\ \A k \in K : \E i \in 1..Len(c) : c[i] = s[k]
  <2>1. ASSUME NEW i \in 1..m PROVE \E k \in K : c[i] = s[k]
    BY <1>6
  <2>2. ASSUME NEW k \in K PROVE \E i \in 1..m : c[i] = s[k]
    BY <1>6
  <2> QED
    BY <1>5, <2>1, <2>2
<1> QED
  BY <1>2, <1>4, <1>8, <1>9

(* A listing of a finite set has each member once.                          *)
LEMMA ListedOnce ==
  ASSUME NEW S, IsFiniteSet(S)
  PROVE  LET n == Cardinality(S)
         IN  /\ n \in Nat
             /\ SetToSeq(S) \in [1..n -> S] /\ SetToSeq(S) \in Seq(S)
             /\ DOMAIN SetToSeq(S) = 1..n /\ Len(SetToSeq(S)) = n
             /\ \A i, j \in 1..n : SetToSeq(S)[i] = SetToSeq(S)[j] => i = j
             /\ \A x \in S : \E i \in 1..n : SetToSeq(S)[i] = x
<1>1. PICK n \in Nat : n = Cardinality(S)
  BY FS_CardinalityType
<1>2. ExistsBijection(1..n, S)
  BY <1>1, FS_CardinalityType
<1>3. PICK g \in Bijection(1..n, S) : TRUE
  BY <1>2 DEF ExistsBijection
<1>4. g \in [1..n -> S] /\ IsInjective(g)
  BY <1>3 DEF Bijection, Injection
<1>5. PICK f : f = SetToSeq(S)
  OBVIOUS
<1>6. f = CHOOSE h \in [1..n -> S] : IsInjective(h)
  BY <1>1, <1>5 DEF SetToSeq
<1>7. f \in [1..n -> S] /\ IsInjective(f)
  BY <1>4, <1>6
<1>8. \A i, j \in 1..n : f[i] = f[j] => i = j
  BY <1>7 DEF IsInjective
<1>9. f \in Injection(1..n, S)
  BY <1>7, <1>8 DEF Injection, IsInjective
<1>10. IsFiniteSet(1..n) /\ Cardinality(1..n) = n
  BY FS_Interval
<1>11. f \in Surjection(1..n, S)
  BY <1>1, <1>9, <1>10, FS_Injection
<1>12. \A x \in S : \E i \in 1..n : f[i] = x
  BY <1>11 DEF Surjection
<1>13. f \in Seq(S) /\ DOMAIN f = 1..n /\ Len(f) = n
  BY <1>7
<1> QED
  BY <1>1, <1>5, <1>7, <1>8, <1>12, <1>13

-----------------------------------------------------------------------------
(* Sums. *)

(* The partial sums that Total is defined by exist.                         *)
LEMMA TotalSums ==
  ASSUME NEW s, NEW n \in Nat, n = Len(s)
  PROVE  \E sum : /\ sum = [i \in 0..n |-> IF i = 0 THEN 0 ELSE sum[i - 1] + s[i]]
                  /\ Total(s) = sum[n]
<1> DEFINE Sums(g, m) == g = [i \in 0..m |-> IF i = 0 THEN 0 ELSE g[i - 1] + s[i]]
           P == {m \in 0..n : \E g : Sums(g, m)}
<1>1. 0 \in P
  <2>1. PICK g : g = [i \in 0..0 |-> 0]
    OBVIOUS
  <2>2. Sums(g, 0) /\ 0 \in 0..n
    BY <2>1
  <2> HIDE DEF Sums
  <2> QED
    BY <2>2
<1>2. ASSUME NEW m \in 1..n, m - 1 \in P PROVE m \in P
  <2>1. PICK g : Sums(g, m - 1)
    BY <1>2
  <2> DEFINE h == [i \in 0..m |-> IF i = m THEN g[m - 1] + s[m] ELSE g[i]]
  <2>2. ASSUME NEW i \in 0..m PROVE h[i] = IF i = 0 THEN 0 ELSE h[i - 1] + s[i]
    <3>1. CASE i = m
      <4>1. m - 1 \in 0..m /\ m \in 0..m /\ m - 1 # m /\ m # 0
        OBVIOUS
      <4>2. h[m - 1] = g[m - 1] /\ h[m] = g[m - 1] + s[m]
        BY <4>1
      <4> QED
        BY <3>1, <4>1, <4>2
    <3>2. CASE i # m
      <4>1. i \in 0..(m - 1) /\ h[i] = g[i]
        BY <3>2
      <4>2. g[i] = IF i = 0 THEN 0 ELSE g[i - 1] + s[i]
        BY <2>1, <4>1
      <4>3. i # 0 => h[i - 1] = g[i - 1]
        BY <4>1
      <4> QED
        BY <4>1, <4>2, <4>3
    <3> QED
      BY <3>1, <3>2
  <2>3. h = [i \in 0..m |-> IF i = 0 THEN 0 ELSE h[i - 1] + s[i]]
    <3>1. h = [i \in 0..m |-> h[i]]
      OBVIOUS
    <3> HIDE DEF h
    <3> QED
      BY <2>2, <3>1
  <2>4. Sums(h, m)
    BY <2>3
  <2>5. m \in 0..n /\ \E g2 : Sums(g2, m)
    <3> HIDE DEF h
    <3>1. \E g2 : Sums(g2, m)
      BY <2>4
    <3> QED
      BY <3>1
  <2> QED
    BY <2>5
<1>3. n \in P
  <2>1. 0 \in Int /\ n \in Int /\ n \in 0..n
    OBVIOUS
  <2>2. \A m \in (0 + 1)..n : m - 1 \in P => m \in P
    BY <1>2
  <2> HIDE DEF P
  <2> QED
    BY <1>1, <2>1, <2>2, Climb
<1>4. PICK g : Sums(g, n)
  BY <1>3
<1>5. g = [i \in 0..Len(s) |-> IF i = 0 THEN 0 ELSE g[i - 1] + s[i]]
  BY <1>4
<1>6. \E sum : /\ sum = [i \in 0..Len(s) |-> IF i = 0 THEN 0 ELSE sum[i - 1] + s[i]]
                /\ Total(s) = sum[Len(s)]
  BY <1>5 DEF Total
<1> QED
  BY <1>6

LEMMA TotalInt ==
  ASSUME NEW s \in Seq(Int)
  PROVE  Total(s) \in Int
<1>1. PICK n \in Nat : n = Len(s) /\ DOMAIN s = 1..n
  OBVIOUS
<1>2. PICK sum : /\ sum = [i \in 0..n |-> IF i = 0 THEN 0 ELSE sum[i - 1] + s[i]]
                 /\ Total(s) = sum[n]
  BY <1>1, TotalSums
<1> DEFINE P == {i \in 0..n : sum[i] \in Int}
<1>3. 0 \in P
  BY <1>2
<1>4. ASSUME NEW i \in (0 + 1)..n, i - 1 \in P PROVE i \in P
  <2>1. sum[i] = sum[i - 1] + s[i]
    BY <1>2
  <2>2. s[i] \in Int
    BY <1>1
  <2> QED
    BY <1>4, <2>1, <2>2
<1>5. n \in P
  <2>1. n \in 0..n /\ 0 \in Int /\ n \in Int
    OBVIOUS
  <2> HIDE DEF P
  <2> QED
    BY <1>3, <1>4, <2>1, Climb
<1> QED
  BY <1>2, <1>5

(* A sum is between so many times the bounds of what is summed.             *)
LEMMA TotalBetween ==
  ASSUME NEW lo \in Int, NEW hi \in Int, NEW s \in Seq(Int),
         \A i \in 1..Len(s) : lo <= s[i] /\ s[i] <= hi
  PROVE  Total(s) \in Int /\ Len(s) * lo <= Total(s) /\ Total(s) <= Len(s) * hi
<1>1. PICK n \in Nat : n = Len(s) /\ DOMAIN s = 1..n
  OBVIOUS
<1>2. PICK sum : /\ sum = [i \in 0..n |-> IF i = 0 THEN 0 ELSE sum[i - 1] + s[i]]
                 /\ Total(s) = sum[n]
  BY <1>1, TotalSums
<1> DEFINE P == {i \in 0..n : sum[i] \in Int /\ i * lo <= sum[i] /\ sum[i] <= i * hi}
<1>3. 0 \in P
  BY <1>2
<1>4. ASSUME NEW i \in (0 + 1)..n, i - 1 \in P PROVE i \in P
  <2>1. sum[i] = sum[i - 1] + s[i]
    BY <1>2
  <2>2. s[i] \in Int /\ lo <= s[i] /\ s[i] <= hi
    BY <1>1
  <2>3. i * lo = (i - 1) * lo + lo /\ i * hi = (i - 1) * hi + hi
    OBVIOUS
  <2>4. (i - 1) * lo \in Int /\ (i - 1) * hi \in Int
    OBVIOUS
  <2>5. sum[i - 1] \in Int /\ (i - 1) * lo <= sum[i - 1] /\ sum[i - 1] <= (i - 1) * hi
    BY <1>4
  <2> QED
    BY <2>1, <2>2, <2>3, <2>4, <2>5
<1>5. n \in P
  <2>1. n \in 0..n /\ 0 \in Int /\ n \in Int
    OBVIOUS
  <2> HIDE DEF P
  <2> QED
    BY <1>3, <1>4, <2>1, Climb
<1> QED
  BY <1>1, <1>2, <1>5

LEMMA TotalNat ==
  ASSUME NEW s \in Seq(Nat)
  PROVE  Total(s) \in Nat
<1>1. PICK n \in Nat : n = Len(s) /\ DOMAIN s = 1..n
  OBVIOUS
<1>2. PICK sum : /\ sum = [i \in 0..n |-> IF i = 0 THEN 0 ELSE sum[i - 1] + s[i]]
                 /\ Total(s) = sum[n]
  BY <1>1, TotalSums
<1> DEFINE P == {i \in 0..n : sum[i] \in Nat}
<1>3. 0 \in P
  BY <1>2
<1>4. ASSUME NEW i \in (0 + 1)..n, i - 1 \in P PROVE i \in P
  <2>1. sum[i] = sum[i - 1] + s[i]
    BY <1>2
  <2>2. s[i] \in Nat
    BY <1>1
  <2> QED
    BY <1>4, <2>1, <2>2
<1>5. n \in P
  <2>1. n \in 0..n /\ 0 \in Int /\ n \in Int
    OBVIOUS
  <2> HIDE DEF P
  <2> QED
    BY <1>3, <1>4, <2>1, Climb
<1> QED
  BY <1>2, <1>5

(* The sum of five numbers, written out.                                    *)
LEMMA TotalOfFive ==
  ASSUME NEW s \in [1..5 -> Int]
  PROVE  Total(s) = s[1] + s[2] + s[3] + s[4] + s[5]
<1>1. Len(s) = 5
  OBVIOUS
<1>2. PICK sum : /\ sum = [i \in 0..5 |-> IF i = 0 THEN 0 ELSE sum[i - 1] + s[i]]
                 /\ Total(s) = sum[5]
  BY <1>1, TotalSums
<1>3. /\ sum[0] = 0 /\ sum[1] = sum[0] + s[1] /\ sum[2] = sum[1] + s[2]
      /\ sum[3] = sum[2] + s[3] /\ sum[4] = sum[3] + s[4] /\ sum[5] = sum[4] + s[5]
  BY <1>2
<1> QED
  BY <1>2, <1>3

-----------------------------------------------------------------------------
(* Recursion along a list, and division.                                    *)

(* g is first at lo, and after it what F makes of the value before.         *)
Follows(g, lo, hi, first, F) ==
    g[lo] = first /\ \A i \in (lo + 1)..hi : g[i] = F[i][g[i - 1]]

(* A function that is first at lo, and after it made of the value before, is *)
(* there, and has its values where first and F have theirs.                  *)
LEMMA RecursionExists ==
  ASSUME NEW V, NEW lo \in Int, NEW hi \in Int, lo <= hi, NEW first \in V,
         NEW F \in [(lo + 1)..hi -> [V -> V]]
  PROVE  \E g \in [lo..hi -> V] : Follows(g, lo, hi, first, F)
<1> DEFINE Steps(g, m) == g = [i \in lo..m |-> IF i = lo THEN first ELSE F[i][g[i - 1]]]
           P == {m \in lo..hi : \E g \in [lo..m -> V] : Steps(g, m)}
<1>1. lo \in P
  <2>1. PICK g : g = [i \in lo..lo |-> first]
    OBVIOUS
  <2>2. \A i \in lo..lo : i = lo
    OBVIOUS
  <2>3. g = [i \in lo..lo |-> IF i = lo THEN first ELSE F[i][g[i - 1]]]
    BY <2>1, <2>2
  <2>4. Steps(g, lo) /\ lo \in lo..hi
    BY <2>3
  <2>5. g \in [lo..lo -> V]
    BY <2>1
  <2> HIDE DEF Steps
  <2> QED
    BY <2>4, <2>5
<1>2. ASSUME NEW m \in (lo + 1)..hi, m - 1 \in P PROVE m \in P
  <2>1. PICK g \in [lo..(m - 1) -> V] : Steps(g, m - 1)
    BY <1>2
  <2> DEFINE h == [i \in lo..m |-> IF i = m THEN F[m][g[m - 1]] ELSE g[i]]
  <2>2. /\ m - 1 \in lo..(m - 1) /\ m - 1 \in lo..m /\ m \in lo..m /\ m - 1 # m /\ m # lo
        /\ m \in lo..hi
    OBVIOUS
  <2>3. g[m - 1] \in V /\ F[m][g[m - 1]] \in V
    <3>1. g[m - 1] \in V
      BY <2>2
    <3>2. m \in (lo + 1)..hi /\ F[m] \in [V -> V]
      OBVIOUS
    <3> QED
      BY <3>1, <3>2
  <2>4. h \in [lo..m -> V]
    <3>1. ASSUME NEW i \in lo..m PROVE (IF i = m THEN F[m][g[m - 1]] ELSE g[i]) \in V
      <4>1. i # m => i \in lo..(m - 1)
        OBVIOUS
      <4> QED
        BY <2>3, <4>1
    <3> QED
      BY <3>1
  <2>5. ASSUME NEW i \in lo..m PROVE h[i] = IF i = lo THEN first ELSE F[i][h[i - 1]]
    <3>1. CASE i = m
      <4>1. h[m - 1] = g[m - 1] /\ h[m] = F[m][g[m - 1]]
        BY <2>2
      <4> HIDE DEF h
      <4> QED
        BY <2>2, <3>1, <4>1
    <3>2. CASE i # m
      <4>1. i \in lo..(m - 1) /\ h[i] = g[i]
        BY <3>2
      <4>2. g[i] = IF i = lo THEN first ELSE F[i][g[i - 1]]
        BY <2>1, <4>1
      <4>3. i # lo => h[i - 1] = g[i - 1]
        BY <4>1
      <4> HIDE DEF h
      <4> QED
        BY <4>1, <4>2, <4>3
    <3> QED
      BY <3>1, <3>2
  <2>6. h = [i \in lo..m |-> IF i = lo THEN first ELSE F[i][h[i - 1]]]
    <3>1. h = [i \in lo..m |-> h[i]]
      OBVIOUS
    <3> HIDE DEF h
    <3> QED
      BY <2>5, <3>1
  <2>7. Steps(h, m)
    BY <2>6
  <2> HIDE DEF h, Steps
  <2> QED
    BY <2>2, <2>4, <2>7
<1>3. hi \in P
  <2>1. hi \in lo..hi
    OBVIOUS
  <2> HIDE DEF P
  <2> QED
    BY <1>1, <1>2, <2>1, Climb
<1>4. PICK g \in [lo..hi -> V] : Steps(g, hi)
  BY <1>3
<1>5. g[lo] = first
  BY <1>4
<1>6. ASSUME NEW i \in (lo + 1)..hi PROVE g[i] = F[i][g[i - 1]]
  <2>1. i \in lo..hi /\ i # lo
    OBVIOUS
  <2> QED
    BY <1>4, <2>1
<1> QED
  BY <1>5, <1>6 DEF Follows

LEMMA Division ==
  ASSUME NEW a \in Int, NEW b \in Nat \ {0}
  PROVE  /\ a \div b \in Int
         /\ (a \div b) * b <= a /\ a < (a \div b) * b + b
         /\ \A k \in Int : a <= k * b => a \div b <= k
         /\ \A k \in Int : k * b <= a => k <= a \div b
<1>1. PICK q : q = a \div b
  OBVIOUS
<1>2. q \in Int
  BY <1>1
<1>3. q * b <= a /\ a < q * b + b
  BY <1>1
<1>4. ASSUME NEW k \in Int, a <= k * b PROVE q <= k
  BY <1>2, <1>3, <1>4
<1>5. ASSUME NEW k \in Int, k * b <= a PROVE k <= q
  BY <1>2, <1>3, <1>5
<1> QED
  BY <1>1, <1>2, <1>3, <1>4, <1>5

-----------------------------------------------------------------------------
(* Lists without repetition.                                                *)

NoRepeats(s) == \A i, j \in DOMAIN s : s[i] = s[j] => i = j

LEMMA CountOnce ==
  ASSUME NEW T, NEW s \in Seq(T), NoRepeats(s)
  PROVE  IsFiniteSet(Range(s)) /\ Cardinality(Range(s)) = Len(s)
<1>1. PICK n \in Nat : n = Len(s) /\ DOMAIN s = 1..n
  OBVIOUS
<1>2. IsFiniteSet(1..n) /\ Cardinality(1..n) = n
  BY FS_Interval
<1>3. s \in Bijection(1..n, Range(s))
  <2>1. s \in [1..n -> Range(s)]
    <3>1. s = [i \in 1..n |-> s[i]]
      BY <1>1
    <3> QED
      BY <1>1, <3>1 DEF Range
  <2>2. \A i, j \in 1..n : s[i] = s[j] => i = j
    BY <1>1 DEF NoRepeats
  <2>3. \A y \in Range(s) : \E i \in 1..n : s[i] = y
    BY <1>1 DEF Range
  <2> QED
    BY <2>1, <2>2, <2>3 DEF Bijection, Injection, Surjection, IsInjective
<1>4. IsFiniteSet(Range(s)) /\ Cardinality(Range(s)) = Cardinality(1..n)
  <2>1. ExistsBijection(1..n, Range(s))
    BY <1>3 DEF ExistsBijection
  <2> QED
    BY <1>2, <2>1, FS_Bijection
<1> QED
  BY <1>1, <1>2, <1>4

(* One more at the end, when c says so.                                     *)
LEMMA AddWhen ==
  ASSUME NEW T, NEW s \in Seq(T), NoRepeats(s), NEW x \in T, x \notin Range(s), NEW c
  PROVE  LET t == s \o (IF c THEN <<x>> ELSE <<>>)
         IN  t \in Seq(T) /\ NoRepeats(t) /\ Range(t) = Range(s) \cup (IF c THEN {x} ELSE {})
<1>1. PICK t : t = s \o (IF c THEN <<x>> ELSE <<>>)
  OBVIOUS
<1>2. PICK n \in Nat : n = Len(s) /\ DOMAIN s = 1..n
  OBVIOUS
<1>3. CASE c
  <2>1. t = s \o <<x>>
    BY <1>1, <1>3
  <2>2. /\ t \in Seq(T) /\ Len(t) = n + 1 /\ DOMAIN t = 1..(n + 1)
        /\ t[n + 1] = x /\ \A i \in 1..n : t[i] = s[i]
    BY <1>2, <2>1
  <2>3. ASSUME NEW i \in 1..(n + 1), NEW j \in 1..(n + 1), t[i] = t[j] PROVE i = j
    <3>1. CASE i = n + 1 /\ j = n + 1
      BY <3>1
    <3>2. CASE i \in 1..n /\ j \in 1..n
      BY <1>2, <2>2, <2>3, <3>2 DEF NoRepeats
    <3>3. \A k \in 1..n : t[k] \in Range(s)
      BY <1>2, <2>2 DEF Range
    <3>4. ~(i = n + 1 /\ j \in 1..n) /\ ~(j = n + 1 /\ i \in 1..n)
      BY <2>2, <2>3, <3>3
    <3>5. (i = n + 1 \/ i \in 1..n) /\ (j = n + 1 \/ j \in 1..n)
      OBVIOUS
    <3> QED
      BY <3>1, <3>2, <3>4, <3>5
  <2>4. Range(t) = Range(s) \cup {x}
    <3>1. \A y \in Range(t) : y \in Range(s) \cup {x}
      <4>1. ASSUME NEW i \in 1..(n + 1) PROVE t[i] \in Range(s) \cup {x}
        <5>1. i = n + 1 \/ i \in 1..n
          OBVIOUS
        <5> QED
          BY <1>2, <2>2, <5>1 DEF Range
      <4> QED
        BY <2>2, <4>1 DEF Range
    <3>2. \A y \in Range(s) : y \in Range(t)
      <4>1. ASSUME NEW i \in 1..n PROVE s[i] \in Range(t)
        <5>1. i \in 1..(n + 1) /\ t[i] = s[i]
          BY <2>2
        <5> QED
          BY <2>2, <5>1 DEF Range
      <4> QED
        BY <1>2, <4>1 DEF Range
    <3>3. x \in Range(t)
      BY <2>2 DEF Range
    <3> QED
      BY <3>1, <3>2, <3>3
  <2>5. NoRepeats(t)
    BY <2>2, <2>3 DEF NoRepeats
  <2> QED
    BY <1>1, <1>3, <2>2, <2>4, <2>5
<1>4. CASE ~c
  <2>1. t = s \o <<>>
    BY <1>1, <1>4
  <2>2. t = s
    BY <2>1
  <2> QED
    BY <1>1, <1>4, <2>2
<1> QED
  BY <1>3, <1>4

LEMMA ListedNone == SetToSeq({}) = <<>>
<1>1. IsFiniteSet({}) /\ Cardinality({}) = 0
  BY FS_EmptySet
<1>2. PICK s : s = SetToSeq({})
  OBVIOUS
<1>3. s \in [1..0 -> {}]
  BY <1>1, <1>2, ListedOnce
<1> QED
  BY <1>2, <1>3

(* A set that is arranged is listed, once each.                             *)
LEMMA ArrangedOnce ==
  ASSUME NEW S, IsFiniteSet(S), NEW R, Orders(R, S)
  PROVE  NoRepeats(Arranged(S, R)) /\ Range(Arranged(S, R)) = S
<1>1. PICK n \in Nat : \E s \in [1..n -> S] :
         /\ s = Arranged(S, R)
         /\ \A i, j \in 1..n : i < j => <<s[i], s[j]>> \in R
         /\ \A x \in S : \E i \in 1..n : s[i] = x
  BY ArrangedSet
<1>2. PICK s \in [1..n -> S] :
         /\ s = Arranged(S, R)
         /\ \A i, j \in 1..n : i < j => <<s[i], s[j]>> \in R
         /\ \A x \in S : \E i \in 1..n : s[i] = x
  BY <1>1
<1>3. ASSUME NEW i \in 1..n, NEW j \in 1..n, i < j PROVE s[i] # s[j]
  <2>1. <<s[i], s[j]>> \in R /\ s[i] \in S
    BY <1>2, <1>3
  <2>2. <<s[i], s[i]>> \notin R
    BY <2>1 DEF Orders
  <2> QED
    BY <2>1, <2>2
<1>4. NoRepeats(s)
  <2> SUFFICES ASSUME NEW i \in 1..n, NEW j \in 1..n, s[i] = s[j] PROVE i = j
    BY DEF NoRepeats
  <2> QED
    BY <1>3
<1>5. Range(s) = S
  BY <1>2 DEF Range
<1> QED
  BY <1>2, <1>4, <1>5

=============================================================================
