-------------------------- MODULE LLMGatewayProofs --------------------------
(***************************************************************************)
(* Proofs about the failover chain and its breakers, for every value of    *)
(* the constants: any number of providers and jobs, any threshold, window  *)
(* and cool-down, with the monotonic clock wired or not.                   *)
(***************************************************************************)
EXTENDS LLMGatewayProperties, FiniteSetTheorems, SequenceTheorems, TLAPS

(* The least of some natural numbers.                                       *)
LEMMA LeastNumber ==
  ASSUME NEW K \in SUBSET Nat, K # {}
  PROVE  \E m \in K : \A k \in K : m <= k
<1> DEFINE Less == OpToRel(<, Nat)
<1>1. IsWellFoundedOn(Less, Nat)
  BY NatLessThanWellFounded
<1>2. \A x, y \in Nat : <<x, y>> \in Less <=> x < y
  BY DEF OpToRel
<1> HIDE DEF Less
<1>3. PICK m \in K : \A k \in K : ~(<<k, m>> \in Less)
  BY <1>1, WFMin
<1>4. ASSUME NEW k \in K PROVE m <= k
  <2>1. m \in Nat /\ k \in Nat /\ ~(<<k, m>> \in Less)
    BY <1>3
  <2>2. ~(k < m)
    BY <1>2, <2>1
  <2> QED
    BY <2>1, <2>2
<1> QED
  BY <1>4

(* The loop of _prune: the old failures taken off the left end.             *)
LEMMA PruneDrops ==
  ASSUME NEW failures \in Seq(Nat), NEW now \in Nat
  PROVE  \E d \in 0..Len(failures) :
            /\ Prune(failures, now) \in Seq(Nat)
            /\ Len(Prune(failures, now)) = Len(failures) - d
            /\ \A k \in 1..(Len(failures) - d) : Prune(failures, now)[k] = failures[d + k]
            /\ \A k \in 1..d : failures[k] + WindowSeconds < now
            /\ d < Len(failures) => failures[d + 1] + WindowSeconds >= now
<1> DEFINE L == Len(failures)
           Old(k) == failures[k] + WindowSeconds < now
           First(k) == /\ \A j \in 1..k - 1 : Old(j)
                       /\ k <= L => ~Old(k)
           K == {k \in 1..L : ~Old(k)} \cup {L + 1}
<1>1. L \in Nat
  OBVIOUS
<1>2. PICK m \in K : \A k \in K : m <= k
  <2>1. K \in SUBSET Nat /\ K # {}
    BY <1>1
  <2> QED
    BY <2>1, LeastNumber
<1>3. m \in 1..L + 1 /\ First(m)
  BY <1>1, <1>2
<1>4. PICK kept \in 1..L + 1 : First(kept) /\ Prune(failures, now) = SubSeq(failures, kept, L)
  BY <1>3 DEF Prune
<1> HIDE DEF L
<1>5. PICK d \in 0..L : d = kept - 1
  BY <1>1, <1>4
<1>6. \A i \in kept..L : failures[i] \in Nat
  BY <1>4 DEF L
<1>7. /\ SubSeq(failures, kept, L) \in Seq(Nat)
      /\ Len(SubSeq(failures, kept, L)) = IF kept <= L THEN L - kept + 1 ELSE 0
      /\ \A i \in 1..L - kept + 1 : SubSeq(failures, kept, L)[i] = failures[kept + i - 1]
  BY <1>1, <1>4, <1>6, SubSeqProperties
<1>8. /\ Prune(failures, now) \in Seq(Nat)
      /\ Len(Prune(failures, now)) = L - d
      /\ \A k \in 1..(L - d) : Prune(failures, now)[k] = failures[d + k]
  BY <1>1, <1>4, <1>5, <1>7
<1>9. \A k \in 1..d : failures[k] + WindowSeconds < now
  BY <1>4, <1>5
<1>10. d < L => failures[d + 1] + WindowSeconds >= now
  <2>1. d < L => d + 1 \in 1..L /\ d + 1 = kept /\ kept <= L
    BY <1>1, <1>5
  <2>2. d < L => failures[d + 1] \in Nat
    BY <2>1 DEF L
  <2> QED
    BY <1>4, <2>1, <2>2, BreakerAssumption
<1> QED
  BY <1>8, <1>9, <1>10 DEF L

LEMMA ReadKeepsOrder ==
  ASSUME NEW a \in Nat, NEW b \in Nat, a <= b
  PROVE  Read(a) \in Nat /\ Read(b) \in Nat /\ Read(a) <= Read(b)
BY DEF Read

-----------------------------------------------------------------------------
(* The history of a provider, one record later.  It depends on the records  *)
(* it is asked about, and only on the calls among them.                     *)
LEMMA SamePrefix ==
  ASSUME NEW n \in Nat, NEW log, NEW other, \A i \in 1..n : other[i] = log[i], NEW p
  PROVE  /\ CallsOf(other, p, n) = CallsOf(log, p, n)
         /\ Unanswered(other, p, n) = Unanswered(log, p, n)
         /\ \A i \in CallsOf(log, p, n) : Burst(other, p, n, i) = Burst(log, p, n, i)
         /\ FailedInWindow(other, p, n) <=> FailedInWindow(log, p, n)
         /\ LastCalls(other, p, n) = LastCalls(log, p, n)
         /\ \A t : Cooling(other, p, n, t) <=> Cooling(log, p, n, t)
<1>1. CallsOf(other, p, n) = CallsOf(log, p, n)
  BY DEF CallsOf
<1>2. \A i \in CallsOf(log, p, n) : other[i] = log[i]
  BY DEF CallsOf
<1>3. Unanswered(other, p, n) = Unanswered(log, p, n)
  BY <1>1, <1>2 DEF Unanswered
<1>4. \A i \in CallsOf(log, p, n) : Burst(other, p, n, i) = Burst(log, p, n, i)
  BY <1>1, <1>2 DEF Burst
<1>5. FailedInWindow(other, p, n) <=> FailedInWindow(log, p, n)
  BY <1>3, <1>4 DEF FailedInWindow, Unanswered
<1>6. LastCalls(other, p, n) = LastCalls(log, p, n)
  BY <1>1 DEF LastCalls
<1>7. \A t : Cooling(other, p, n, t) <=> Cooling(log, p, n, t)
  BY <1>2, <1>6 DEF Cooling, LastCalls
<1> QED
  BY <1>1, <1>3, <1>4, <1>5, <1>6, <1>7

LEMMA NotItsCall ==
  ASSUME NEW n \in Nat, NEW log, NEW other, \A i \in 1..n : other[i] = log[i], NEW p,
         other[n + 1].provider # p \/ other[n + 1].outcome = "circuit_open"
  PROVE  /\ CallsOf(other, p, n + 1) = CallsOf(log, p, n)
         /\ Unanswered(other, p, n + 1) = Unanswered(log, p, n)
         /\ FailedInWindow(other, p, n + 1) <=> FailedInWindow(log, p, n)
         /\ LastCalls(other, p, n + 1) = LastCalls(log, p, n)
<1>1. CallsOf(other, p, n + 1) = CallsOf(log, p, n)
  BY DEF CallsOf
<1>2. \A i \in CallsOf(log, p, n) : other[i] = log[i]
  BY DEF CallsOf
<1>3. Unanswered(other, p, n + 1) = Unanswered(log, p, n)
  BY <1>1, <1>2 DEF Unanswered
<1>4. \A i \in CallsOf(log, p, n) : Burst(other, p, n + 1, i) = Burst(log, p, n, i)
  BY <1>1, <1>2 DEF Burst
<1>5. FailedInWindow(other, p, n + 1) <=> FailedInWindow(log, p, n)
  BY <1>3, <1>4 DEF FailedInWindow, Unanswered
<1>6. LastCalls(other, p, n + 1) = LastCalls(log, p, n)
  BY <1>1 DEF LastCalls
<1> QED
  BY <1>1, <1>3, <1>5, <1>6

LEMMA ItsCall ==
  ASSUME NEW n \in Nat, NEW log, NEW other, \A i \in 1..n : other[i] = log[i], NEW p,
         other[n + 1].provider = p, other[n + 1].outcome # "circuit_open"
  PROVE  /\ CallsOf(other, p, n + 1) = CallsOf(log, p, n) \cup {n + 1}
         /\ LastCalls(other, p, n + 1) = {n + 1}
         /\ other[n + 1].outcome = "success" => Unanswered(other, p, n + 1) = {}
         /\ other[n + 1].outcome # "success" =>
               Unanswered(other, p, n + 1) = Unanswered(log, p, n) \cup {n + 1}
<1>1. CallsOf(other, p, n + 1) = CallsOf(log, p, n) \cup {n + 1}
  BY DEF CallsOf
<1>2. \A i \in CallsOf(log, p, n) : i \in 1..n /\ other[i] = log[i] /\ n + 1 >= i /\ ~(i >= n + 1)
  BY DEF CallsOf
<1>3. LastCalls(other, p, n + 1) = {n + 1}
  BY <1>1, <1>2 DEF LastCalls
<1>4. other[n + 1].outcome = "success" => Unanswered(other, p, n + 1) = {}
  BY <1>1, <1>2 DEF Unanswered
<1>5. ASSUME other[n + 1].outcome # "success"
      PROVE  Unanswered(other, p, n + 1) = Unanswered(log, p, n) \cup {n + 1}
  <2>1. ASSUME NEW i \in CallsOf(log, p, n)
        PROVE  i \in Unanswered(other, p, n + 1) <=> i \in Unanswered(log, p, n)
    BY <1>1, <1>2, <1>5 DEF Unanswered
  <2>2. n + 1 \in Unanswered(other, p, n + 1)
    BY <1>1, <1>2, <1>5 DEF Unanswered
  <2>3. Unanswered(log, p, n) \subseteq CallsOf(log, p, n)
    BY DEF Unanswered
  <2>4. Unanswered(other, p, n + 1) \subseteq CallsOf(log, p, n) \cup {n + 1}
    BY <1>1 DEF Unanswered
  <2> QED
    BY <2>1, <2>2, <2>3, <2>4
<1> QED
  BY <1>1, <1>3, <1>4, <1>5

LEMMA BurstIsFinite ==
  ASSUME NEW n \in Nat, NEW log, NEW p, NEW i
  PROVE  IsFiniteSet(Burst(log, p, n, i)) /\ Cardinality(Burst(log, p, n, i)) \in Nat
<1>1. IsFiniteSet(1..n)
  BY FS_Interval
<1>2. Burst(log, p, n, i) \in SUBSET (1..n)
  BY DEF Burst, CallsOf
<1>3. IsFiniteSet(Burst(log, p, n, i))
  BY <1>1, <1>2, FS_Subset
<1> QED
  BY <1>3, FS_CardinalityType

LEMMA StillFailed ==
  ASSUME NEW n \in Nat, NEW log, NEW other, \A i \in 1..n : other[i] = log[i], NEW p,
         other[n + 1].provider = p, other[n + 1].outcome \in {"error", "timeout"},
         FailedInWindow(log, p, n)
  PROVE  FailedInWindow(other, p, n + 1)
<1>1. PICK i \in Unanswered(log, p, n) :
         Cardinality(Burst(log, p, n, i)) >= FailureThreshold
  BY DEF FailedInWindow
<1>2. /\ CallsOf(other, p, n + 1) = CallsOf(log, p, n) \cup {n + 1}
      /\ Unanswered(other, p, n + 1) = Unanswered(log, p, n) \cup {n + 1}
  <2>1. other[n + 1].outcome # "circuit_open" /\ other[n + 1].outcome # "success"
    OBVIOUS
  <2> QED
    BY <2>1, ItsCall
<1>3. \A j \in CallsOf(log, p, n) : other[j] = log[j]
  BY DEF CallsOf
<1>4. i \in CallsOf(log, p, n)
  BY <1>1 DEF Unanswered
<1>5. Burst(log, p, n, i) \in SUBSET Burst(other, p, n + 1, i)
  BY <1>2, <1>3, <1>4 DEF Burst
<1>6. PICK m \in Nat : m = n + 1
  OBVIOUS
<1>7. IsFiniteSet(Burst(other, p, m, i)) /\ Cardinality(Burst(other, p, m, i)) \in Nat
      /\ Cardinality(Burst(log, p, n, i)) \in Nat
  BY BurstIsFinite
<1>8. Cardinality(Burst(log, p, n, i)) <= Cardinality(Burst(other, p, m, i))
  BY <1>5, <1>6, <1>7, FS_Subset
<1>9. Cardinality(Burst(other, p, m, i)) >= FailureThreshold
  BY <1>1, <1>7, <1>8, BreakerAssumption
<1> QED
  BY <1>1, <1>2, <1>6, <1>9 DEF FailedInWindow

-----------------------------------------------------------------------------
(* The deque.  A failed call joins it and the old ones leave.               *)
LEMMA DequeAfterFailure ==
  ASSUME NEW n \in Nat, NEW log, NEW other, \A i \in 1..n : other[i] = log[i], NEW p,
         other[n + 1].provider = p, other[n + 1].outcome \in {"error", "timeout"},
         NEW now \in Nat, now = Read(other[n + 1].at),
         NEW earlier \in Nat, earlier <= now,
         \A i, j \in 1..n : /\ Read(log[i].at) \in Nat
                            /\ i <= j => Read(log[i].at) <= Read(log[j].at),
         \A i \in 1..n : Read(log[i].at) <= now,
         NEW failures \in Seq(Nat),
         DequeKept(failures, log, p, n, earlier)
  PROVE  LET kept == Prune(Append(failures, now), now) IN
         /\ kept \in Seq(Nat)
         /\ DequeKept(kept, other, p, n + 1, now)
         /\ \A k \in DOMAIN kept : kept[k] + WindowSeconds >= now
<1> DEFINE all == Append(failures, now)
           kept == Prune(all, now)
           L == Len(failures)
<1>1. /\ L \in Nat /\ all \in Seq(Nat) /\ Len(all) = L + 1
      /\ \A k \in 1..L : all[k] = failures[k]
      /\ all[L + 1] = now
      /\ DOMAIN failures = 1..L
  OBVIOUS
<1>2. PICK call \in [1..L -> Unanswered(log, p, n)] :
        /\ \A j, k \in 1..L : j < k => call[j] < call[k]
        /\ \A k \in 1..L : failures[k] = Read(log[call[k]].at)
        /\ \A i \in Unanswered(log, p, n) :
              \/ \E k \in 1..L : call[k] = i
              \/ Read(log[i].at) + WindowSeconds < earlier
  <2>1. PICK D : D = DOMAIN failures
    OBVIOUS
  <2>2. \E call \in [D -> Unanswered(log, p, n)] :
           /\ \A j, k \in D : j < k => call[j] < call[k]
           /\ \A k \in D : failures[k] = Read(log[call[k]].at)
           /\ \A i \in Unanswered(log, p, n) :
                 \/ \E k \in D : call[k] = i
                 \/ Read(log[i].at) + WindowSeconds < earlier
    BY <2>1, Zenon DEF DequeKept
  <2>3. D = 1..L
    BY <1>1, <2>1
  <2> HIDE DEF L
  <2> QED
    BY <2>2, <2>3
<1> HIDE DEF L, all
<1>3. PICK d \in 0..(L + 1) :
        /\ kept \in Seq(Nat)
        /\ Len(kept) = L + 1 - d
        /\ \A k \in 1..(L + 1 - d) : kept[k] = all[d + k]
        /\ \A k \in 1..d : all[k] + WindowSeconds < now
        /\ d < L + 1 => all[d + 1] + WindowSeconds >= now
  <2>1. \E d \in 0..Len(all) :
           /\ kept \in Seq(Nat)
           /\ Len(kept) = Len(all) - d
           /\ \A k \in 1..(Len(all) - d) : kept[k] = all[d + k]
           /\ \A k \in 1..d : all[k] + WindowSeconds < now
           /\ d < Len(all) => all[d + 1] + WindowSeconds >= now
    BY <1>1, PruneDrops
  <2> HIDE DEF kept
  <2> QED
    BY <1>1, <2>1
<1> HIDE DEF kept
<1> DEFINE M == L + 1 - d
           longer == [k \in 1..(L + 1) |-> IF k = L + 1 THEN n + 1 ELSE call[k]]
           newCall == [k \in 1..M |-> longer[d + k]]
<1>4. /\ M \in Nat /\ DOMAIN kept = 1..M
      /\ \A k \in 1..M : d + k \in 1..(L + 1)
  BY <1>1, <1>3
<1>5. Unanswered(other, p, n + 1) = Unanswered(log, p, n) \cup {n + 1}
  <2>1. other[n + 1].outcome # "circuit_open" /\ other[n + 1].outcome # "success"
    OBVIOUS
  <2> QED
    BY <2>1, ItsCall
<1>6. Unanswered(log, p, n) \subseteq 1..n
  BY DEF Unanswered, CallsOf
<1>7. /\ longer \in [1..(L + 1) -> Unanswered(other, p, n + 1)]
      /\ \A k \in 1..L : longer[k] = call[k] /\ call[k] \in 1..n
      /\ longer[L + 1] = n + 1
  BY <1>1, <1>2, <1>5, <1>6
<1> HIDE DEF longer
<1>8. \A j, k \in 1..(L + 1) : j < k => longer[j] < longer[k]
  <2> SUFFICES ASSUME NEW j \in 1..(L + 1), NEW k \in 1..(L + 1), j < k
               PROVE  longer[j] < longer[k]
    OBVIOUS
  <2>1. j \in 1..L
    BY <1>1
  <2>2. CASE k = L + 1
    BY <1>7, <2>1, <2>2
  <2>3. CASE k # L + 1
    <3>1. k \in 1..L
      BY <1>1, <2>3
    <3> QED
      BY <1>2, <1>7, <2>1, <3>1
  <2> QED
    BY <2>2, <2>3
<1>9. \A k \in 1..(L + 1) : all[k] = Read(other[longer[k]].at)
  <2> SUFFICES ASSUME NEW k \in 1..(L + 1) PROVE all[k] = Read(other[longer[k]].at)
    OBVIOUS
  <2>1. CASE k = L + 1
    BY <1>1, <1>7, <2>1
  <2>2. CASE k # L + 1
    <3>1. k \in 1..L
      BY <1>1, <2>2
    <3>2. longer[k] = call[k] /\ other[call[k]] = log[call[k]]
      BY <1>7, <3>1
    <3> QED
      BY <1>1, <1>2, <3>1, <3>2
  <2> QED
    BY <2>1, <2>2
<1>10. /\ newCall \in [1..M -> Unanswered(other, p, n + 1)]
       /\ \A k \in 1..M : newCall[k] = longer[d + k]
  BY <1>4, <1>7
<1> HIDE DEF newCall
<1>11. \A j, k \in 1..M : j < k => newCall[j] < newCall[k]
  <2> SUFFICES ASSUME NEW j \in 1..M, NEW k \in 1..M, j < k PROVE newCall[j] < newCall[k]
    OBVIOUS
  <2>1. d + j \in 1..(L + 1) /\ d + k \in 1..(L + 1) /\ d + j < d + k
    BY <1>1, <1>3, <1>4
  <2> QED
    BY <1>8, <1>10, <2>1
<1>12. \A k \in 1..M : kept[k] = Read(other[newCall[k]].at)
  BY <1>3, <1>4, <1>9, <1>10
<1>13. ASSUME NEW i \in Unanswered(other, p, n + 1), ~\E k \in 1..M : newCall[k] = i
       PROVE  Read(other[i].at) + WindowSeconds < now
  <2>1. CASE \E k \in 1..(L + 1) : longer[k] = i
    <3>1. PICK k \in 1..(L + 1) : longer[k] = i
      BY <2>1
    <3>2. k \in 1..d
      <4>1. CASE k > d
        <5>1. k - d \in 1..M /\ d + (k - d) = k
          BY <1>1, <1>3, <4>1
        <5>2. newCall[k - d] = i
          BY <1>10, <3>1, <5>1
        <5> QED
          BY <1>13, <5>1, <5>2
      <4> QED
        BY <1>1, <1>3, <4>1
    <3> QED
      BY <1>3, <1>9, <3>1, <3>2
  <2>2. CASE ~\E k \in 1..(L + 1) : longer[k] = i
    <3>1. i # n + 1
      BY <1>1, <1>7, <2>2
    <3>2. i \in Unanswered(log, p, n) /\ ~\E k \in 1..L : call[k] = i
      BY <1>1, <1>5, <1>7, <2>2, <3>1
    <3>3. Read(log[i].at) + WindowSeconds < earlier /\ i \in 1..n
      BY <1>2, <1>6, <3>2
    <3>4. Read(log[i].at) \in Nat /\ other[i] = log[i]
      BY <3>3
    <3> QED
      BY <3>3, <3>4, BreakerAssumption
  <2> QED
    BY <2>1, <2>2
<1>14. DequeKept(kept, other, p, n + 1, now)
  <2>1. PICK D : D = DOMAIN kept
    OBVIOUS
  <2>2. D = 1..M
    BY <1>4, <2>1
  <2>3. \E c \in [D -> Unanswered(other, p, n + 1)] :
           /\ \A j, k \in D : j < k => c[j] < c[k]
           /\ \A k \in D : kept[k] = Read(other[c[k]].at)
           /\ \A i \in Unanswered(other, p, n + 1) :
                 \/ \E k \in D : c[k] = i
                 \/ Read(other[i].at) + WindowSeconds < now
    <3> HIDE DEF M
    <3>1. newCall \in [D -> Unanswered(other, p, n + 1)]
      BY <1>10, <2>2
    <3> QED
      BY <1>11, <1>12, <1>13, <2>2, <3>1
  <2> QED
    BY <2>1, <2>3, Zenon DEF DequeKept
<1>15. ASSUME NEW k \in 1..M PROVE kept[k] + WindowSeconds >= now
  <2>1. d < L + 1 /\ d + 1 \in 1..(L + 1) /\ d + k \in 1..(L + 1) /\ d + 1 <= d + k
    BY <1>1, <1>3, <1>4
  <2>2. all[d + 1] + WindowSeconds >= now
    BY <1>3, <2>1
  <2>3. all[d + 1] <= all[d + k] /\ all[d + 1] \in Nat /\ all[d + k] \in Nat
    <3>1. ASSUME NEW a \in 1..(L + 1), NEW b \in 1..(L + 1), a <= b
          PROVE  all[a] <= all[b]
      <4>1. CASE b = L + 1
        <5>1. CASE a = L + 1
          BY <1>1, <4>1, <5>1
        <5>2. CASE a # L + 1
          <6>1. a \in 1..L
            BY <1>1, <5>2
          <6>2. all[a] = Read(log[call[a]].at) /\ call[a] \in 1..n
            BY <1>1, <1>2, <1>7, <6>1
          <6> QED
            BY <1>1, <4>1, <6>2
        <5> QED
          BY <5>1, <5>2
      <4>2. CASE b # L + 1
        <5>1. a \in 1..L /\ b \in 1..L
          BY <1>1, <3>1, <4>2
        <5>2. /\ all[a] = Read(log[call[a]].at) /\ call[a] \in 1..n
              /\ all[b] = Read(log[call[b]].at) /\ call[b] \in 1..n
          BY <1>1, <1>2, <1>7, <5>1
        <5>3. call[a] <= call[b]
          <6>1. CASE a = b
            BY <5>2, <6>1
          <6>2. CASE a # b
            BY <1>2, <3>1, <5>1, <5>2, <6>2
          <6> QED
            BY <6>1, <6>2
        <5> QED
          BY <5>2, <5>3
      <4> QED
        BY <4>1, <4>2
    <3>2. \A a \in 1..(L + 1) : all[a] \in Nat
      BY <1>1
    <3> QED
      BY <2>1, <3>1, <3>2
  <2>4. kept[k] = all[d + k]
    BY <1>3
  <2> QED
    BY <2>2, <2>3, <2>4, BreakerAssumption
<1> QED
  BY <1>3, <1>4, <1>14, <1>15 DEF kept, all

(* The calls in the deque, as a set.                                        *)
LEMMA DequeCalls ==
  ASSUME NEW failures \in Seq(Nat), NEW S \in SUBSET Nat,
         NEW call \in [DOMAIN failures -> S],
         \A j, k \in DOMAIN failures : j < k => call[j] < call[k]
  PROVE  LET calls == {call[k] : k \in DOMAIN failures}
         IN  IsFiniteSet(calls) /\ Cardinality(calls) = Len(failures)
<1> DEFINE D == DOMAIN failures
           calls == {call[k] : k \in D}
<1>1. D = 1..Len(failures) /\ Len(failures) \in Nat
  OBVIOUS
<1>2. IsFiniteSet(D) /\ Cardinality(D) = Len(failures)
  <2>1. PICK L \in Nat : L = Len(failures)
    BY <1>1
  <2>2. IsFiniteSet(1..L) /\ Cardinality(1..L) = IF 1 > L THEN 0 ELSE L - 1 + 1
    BY FS_Interval
  <2> HIDE DEF D
  <2> QED
    BY <1>1, <2>1, <2>2
<1>3. \A j, k \in D : call[j] = call[k] => j = k
  <2> SUFFICES ASSUME NEW j \in D, NEW k \in D, call[j] = call[k] PROVE j = k
    OBVIOUS
  <2>1. j \in Nat /\ k \in Nat
    BY <1>1
  <2>2. call[j] \in Nat /\ call[k] \in Nat
    OBVIOUS
  <2>3. ~(j < k) /\ ~(k < j)
    BY <2>2
  <2> QED
    BY <2>1, <2>3
<1>4. call \in Bijection(D, calls)
  BY <1>3 DEF Bijection, Injection, Surjection, IsInjective
<1>5. ExistsBijection(D, calls)
  BY <1>4 DEF ExistsBijection
<1> HIDE DEF D, calls
<1>6. IsFiniteSet(calls) /\ Cardinality(calls) = Cardinality(D)
  BY <1>2, <1>5, FS_Bijection
<1> QED
  BY <1>2, <1>6 DEF D, calls

(* A deque as long as the threshold, all of it recent, is a burst.          *)
LEMMA LongDequeIsBurst ==
  ASSUME NEW n \in Nat, NEW log, NEW p, NEW now \in Nat, NEW failures \in Seq(Nat),
         DequeKept(failures, log, p, n, now),
         \A k \in DOMAIN failures : failures[k] + WindowSeconds >= now,
         \A i \in 1..n : Read(log[i].at) \in Nat /\ Read(log[i].at) <= now,
         Len(failures) >= FailureThreshold
  PROVE  FailedInWindow(log, p, n)
<1> DEFINE D == DOMAIN failures
<1>1. D = 1..Len(failures) /\ Len(failures) \in Nat /\ 1 \in D
  BY BreakerAssumption
<1>2. PICK call \in [D -> Unanswered(log, p, n)] :
        /\ \A j, k \in D : j < k => call[j] < call[k]
        /\ \A k \in D : failures[k] = Read(log[call[k]].at)
  BY DEF DequeKept
<1> DEFINE calls == {call[k] : k \in D}
<1>3. Unanswered(log, p, n) \in SUBSET Nat /\ Unanswered(log, p, n) \subseteq CallsOf(log, p, n)
      /\ CallsOf(log, p, n) \subseteq 1..n
  BY DEF Unanswered, CallsOf
<1>4. IsFiniteSet(calls) /\ Cardinality(calls) = Len(failures)
  BY <1>2, <1>3, DequeCalls
<1>5. PICK i \in Unanswered(log, p, n) : i = call[1]
  BY <1>1, <1>2
<1>6. ASSUME NEW k \in D PROVE call[k] \in Burst(log, p, n, i)
  <2>1. call[k] \in CallsOf(log, p, n) /\ call[k] \in 1..n /\ i \in 1..n
    BY <1>2, <1>3
  <2>2. call[k] >= i
    <3>1. CASE k = 1
      BY <1>5, <2>1, <3>1
    <3>2. CASE k # 1
      <4>1. 1 < k
        BY <1>1, <3>2
      <4>2. call[1] < call[k]
        BY <1>1, <1>2, <4>1
      <4> QED
        BY <1>5, <2>1, <4>2
    <3> QED
      BY <3>1, <3>2
  <2>3. Read(log[call[k]].at) <= now /\ Read(log[call[k]].at) \in Nat
    BY <2>1
  <2>4. Read(log[i].at) = failures[1] /\ failures[1] + WindowSeconds >= now
        /\ failures[1] \in Nat
    <3>1. 1 \in 1..Len(failures)
      BY <1>1
    <3>2. failures[1] \in Nat
      BY <3>1
    <3>3. failures[1] + WindowSeconds >= now
      BY <1>1
    <3>4. failures[1] = Read(log[call[1]].at)
      BY <1>1, <1>2
    <3> QED
      BY <1>5, <3>2, <3>3, <3>4
  <2>5. Read(log[call[k]].at) <= Read(log[i].at) + WindowSeconds
    BY <2>3, <2>4, BreakerAssumption
  <2> QED
    BY <2>1, <2>2, <2>5 DEF Burst
<1>7. calls \in SUBSET Burst(log, p, n, i)
  BY <1>6
<1> HIDE DEF calls
<1>8. IsFiniteSet(Burst(log, p, n, i)) /\ Cardinality(Burst(log, p, n, i)) \in Nat
  BY BurstIsFinite
<1>9. Cardinality(calls) <= Cardinality(Burst(log, p, n, i))
  BY <1>7, <1>8, FS_Subset
<1>10. Cardinality(Burst(log, p, n, i)) >= FailureThreshold
  BY <1>1, <1>4, <1>8, <1>9, BreakerAssumption
<1> QED
  BY <1>10 DEF FailedInWindow

(* And a shorter one is none.                                               *)
LEMMA ShortDequeIsNone ==
  ASSUME NEW n \in Nat, NEW log, NEW other, \A i \in 1..n : other[i] = log[i], NEW p,
         other[n + 1].provider = p, other[n + 1].outcome \in {"error", "timeout"},
         NEW now \in Nat, now = Read(other[n + 1].at),
         \A i, j \in 1..(n + 1) : /\ Read(other[i].at) \in Nat
                                  /\ i <= j => Read(other[i].at) <= Read(other[j].at),
         ~FailedInWindow(log, p, n),
         NEW failures \in Seq(Nat),
         DequeKept(failures, other, p, n + 1, now),
         Len(failures) < FailureThreshold
  PROVE  ~FailedInWindow(other, p, n + 1)
<1> SUFFICES ASSUME NEW i \in Unanswered(other, p, n + 1),
                    Cardinality(Burst(other, p, n + 1, i)) >= FailureThreshold
             PROVE  FALSE
  BY DEF FailedInWindow
<1>1. PICK m \in Nat : m = n + 1
  OBVIOUS
<1>2. /\ CallsOf(other, p, m) = CallsOf(log, p, n) \cup {m}
      /\ Unanswered(other, p, m) = Unanswered(log, p, n) \cup {m}
  <2>1. other[n + 1].outcome # "circuit_open" /\ other[n + 1].outcome # "success"
    OBVIOUS
  <2> QED
    BY <1>1, <2>1, ItsCall
<1>3. /\ CallsOf(log, p, n) \subseteq 1..n
      /\ Unanswered(other, p, m) \subseteq CallsOf(other, p, m)
      /\ CallsOf(other, p, m) \subseteq 1..m
      /\ Unanswered(other, p, m) \in SUBSET Nat
  BY DEF CallsOf, Unanswered
<1>4. IsFiniteSet(Burst(other, p, m, i)) /\ Cardinality(Burst(other, p, m, i)) \in Nat
  BY BurstIsFinite
<1>5. CASE m \in Burst(other, p, m, i)
  <2> DEFINE D == DOMAIN failures
  <2>1. PICK call \in [D -> Unanswered(other, p, m)] :
          /\ \A j, k \in D : j < k => call[j] < call[k]
          /\ \A j \in Unanswered(other, p, m) :
                \/ \E k \in D : call[k] = j
                \/ Read(other[j].at) + WindowSeconds < now
    BY <1>1 DEF DequeKept
  <2> DEFINE calls == {call[k] : k \in D}
  <2>2. IsFiniteSet(calls) /\ Cardinality(calls) = Len(failures)
    BY <1>3, <2>1, DequeCalls
  <2>3. now <= Read(other[i].at) + WindowSeconds
    BY <1>1, <1>5 DEF Burst
  <2>4. ASSUME NEW j \in Burst(other, p, m, i) PROVE j \in calls
    <3>1. j \in CallsOf(other, p, m) /\ j >= i /\ j \in 1..m /\ i \in 1..m
      BY <1>1, <1>3 DEF Burst
    <3>2. j \in Unanswered(other, p, m)
      <4>1. ASSUME NEW h \in CallsOf(other, p, m), h >= j
            PROVE  other[h].outcome # "success"
        <5>1. h \in 1..m /\ h >= i
          BY <1>3, <3>1, <4>1
        <5> QED
          BY <1>1, <5>1 DEF Unanswered
      <4> QED
        BY <3>1, <4>1 DEF Unanswered
    <3>3. /\ Read(other[i].at) <= Read(other[j].at)
          /\ Read(other[i].at) \in Nat /\ Read(other[j].at) \in Nat
      BY <1>1, <3>1
    <3>4. ~(Read(other[j].at) + WindowSeconds < now)
      BY <2>3, <3>3, BreakerAssumption
    <3> QED
      BY <2>1, <3>2, <3>4
  <2>5. Burst(other, p, m, i) \in SUBSET calls
    BY <2>4
  <2> HIDE DEF calls
  <2>6. Cardinality(Burst(other, p, m, i)) <= Cardinality(calls)
    BY <2>2, <2>5, FS_Subset
  <2>7. Len(failures) \in Nat
    OBVIOUS
  <2> QED
    BY <1>1, <1>4, <2>2, <2>6, <2>7, BreakerAssumption
<1>6. CASE m \notin Burst(other, p, m, i)
  <2>1. i # m
    <3>1. m \in CallsOf(other, p, m) /\ m >= m
          /\ Read(other[m].at) <= Read(other[m].at) + WindowSeconds
      <4>1. Read(other[m].at) \in Nat
        BY <1>1
      <4> QED
        BY <1>2, <4>1, BreakerAssumption
    <3> QED
      BY <1>6, <3>1 DEF Burst
  <2>2. i \in Unanswered(log, p, n) /\ i \in CallsOf(log, p, n)
    BY <1>1, <1>2, <2>1 DEF Unanswered
  <2>3. \A j \in CallsOf(log, p, n) : other[j] = log[j]
    BY <1>3
  <2>4. Burst(other, p, m, i) = Burst(log, p, n, i)
    <3>1. Burst(other, p, m, i) \subseteq CallsOf(log, p, n)
      BY <1>2, <1>6 DEF Burst
    <3>2. ASSUME NEW j \in CallsOf(log, p, n)
          PROVE  j \in Burst(other, p, m, i) <=> j \in Burst(log, p, n, i)
      BY <1>2, <2>2, <2>3 DEF Burst
    <3>3. Burst(log, p, n, i) \subseteq CallsOf(log, p, n)
      BY DEF Burst
    <3> QED
      BY <3>1, <3>2, <3>3
  <2> QED
    BY <1>1, <2>2, <2>4 DEF FailedInWindow
<1> QED
  BY <1>5, <1>6

-----------------------------------------------------------------------------
(* The steps, as the proofs below look at them: a provider's turn ends in   *)
(* failure, or it is asked once more and nothing but the attempt is new.    *)
FailTurn(outcome) == pc = "call" /\ Fail(outcome) /\ UNCHANGED clock

Attempt ==
    /\ tries' \in 0..Retries
    /\ since' \in 0..MaxClock
    /\ UNCHANGED <<clock, breakers, pc, first, position, started, records, outcomes>>

LEMMA Steps ==
  ASSUME TypeOK, [Next]_vars
  PROVE  \/ Ask \/ Degrade \/ SkipOpen \/ Call \/ CallSucceeds \/ CallEscapes \/ Tick
         \/ FailTurn("error") \/ FailTurn("timeout")
         \/ Attempt
<1>1. Reading \in 0..MaxClock
  BY GatewayAssumption DEF TypeOK, Reading, Read
<1>2. ASSUME NEW outcome, pc = "call", RetryOrFail(outcome), UNCHANGED clock
      PROVE  FailTurn(outcome) \/ Attempt
  <2>1. CASE tries < Retries /\ tries' = tries + 1 /\ since' = Reading
             /\ UNCHANGED <<breakers, pc, first, position, started, records, outcomes>>
    <3>1. tries' \in 0..Retries
      BY <2>1, GatewayAssumption DEF TypeOK
    <3> QED
      BY <1>1, <1>2, <2>1, <3>1 DEF Attempt
  <2>2. CASE tries = Retries /\ Fail(outcome)
    BY <1>2, <2>2 DEF FailTurn
  <2> QED
    BY <1>2, <2>1, <2>2 DEF RetryOrFail
<1>3. CASE CallInvalid
  BY <1>3 DEF CallInvalid, FailTurn
<1>4. CASE CallTimesOut
  BY <1>2, <1>4 DEF CallTimesOut
<1>5. CASE CallRaises
  BY <1>2, <1>5 DEF CallRaises
<1>6. CASE UNCHANGED vars
  BY <1>6 DEF vars, Attempt, TypeOK
<1> QED
  BY <1>3, <1>4, <1>5, <1>6 DEF Next, Proceed

(* Types.                                                                   *)
LEMMA ChainIsOfProviders ==
  ASSUME TypeOK, JobInv, pc # "idle", NEW k \in 0..N - 1
  PROVE  ChainAt(k) \in Providers
<1>1. N > 0 /\ first \in Providers
  BY JobAssumption DEF JobInv
<1> QED
  BY <1>1, JobAssumption DEF ChainAt, Providers

LEMMA CurrentIsProvider ==
  ASSUME TypeOK, JobInv, pc # "idle", position < N
  PROVE  Current \in Providers /\ position \in 0..N - 1
<1>1. position \in 0..N - 1
  BY JobAssumption DEF TypeOK
<1>2. PICK k \in 0..N - 1 : k = position
  BY <1>1
<1>3. ChainAt(k) \in Providers
  BY ChainIsOfProviders
<1> QED
  BY <1>1, <1>2, <1>3 DEF Current

LEMMA Emitted ==
  ASSUME TypeOK, JobInv, pc # "idle", position < N, NEW outcome \in Outcomes,
         NEW from \in Nat, Emit(outcome, from)
  PROVE  /\ records' \in Seq(CallRecord)
         /\ Len(records) \in Nat
         /\ Len(records') = Len(records) + 1
         /\ \A i \in 1..Len(records) : records'[i] = records[i]
         /\ records'[Len(records) + 1] =
               [job |-> Len(outcomes) + 1, index |-> position, provider |-> Current,
                outcome |-> outcome, from |-> from, at |-> clock]
<1> DEFINE r == [job |-> Len(outcomes) + 1, index |-> position, provider |-> Current,
                 outcome |-> outcome, from |-> from, at |-> clock]
<1>1. r \in CallRecord
  <2>1. Current \in Nat
    BY CurrentIsProvider, JobAssumption DEF Providers
  <2>2. Len(outcomes) + 1 \in Nat /\ position \in Nat /\ clock \in Nat
    BY JobAssumption, GatewayAssumption DEF TypeOK
  <2> QED
    BY <2>1, <2>2 DEF CallRecord
<1>2. records \in Seq(CallRecord) /\ records' = Append(records, r)
  BY DEF TypeOK, Emit
<1> HIDE DEF r
<1>3. /\ records' \in Seq(CallRecord)
      /\ Len(records) \in Nat
      /\ Len(records') = Len(records) + 1
      /\ \A i \in 1..Len(records) : records'[i] = records[i]
      /\ records'[Len(records) + 1] = r
  BY <1>1, <1>2
<1> QED
  BY <1>3 DEF r

LEMMA FailureRecorded ==
  ASSUME NEW b \in Breaker, b.state # "open", NEW now \in Nat
  PROVE  /\ RecordFailure(b, now) \in Breaker
         /\ Len(b.failures) < FailureThreshold =>
               Len(RecordFailure(b, now).failures) < FailureThreshold
         /\ RecordFailure(b, now).state # "half_open"
         /\ RecordFailure(b, now).state = "open" => RecordFailure(b, now).opened_at = now
         /\ RecordFailure(b, now).state = "closed" <=>
               /\ b.state = "closed"
               /\ Len(Prune(Append(b.failures, now), now)) < FailureThreshold
         /\ RecordFailure(b, now).state = "closed" =>
               RecordFailure(b, now).failures = Prune(Append(b.failures, now), now)
<1> DEFINE kept == Prune(Append(b.failures, now), now)
<1>1. Resolve(b, now) = b
  BY DEF Resolve
<1>2. b.failures \in Seq(Nat) /\ b.state \in {"closed", "half_open"} /\ b.opened_at \in Nat
  BY DEF Breaker, BreakerStates
<1>3. kept \in Seq(Nat)
  <2>1. PICK all \in Seq(Nat) : all = Append(b.failures, now)
    <3>1. PICK f \in Seq(Nat) : f = b.failures
      BY <1>2
    <3>2. Append(f, now) \in Seq(Nat)
      OBVIOUS
    <3> QED
      BY <3>1, <3>2
  <2>2. Prune(all, now) \in Seq(Nat)
    BY PruneDrops
  <2> QED
    BY <2>1, <2>2
<1>4. Len(kept) \in Nat
  BY <1>3
<1> HIDE DEF kept
<1>5. RecordFailure(b, now) =
         IF b.state = "half_open" \/ Len(kept) >= FailureThreshold
         THEN Trip(b, now) ELSE [b EXCEPT !.failures = kept]
  BY <1>1 DEF RecordFailure, kept
<1>6. Trip(b, now) \in Breaker /\ Trip(b, now).state = "open" /\ Trip(b, now).opened_at = now
      /\ Len(Trip(b, now).failures) = 0
  BY DEF Trip, Breaker, BreakerStates
<1>7. CASE b.state = "half_open" \/ Len(kept) >= FailureThreshold
  BY <1>2, <1>4, <1>5, <1>6, <1>7, BreakerAssumption DEF kept
<1>8. CASE ~(b.state = "half_open" \/ Len(kept) >= FailureThreshold)
  <2>1. RecordFailure(b, now) = [b EXCEPT !.failures = kept]
    BY <1>5, <1>8
  <2>2. [b EXCEPT !.failures = kept] \in Breaker
    BY <1>3 DEF Breaker
  <2>3. [b EXCEPT !.failures = kept].failures = kept
        /\ [b EXCEPT !.failures = kept].state = b.state
    BY DEF Breaker
  <2>4. Len(kept) < FailureThreshold /\ b.state = "closed"
    BY <1>2, <1>4, <1>8, BreakerAssumption
  <2> QED
    BY <2>1, <2>2, <2>3, <2>4 DEF kept
<1> QED
  BY <1>7, <1>8

LEMMA TypeStep ==
  ASSUME TypeOK, JobInv, CallInv, [Next]_vars
  PROVE  TypeOK'
<1> USE JobAssumption, GatewayAssumption, BreakerAssumption
<1>1. Reading \in 0..MaxClock /\ Reading \in Nat /\ clock \in Nat /\ started \in Nat
  BY DEF TypeOK, Reading, Read
<1>2. NewBreaker \in Breaker /\ Len(NewBreaker.failures) = 0
  BY DEF NewBreaker, Breaker, BreakerStates
<1>3. CASE Ask
  BY <1>3 DEF Ask, TypeOK, Providers
<1>4. ASSUME NEW outcome \in JobOutcomes, Return(outcome), UNCHANGED <<clock, breakers>>,
             records' \in Seq(CallRecord)
      PROVE  TypeOK'
  <2>1. outcomes' \in Seq(JobOutcomes)
    BY <1>4 DEF Return, TypeOK
  <2> QED
    BY <1>4, <2>1 DEF Return, TypeOK
<1>5. CASE Degrade
  BY <1>4, <1>5 DEF Degrade, TypeOK, JobOutcomes
<1>6. CASE CallEscapes
  BY <1>4, <1>6 DEF CallEscapes, TypeOK, JobOutcomes
<1>7. CASE SkipOpen
  <2>1. records' \in Seq(CallRecord)
    <3>1. "circuit_open" \in Outcomes
      BY DEF Outcomes
    <3> QED
      BY <1>1, <1>7, <3>1, Emitted DEF SkipOpen
  <2>2. position' \in 0..N
    BY <1>7 DEF SkipOpen, NextProvider, TypeOK
  <2> QED
    BY <1>7, <2>1, <2>2 DEF SkipOpen, NextProvider, TypeOK
<1>8. CASE Call
  <2>1. PICK p \in Providers : p = Current
    BY <1>8, CurrentIsProvider DEF Call
  <2>2. PICK b \in Breaker : b = breakers[p]
    BY DEF TypeOK
  <2>3. Resolve(b, Reading) \in Breaker /\ Resolve(b, Reading).failures = b.failures
    BY DEF Resolve, Breaker, BreakerStates
  <2>4. breakers' = [breakers EXCEPT ![p] = Resolve(b, Reading)]
    BY <1>8, <2>1, <2>2 DEF Call
  <2>5. breakers' \in [Providers -> Breaker]
    BY <2>3, <2>4 DEF TypeOK
  <2>6. \A q \in Providers : Len(breakers'[q].failures) < FailureThreshold
    BY <2>2, <2>3, <2>4 DEF TypeOK
  <2> QED
    BY <1>1, <1>8, <2>5, <2>6 DEF Call, TypeOK
<1>9. ASSUME NEW outcome \in {"error", "timeout"}, FailTurn(outcome)
      PROVE  TypeOK'
  <2>1. position < N /\ pc = "call"
    BY <1>9 DEF FailTurn, JobInv
  <2>2. records' \in Seq(CallRecord)
    <3>1. outcome \in Outcomes
      BY DEF Outcomes
    <3> QED
      BY <1>1, <1>9, <2>1, <3>1, Emitted DEF FailTurn, Fail
  <2>3. position' \in 0..N
    BY <1>9, <2>1 DEF FailTurn, Fail, NextProvider, TypeOK
  <2>4. PICK p \in Providers : p = Current
    BY <2>1, CurrentIsProvider
  <2>5. PICK b \in Breaker : b = breakers[p] /\ b.state # "open"
    BY <2>1, <2>4 DEF TypeOK, CallInv
  <2>6. PICK now \in Nat : now = Reading
    BY <1>1
  <2>7. breakers' = [breakers EXCEPT ![p] = RecordFailure(b, now)]
    BY <1>9, <2>4, <2>5, <2>6 DEF FailTurn, Fail
  <2>8. /\ RecordFailure(b, now) \in Breaker
        /\ Len(RecordFailure(b, now).failures) < FailureThreshold
    BY <2>5, FailureRecorded DEF TypeOK
  <2>9. breakers' \in [Providers -> Breaker]
    BY <2>7, <2>8 DEF TypeOK
  <2>10. \A q \in Providers : Len(breakers'[q].failures) < FailureThreshold
    BY <2>7, <2>8 DEF TypeOK
  <2> QED
    BY <1>9, <2>2, <2>3, <2>9, <2>10 DEF FailTurn, Fail, NextProvider, TypeOK
<1>10. CASE CallSucceeds
  <2>1. position < N /\ pc = "call"
    BY <1>10 DEF CallSucceeds, JobInv
  <2>2. records' \in Seq(CallRecord)
    <3>1. "success" \in Outcomes
      BY DEF Outcomes
    <3> QED
      BY <1>1, <1>10, <2>1, <3>1, Emitted DEF CallSucceeds
  <2>3. PICK p \in Providers : p = Current
    BY <2>1, CurrentIsProvider
  <2>4. breakers' = [breakers EXCEPT ![p] = NewBreaker]
    BY <1>10, <2>3 DEF CallSucceeds, RecordSuccess
  <2>5. breakers' \in [Providers -> Breaker]
    BY <1>2, <2>4 DEF TypeOK
  <2>6. \A q \in Providers : Len(breakers'[q].failures) < FailureThreshold
    BY <1>2, <2>4 DEF TypeOK
  <2>7. outcomes' \in Seq(JobOutcomes)
    BY <1>10 DEF CallSucceeds, Return, TypeOK, JobOutcomes
  <2> QED
    BY <1>10, <2>2, <2>5, <2>6, <2>7 DEF CallSucceeds, Return, TypeOK
<1>11. CASE Tick
  BY <1>11 DEF Tick, TypeOK
<1>12. CASE Attempt
  BY <1>12 DEF Attempt, TypeOK
<1> QED
  BY <1>3, <1>5, <1>6, <1>7, <1>8, <1>9, <1>10, <1>11, <1>12, Steps

(* Time.                                                                    *)
LEMMA RecordTypes ==
  ASSUME TypeOK
  PROVE  /\ records \in Seq(CallRecord) /\ Len(records) \in Nat
         /\ DOMAIN records = 1..Len(records)
         /\ clock \in Nat /\ started \in Nat
         /\ \A i \in 1..Len(records) :
               /\ records[i] \in CallRecord
               /\ records[i].at \in Nat /\ records[i].from \in Nat /\ records[i].job \in Nat
               /\ records[i].provider \in Nat /\ records[i].outcome \in Outcomes
<1>1. /\ records \in Seq(CallRecord) /\ Len(records) \in Nat
      /\ DOMAIN records = 1..Len(records)
      /\ clock \in Nat /\ started \in Nat
  BY GatewayAssumption DEF TypeOK
<1>2. \A i \in 1..Len(records) : records[i] \in CallRecord
  BY <1>1
<1> QED
  BY <1>1, <1>2 DEF CallRecord

LEMMA TimeStep ==
  ASSUME TypeOK, JobInv, TimeInv, [Next]_vars
  PROVE  TimeInv'
<1> USE GatewayAssumption, JobAssumption
<1>1. records \in Seq(CallRecord) /\ Len(records) \in Nat /\ clock \in Nat /\ started \in Nat
      /\ DOMAIN records = 1..Len(records)
      /\ \A i \in DOMAIN records : records[i].at \in Nat
  BY RecordTypes
<1>2. ASSUME NEW outcome \in Outcomes, NEW from \in Nat, pc # "idle", position < N,
             Emit(outcome, from), UNCHANGED clock, started' = 0
      PROVE  TimeInv'
  <2>1. /\ Len(records') = Len(records) + 1
        /\ \A i \in 1..Len(records) : records'[i] = records[i]
        /\ records'[Len(records) + 1].at = clock
        /\ records' \in Seq(CallRecord)
    <3>1. /\ Len(records') = Len(records) + 1
          /\ \A i \in 1..Len(records) : records'[i] = records[i]
          /\ records' \in Seq(CallRecord)
          /\ records'[Len(records) + 1] =
                [job |-> Len(outcomes) + 1, index |-> position, provider |-> Current,
                 outcome |-> outcome, from |-> from, at |-> clock]
      BY <1>2, Emitted
    <3> QED
      BY <3>1
  <2>2. DOMAIN records' = 1..(Len(records) + 1)
    BY <1>1, <2>1
  <2>3. \A i \in DOMAIN records' : i \in DOMAIN records \/ i = Len(records) + 1
    BY <1>1, <2>2
  <2>4. \A i \in DOMAIN records' : records'[i].at <= clock /\ records'[i].at \in Nat
    BY <1>1, <2>1, <2>3 DEF TimeInv
  <2>5. ASSUME NEW i \in DOMAIN records', NEW j \in DOMAIN records', i <= j
        PROVE  records'[i].at <= records'[j].at
    <3>1. CASE j = Len(records) + 1
      BY <2>1, <2>4, <3>1
    <3>2. CASE j # Len(records) + 1
      <4>1. i \in DOMAIN records /\ j \in DOMAIN records
        BY <1>1, <2>2, <2>5, <3>2
      <4> QED
        BY <1>1, <2>1, <2>5, <4>1 DEF TimeInv
    <3> QED
      BY <3>1, <3>2
  <2> QED
    BY <1>1, <1>2, <2>4, <2>5 DEF TimeInv
<1>3. CASE SkipOpen
  BY <1>1, <1>2, <1>3 DEF SkipOpen, NextProvider, Outcomes
<1>4. ASSUME NEW outcome \in {"error", "timeout"}, FailTurn(outcome)
      PROVE  TimeInv'
  <2>1. pc # "idle" /\ position < N
    BY <1>4 DEF FailTurn, JobInv
  <2>2. outcome \in Outcomes
    BY DEF Outcomes
  <2> QED
    BY <1>1, <1>2, <1>4, <2>1, <2>2 DEF FailTurn, Fail, NextProvider
<1>5. CASE CallSucceeds
  <2>1. pc # "idle" /\ position < N
    BY <1>5 DEF CallSucceeds, JobInv
  <2> QED
    BY <1>1, <1>2, <1>5, <2>1 DEF CallSucceeds, Return, Outcomes
<1>6. CASE UNCHANGED records /\ clock <= clock' /\ clock' \in Nat /\ started' \in {0, started, clock}
  BY <1>1, <1>6 DEF TimeInv
<1>7. CASE Ask \/ Degrade \/ Call \/ CallEscapes \/ Tick \/ Attempt
  BY <1>1, <1>6, <1>7 DEF Ask, Degrade, Call, CallEscapes, Return, Tick, Attempt
<1> QED
  BY <1>3, <1>4, <1>5, <1>7, Steps

(* What the breakers know.  Instants read as they are ordered.              *)
LEMMA Readings ==
  ASSUME TypeOK, TimeInv
  PROVE  /\ Reading \in Nat
         /\ \A i \in 1..Len(records) :
               /\ Read(records[i].at) \in Nat
               /\ Read(records[i].at) <= Reading
         /\ \A i, j \in 1..Len(records) :
               i <= j => Read(records[i].at) <= Read(records[j].at)
<1>1. clock \in Nat /\ DOMAIN records = 1..Len(records)
      /\ \A i \in DOMAIN records : records[i].at \in Nat /\ records[i].at <= clock
  BY RecordTypes DEF TimeInv
<1>2. \A i, j \in DOMAIN records : i <= j => records[i].at <= records[j].at
  BY DEF TimeInv
<1>3. Reading \in Nat
  BY <1>1 DEF Reading, Read
<1>4. ASSUME NEW i \in 1..Len(records)
      PROVE  Read(records[i].at) \in Nat /\ Read(records[i].at) <= Reading
  BY <1>1 DEF Reading, Read
<1>5. ASSUME NEW i \in 1..Len(records), NEW j \in 1..Len(records), i <= j
      PROVE  Read(records[i].at) <= Read(records[j].at)
  BY <1>1, <1>2, <1>5 DEF Read
<1> QED
  BY <1>3, <1>4, <1>5

(* Time alone, and records that are no calls of p, change nothing for p.    *)
LEMMA OlderStays ==
  ASSUME NEW n \in Nat, NEW log, NEW p, NEW failures, NEW now \in Nat, NEW later \in Nat,
         now <= later, \A i \in 1..n : Read(log[i].at) \in Nat,
         DequeKept(failures, log, p, n, now)
  PROVE  DequeKept(failures, log, p, n, later)
<1>1. PICK call \in [DOMAIN failures -> Unanswered(log, p, n)] :
        /\ \A j, k \in DOMAIN failures : j < k => call[j] < call[k]
        /\ \A k \in DOMAIN failures : failures[k] = Read(log[call[k]].at)
        /\ \A i \in Unanswered(log, p, n) :
              \/ \E k \in DOMAIN failures : call[k] = i
              \/ Read(log[i].at) + WindowSeconds < now
  BY DEF DequeKept
<1>2. \A i \in Unanswered(log, p, n) : Read(log[i].at) \in Nat
  BY DEF Unanswered, CallsOf
<1>3. \A i \in Unanswered(log, p, n) :
              \/ \E k \in DOMAIN failures : call[k] = i
              \/ Read(log[i].at) + WindowSeconds < later
  BY <1>1, <1>2, BreakerAssumption
<1> QED
  BY <1>1, <1>3, Zenon DEF DequeKept

LEMMA DequeStays ==
  ASSUME NEW n \in Nat, NEW log, NEW other, \A i \in 1..n : other[i] = log[i], NEW p,
         other[n + 1].provider # p \/ other[n + 1].outcome = "circuit_open",
         NEW failures, NEW now, DequeKept(failures, log, p, n, now)
  PROVE  DequeKept(failures, other, p, n + 1, now)
<1>1. Unanswered(other, p, n + 1) = Unanswered(log, p, n)
  BY NotItsCall
<1>2. \A i \in Unanswered(log, p, n) : other[i] = log[i]
  BY DEF Unanswered, CallsOf
<1> QED
  BY <1>1, <1>2 DEF DequeKept

(* What a breaker must be, as a function of the records and the reading.    *)
BreakerKept(b, log, p, n, now) ==
    IF b.state = "closed"
    THEN ~FailedInWindow(log, p, n) /\ DequeKept(b.failures, log, p, n, now)
    ELSE /\ FailedInWindow(log, p, n)
         /\ \E i \in LastCalls(log, p, n) : b.opened_at = Read(log[i].at)
         /\ b.state = "half_open" => now >= b.opened_at + HalfOpenAfter

(* One failed call of p more.                                               *)
LEMMA BreakerAfterFailure ==
  ASSUME NEW n \in Nat, NEW log, NEW other, \A i \in 1..n : other[i] = log[i], NEW p,
         other[n + 1].provider = p, other[n + 1].outcome \in {"error", "timeout"},
         NEW now \in Nat, now = Read(other[n + 1].at),
         \A i, j \in 1..(n + 1) : /\ Read(other[i].at) \in Nat
                                  /\ i <= j => Read(other[i].at) <= Read(other[j].at),
         NEW b \in Breaker, b.state # "open",
         b.state = "closed" => ~FailedInWindow(log, p, n) /\ DequeKept(b.failures, log, p, n, now),
         b.state # "closed" => FailedInWindow(log, p, n)
  PROVE  BreakerKept(RecordFailure(b, now), other, p, n + 1, now)
<1> DEFINE kept == Prune(Append(b.failures, now), now)
           c == RecordFailure(b, now)
<1>1. /\ c.state \in {"closed", "open"}
      /\ c.state = "open" => c.opened_at = now
      /\ c.state = "closed" <=> b.state = "closed" /\ Len(kept) < FailureThreshold
      /\ c.state = "closed" => c.failures = kept
  BY FailureRecorded DEF Breaker, BreakerStates
<1> HIDE DEF c
<1>2. n + 1 \in LastCalls(other, p, n + 1)
  <2>1. other[n + 1].outcome # "circuit_open"
    OBVIOUS
  <2> QED
    BY <2>1, ItsCall
<1>3. CASE b.state = "closed"
  <2>1. PICK f \in Seq(Nat) : f = b.failures
    BY DEF Breaker
  <2>2. DequeKept(f, log, p, n, now)
    BY <1>3, <2>1
  <2>3. \A i, j \in 1..n : /\ Read(log[i].at) \in Nat
                           /\ i <= j => Read(log[i].at) <= Read(log[j].at)
    <3>1. \A i \in 1..n : i \in 1..(n + 1) /\ log[i] = other[i]
      OBVIOUS
    <3> QED
      BY <3>1
  <2>4. \A i \in 1..(n + 1) : Read(other[i].at) \in Nat /\ Read(other[i].at) <= now
    <3>1. \A i \in 1..(n + 1) : n + 1 \in 1..(n + 1) /\ i <= n + 1
      OBVIOUS
    <3> QED
      BY <3>1
  <2>5. \A i \in 1..n : Read(log[i].at) <= now
    <3>1. \A i \in 1..n : i \in 1..(n + 1) /\ log[i] = other[i]
      OBVIOUS
    <3> QED
      BY <2>4, <3>1
  <2>6. LET k == Prune(Append(f, now), now) IN
        /\ k \in Seq(Nat)
        /\ DequeKept(k, other, p, n + 1, now)
        /\ \A i \in DOMAIN k : k[i] + WindowSeconds >= now
    <3>1. now <= now
      OBVIOUS
    <3>2. /\ Prune(Append(f, now), now) \in Seq(Nat)
          /\ DequeKept(Prune(Append(f, now), now), other, p, n + 1, now)
          /\ \A i \in DOMAIN Prune(Append(f, now), now) :
                Prune(Append(f, now), now)[i] + WindowSeconds >= now
      BY <2>2, <2>3, <2>5, <3>1, DequeAfterFailure
    <3> QED
      BY <3>2
  <2>7. /\ kept \in Seq(Nat) /\ Len(kept) \in Nat
        /\ DequeKept(kept, other, p, n + 1, now)
        /\ \A i \in DOMAIN kept : kept[i] + WindowSeconds >= now
    BY <2>1, <2>6
  <2> HIDE DEF kept
  <2>8. PICK m \in Nat : m = n + 1
    OBVIOUS
  <2>9. CASE Len(kept) < FailureThreshold
    <3>1. ~FailedInWindow(other, p, n + 1)
      BY <1>3, <2>7, <2>9, ShortDequeIsNone
    <3> QED
      BY <1>1, <1>3, <2>7, <2>9, <3>1 DEF c, BreakerKept
  <2>10. CASE ~(Len(kept) < FailureThreshold)
    <3>1. Len(kept) >= FailureThreshold
      BY <2>7, <2>10, BreakerAssumption
    <3>2. FailedInWindow(other, p, m)
      BY <2>4, <2>7, <2>8, <3>1, LongDequeIsBurst
    <3> QED
      BY <1>1, <1>2, <2>8, <2>10, <3>2 DEF c, BreakerKept
  <2> QED
    BY <2>9, <2>10
<1>4. CASE b.state # "closed"
  <2>1. FailedInWindow(other, p, n + 1)
    BY <1>4, StillFailed
  <2> QED
    BY <1>1, <1>2, <1>4, <2>1 DEF c, BreakerKept
<1> QED
  BY <1>3, <1>4

(* One success of p more.                                                   *)
LEMMA BreakerAfterSuccess ==
  ASSUME NEW n \in Nat, NEW log, NEW other, \A i \in 1..n : other[i] = log[i], NEW p,
         other[n + 1].provider = p, other[n + 1].outcome = "success", NEW now
  PROVE  ~FailedInWindow(other, p, n + 1) /\ DequeKept(<<>>, other, p, n + 1, now)
<1>1. Unanswered(other, p, n + 1) = {}
  <2>1. other[n + 1].outcome # "circuit_open"
    OBVIOUS
  <2> QED
    BY <2>1, ItsCall
<1>2. DOMAIN <<>> = {}
  OBVIOUS
<1>3. [x \in {} |-> x] \in [{} -> {}]
  OBVIOUS
<1>4. DequeKept(<<>>, other, p, n + 1, now)
  BY <1>1, <1>2, <1>3 DEF DequeKept
<1> QED
  BY <1>1, <1>4 DEF FailedInWindow

(* A record joins the others: what BreakersInv and SkipsFollowHistory need  *)
(* of it.                                                                   *)
LEMMA RecordJoins ==
  ASSUME TypeOK, JobInv, pc # "idle", position < N, NEW outcome \in Outcomes,
         NEW from \in Nat, Emit(outcome, from)
  PROVE  /\ Len(records') = Len(records) + 1
         /\ DOMAIN records' = 1..(Len(records) + 1)
         /\ \A i \in 1..Len(records) : records'[i] = records[i]
         /\ records'[Len(records) + 1].job = Len(outcomes) + 1
         /\ records'[Len(records) + 1].index = position
         /\ records'[Len(records) + 1].provider = Current
         /\ records'[Len(records) + 1].outcome = outcome
         /\ records'[Len(records) + 1].from = from
         /\ records'[Len(records) + 1].at = clock
<1>1. /\ records' \in Seq(CallRecord)
      /\ Len(records) \in Nat
      /\ Len(records') = Len(records) + 1
      /\ \A i \in 1..Len(records) : records'[i] = records[i]
      /\ records'[Len(records) + 1] =
            [job |-> Len(outcomes) + 1, index |-> position, provider |-> Current,
             outcome |-> outcome, from |-> from, at |-> clock]
  BY Emitted
<1>2. DOMAIN records' = 1..(Len(records) + 1)
  BY <1>1
<1> QED
  BY <1>1, <1>2

LEMMA KeptIsInv ==
  BreakersInv <=> \A p \in Providers :
                     BreakerKept(breakers[p], records, p, Len(records), Reading)
BY DEF BreakersInv, BreakerKept, ClosedInv, TrippedInv

LEMMA BreakersStep ==
  ASSUME TypeOK, TimeInv, JobInv, CallInv, BreakersInv, [Next]_vars
  PROVE  BreakersInv'
<1> DEFINE Kept(p) == BreakerKept(breakers[p], records, p, Len(records), Reading)
<1>1. SUFFICES ASSUME NEW p \in Providers
               PROVE  BreakerKept(breakers'[p], records', p, Len(records'), Reading')
  BY DEF BreakersInv, BreakerKept, ClosedInv, TrippedInv
<1>2. Kept(p)
  BY KeptIsInv
<1>3. PICK log : log = records
  OBVIOUS
<1>4. PICK other : other = records'
  OBVIOUS
<1>5. PICK n \in Nat : n = Len(records)
  BY RecordTypes
<1>6. PICK now \in Nat : now = Reading
  BY Readings
<1>7. /\ \A i \in 1..n : Read(log[i].at) \in Nat /\ Read(log[i].at) <= now
      /\ \A i, j \in 1..n : i <= j => Read(log[i].at) <= Read(log[j].at)
  BY <1>3, <1>5, <1>6, Readings
<1>8. PICK b \in Breaker : b = breakers[p]
  BY DEF TypeOK
<1>9. BreakerKept(b, log, p, n, now)
  BY <1>2, <1>3, <1>5, <1>6, <1>8
<1>10. b.opened_at \in Nat
  BY DEF Breaker
<1>11. CASE UNCHANGED <<records, breakers>> /\ clock' \in Nat /\ clock <= clock'
  <2>1. PICK later \in Nat : later = Reading' /\ now <= later
    <3>1. clock \in Nat
      BY RecordTypes
    <3>2. Reading' \in Nat /\ Reading <= Reading'
      BY <1>11, <3>1 DEF Reading, Read
    <3> QED
      BY <1>6, <3>2
  <2>2. BreakerKept(b, log, p, n, later)
    <3>1. b.state = "closed" => DequeKept(b.failures, log, p, n, later)
      BY <1>7, <1>9, <2>1, OlderStays DEF BreakerKept
    <3>2. b.state = "half_open" => later >= b.opened_at + HalfOpenAfter
      BY <1>9, <1>10, <2>1, BreakerAssumption DEF BreakerKept
    <3> QED
      BY <1>9, <3>1, <3>2 DEF BreakerKept
  <2> QED
    BY <1>3, <1>5, <1>8, <1>11, <2>1, <2>2
<1>12. ASSUME NEW outcome \in Outcomes, NEW from \in Nat, pc # "idle", position < N,
              Emit(outcome, from), UNCHANGED clock,
              Current # p \/ outcome = "circuit_open", breakers'[p] = breakers[p]
       PROVE  BreakerKept(breakers'[p], records', p, Len(records'), Reading')
  <2>1. /\ Len(records') = n + 1
        /\ \A i \in 1..n : other[i] = log[i]
        /\ other[n + 1].provider # p \/ other[n + 1].outcome = "circuit_open"
    BY <1>3, <1>4, <1>5, <1>12, RecordJoins
  <2>2. Reading' = now
    BY <1>6, <1>12 DEF Reading
  <2>3. /\ FailedInWindow(other, p, n + 1) <=> FailedInWindow(log, p, n)
        /\ LastCalls(other, p, n + 1) = LastCalls(log, p, n)
    BY <2>1, NotItsCall
  <2>4. \A i \in LastCalls(log, p, n) : other[i] = log[i]
    BY <2>1 DEF LastCalls, CallsOf
  <2>5. b.state = "closed" => DequeKept(b.failures, other, p, n + 1, now)
    BY <1>9, <2>1, DequeStays DEF BreakerKept
  <2>6. BreakerKept(b, other, p, n + 1, now)
    BY <1>9, <2>3, <2>4, <2>5 DEF BreakerKept
  <2> QED
    BY <1>4, <1>8, <1>12, <2>1, <2>2, <2>6
<1>13. CASE SkipOpen
  <2>1. "circuit_open" \in Outcomes /\ clock \in Nat
    BY RecordTypes DEF Outcomes
  <2> QED
    BY <1>12, <1>13, <2>1 DEF SkipOpen
<1>14. CASE Call
  <2>1. UNCHANGED <<records, clock>> /\ pc = "chain" /\ position < N
    BY <1>14 DEF Call
  <2>2. PICK q \in Providers : q = Current
    BY <2>1, CurrentIsProvider
  <2>3. breakers' = [breakers EXCEPT ![q] = Resolve(breakers[q], Reading)]
    BY <1>14, <2>2 DEF Call
  <2>4. breakers'[p] = b \/ breakers'[p] = Resolve(b, now)
    BY <1>6, <1>8, <2>3 DEF TypeOK
  <2>5. BreakerKept(Resolve(b, now), log, p, n, now)
    <3>1. CASE b.state = "open" /\ now >= b.opened_at + HalfOpenAfter
      <4>1. Resolve(b, now).state = "half_open" /\ Resolve(b, now).opened_at = b.opened_at
        BY <3>1 DEF Resolve, Breaker
      <4> QED
        BY <1>9, <3>1, <4>1 DEF BreakerKept
    <3>2. CASE ~(b.state = "open" /\ now >= b.opened_at + HalfOpenAfter)
      BY <1>9, <3>2 DEF Resolve
    <3> QED
      BY <3>1, <3>2
  <2>6. BreakerKept(breakers'[p], log, p, n, now)
    BY <1>9, <2>4, <2>5
  <2> QED
    BY <1>3, <1>5, <1>6, <2>1, <2>6 DEF Reading
<1>15. ASSUME NEW outcome \in {"error", "timeout"}, FailTurn(outcome)
       PROVE  BreakerKept(breakers'[p], records', p, Len(records'), Reading')
  <2>1. pc = "call" /\ position < N /\ UNCHANGED clock /\ Emit(outcome, started)
    BY <1>15 DEF FailTurn, Fail, JobInv
  <2>2. outcome \in Outcomes /\ started \in Nat
    BY RecordTypes DEF Outcomes
  <2>3. PICK q \in Providers : q = Current
    BY <2>1, CurrentIsProvider
  <2>4. breakers' = [breakers EXCEPT ![q] = RecordFailure(breakers[q], now)]
    BY <1>6, <1>15, <2>3 DEF FailTurn, Fail
  <2>5. CASE p # q
    <3>1. breakers'[p] = breakers[p]
      BY <2>4, <2>5 DEF TypeOK
    <3> QED
      BY <1>12, <2>1, <2>2, <2>3, <2>5, <3>1
  <2>6. CASE p = q
    <3>1. /\ Len(records') = n + 1
          /\ \A i \in 1..n : other[i] = log[i]
          /\ other[n + 1].provider = p /\ other[n + 1].outcome = outcome
          /\ other[n + 1].at = clock
      BY <1>3, <1>4, <1>5, <2>1, <2>2, <2>3, <2>6, RecordJoins
    <3>2. now = Read(other[n + 1].at)
      BY <1>6, <3>1 DEF Reading
    <3>3. \A i, j \in 1..(n + 1) : /\ Read(other[i].at) \in Nat
                                   /\ i <= j => Read(other[i].at) <= Read(other[j].at)
      <4> SUFFICES ASSUME NEW i \in 1..(n + 1), NEW j \in 1..(n + 1)
                   PROVE  /\ Read(other[i].at) \in Nat
                          /\ i <= j => Read(other[i].at) <= Read(other[j].at)
        OBVIOUS
      <4>1. i # n + 1 => i \in 1..n /\ other[i] = log[i]
        BY <3>1
      <4>2. j # n + 1 => j \in 1..n /\ other[j] = log[j]
        BY <3>1
      <4>3. i <= j /\ i = n + 1 => j = n + 1
        OBVIOUS
      <4> QED
        BY <1>7, <3>2, <4>1, <4>2, <4>3
    <3>4. b.state # "open"
      BY <1>8, <2>1, <2>3, <2>6 DEF CallInv
    <3>5. breakers'[p] = RecordFailure(b, now)
      BY <1>8, <2>4, <2>6 DEF TypeOK
    <3>6. /\ b.state = "closed" => ~FailedInWindow(log, p, n) /\ DequeKept(b.failures, log, p, n, now)
          /\ b.state # "closed" => FailedInWindow(log, p, n)
      BY <1>9 DEF BreakerKept
    <3>7. other[n + 1].outcome \in {"error", "timeout"}
      BY <3>1
    <3>8. BreakerKept(RecordFailure(b, now), other, p, n + 1, now)
      BY <3>1, <3>2, <3>3, <3>4, <3>6, <3>7, BreakerAfterFailure
    <3>9. Reading' = now
      BY <1>6, <2>1 DEF Reading
    <3> QED
      BY <1>4, <3>1, <3>5, <3>8, <3>9
  <2> QED
    BY <2>5, <2>6
<1>16. CASE CallSucceeds
  <2>1. pc = "call" /\ position < N /\ UNCHANGED clock /\ Emit("success", started)
    BY <1>16 DEF CallSucceeds, JobInv
  <2>2. "success" \in Outcomes /\ started \in Nat
    BY RecordTypes DEF Outcomes
  <2>3. PICK q \in Providers : q = Current
    BY <2>1, CurrentIsProvider
  <2>4. breakers' = [breakers EXCEPT ![q] = NewBreaker]
    BY <1>16, <2>3 DEF CallSucceeds, RecordSuccess
  <2>5. CASE p # q
    <3>1. breakers'[p] = breakers[p]
      BY <2>4, <2>5 DEF TypeOK
    <3> QED
      BY <1>12, <2>1, <2>2, <2>3, <2>5, <3>1
  <2>6. CASE p = q
    <3>1. /\ Len(records') = n + 1
          /\ \A i \in 1..n : other[i] = log[i]
          /\ other[n + 1].provider = p /\ other[n + 1].outcome = "success"
      BY <1>3, <1>4, <1>5, <2>1, <2>2, <2>3, <2>6, RecordJoins
    <3>2. ~FailedInWindow(other, p, n + 1) /\ DequeKept(<<>>, other, p, n + 1, now)
      BY <3>1, BreakerAfterSuccess
    <3>3. breakers'[p] = NewBreaker
      BY <2>4, <2>6 DEF TypeOK
    <3>4. BreakerKept(NewBreaker, other, p, n + 1, now)
      BY <3>2 DEF BreakerKept, NewBreaker
    <3>5. Reading' = now
      BY <1>6, <2>1 DEF Reading
    <3> QED
      BY <1>4, <3>1, <3>3, <3>4, <3>5
  <2> QED
    BY <2>5, <2>6
<1>17. CASE Ask \/ Degrade \/ CallEscapes \/ Tick \/ Attempt
  <2>1. clock \in Nat
    BY RecordTypes
  <2> QED
    BY <1>11, <1>17, <2>1 DEF Ask, Degrade, CallEscapes, Return, Tick, Attempt
<1> QED
  BY <1>13, <1>14, <1>15, <1>16, <1>17, Steps

(* The provider under call.                                                 *)
LEMMA CallStep ==
  ASSUME TypeOK, TimeInv, JobInv, BreakersInv, CallInv, [Next]_vars
  PROVE  CallInv'
<1>1. CASE pc' # "call"
  BY <1>1 DEF CallInv
<1>2. CASE Call
  <2>1. pc = "chain" /\ position < N /\ started' = clock /\ UNCHANGED <<first, position>>
    BY <1>2 DEF Call
  <2>2. PICK q \in Providers : q = Current /\ q = Current'
    BY <2>1, CurrentIsProvider DEF Current, ChainAt
  <2>3. PICK b \in Breaker : b = breakers[q]
    BY DEF TypeOK
  <2>4. PICK now \in Nat : now = Reading /\ now = Read(started')
    BY <2>1, Readings DEF Reading
  <2>5. breakers'[q] = Resolve(b, now) /\ Resolve(b, now).state # "open"
    BY <1>2, <2>2, <2>3, <2>4 DEF Call, Allows, TypeOK
  <2>6. BreakerKept(b, records, q, Len(records), now)
    BY <2>3, <2>4, KeptIsInv
  <2>7. Resolve(b, now).state = "half_open" => now >= Resolve(b, now).opened_at + HalfOpenAfter
    <3>1. CASE b.state = "open" /\ now >= b.opened_at + HalfOpenAfter
      BY <3>1 DEF Resolve, Breaker
    <3>2. CASE ~(b.state = "open" /\ now >= b.opened_at + HalfOpenAfter)
      BY <2>6, <3>2 DEF Resolve, BreakerKept
    <3> QED
      BY <3>1, <3>2
  <2> QED
    BY <2>2, <2>4, <2>5, <2>7 DEF CallInv
<1>3. CASE Tick \/ Attempt
  <2>1. UNCHANGED <<breakers, pc, first, position, started>>
    BY <1>3 DEF Tick, Attempt
  <2>2. Current' = Current
    BY <2>1 DEF Current, ChainAt
  <2> QED
    BY <2>1, <2>2 DEF CallInv
<1>4. CASE Ask \/ Degrade \/ SkipOpen \/ CallSucceeds \/ CallEscapes
           \/ FailTurn("error") \/ FailTurn("timeout")
  <2>1. pc' # "call"
    BY <1>4 DEF Ask, Degrade, SkipOpen, CallSucceeds, CallEscapes, Return, FailTurn, Fail,
                NextProvider
  <2> QED
    BY <1>1, <2>1
<1> QED
  BY <1>2, <1>3, <1>4, Steps

(* Skips and calls, against the history before them.                        *)
LEMMA HistoryJoins ==
  ASSUME TypeOK, JobInv, SkipsFollowHistory, pc # "idle", position < N,
         NEW outcome \in Outcomes, NEW from \in Nat, Emit(outcome, from),
         outcome = "circuit_open" <=>
            /\ FailedInWindow(records, Current, Len(records))
            /\ Cooling(records, Current, Len(records), from)
  PROVE  SkipsFollowHistory'
<1>1. PICK log : log = records
  OBVIOUS
<1>2. PICK other : other = records'
  OBVIOUS
<1>3. PICK n \in Nat : n = Len(records)
  BY RecordTypes
<1>4. PICK p : p = Current
  OBVIOUS
<1>5. /\ DOMAIN other = 1..(n + 1)
      /\ \A i \in 1..n : other[i] = log[i]
      /\ other[n + 1].provider = p /\ other[n + 1].outcome = outcome
      /\ other[n + 1].from = from
  BY <1>1, <1>2, <1>3, <1>4, RecordJoins
<1>6. ASSUME NEW m \in 0..n, NEW q
      PROVE  /\ FailedInWindow(other, q, m) <=> FailedInWindow(log, q, m)
             /\ \A t : Cooling(other, q, m, t) <=> Cooling(log, q, m, t)
  <2>1. m \in Nat /\ \A i \in 1..m : other[i] = log[i]
    BY <1>5
  <2> QED
    BY <2>1, SamePrefix
<1>7. ASSUME NEW i \in 1..(n + 1)
      PROVE  other[i].outcome = "circuit_open" <=>
                /\ FailedInWindow(other, other[i].provider, i - 1)
                /\ Cooling(other, other[i].provider, i - 1, other[i].from)
  <2>1. PICK m \in 0..n : m = i - 1
    OBVIOUS
  <2>2. PICK q : q = other[i].provider
    OBVIOUS
  <2>3. CASE i = n + 1
    <3>1. m = n
      BY <2>1, <2>3
    <3>2. outcome = "circuit_open" <=> FailedInWindow(log, p, n) /\ Cooling(log, p, n, from)
      BY <1>1, <1>3, <1>4
    <3>3. outcome = "circuit_open" <=> FailedInWindow(other, p, m) /\ Cooling(other, p, m, from)
      BY <1>6, <3>1, <3>2
    <3> QED
      BY <1>5, <2>1, <2>3, <3>3
  <2>4. CASE i # n + 1
    <3>1. i \in 1..n /\ other[i] = log[i]
      BY <1>5, <2>4
    <3>2. log[i].outcome = "circuit_open" <=>
             FailedInWindow(log, q, m) /\ Cooling(log, q, m, log[i].from)
      <4>1. i \in DOMAIN records
        BY <1>3, <3>1, RecordTypes
      <4> QED
        BY <1>1, <2>1, <2>2, <3>1, <4>1 DEF SkipsFollowHistory
    <3> QED
      BY <1>6, <2>1, <2>2, <3>1, <3>2
  <2> QED
    BY <2>3, <2>4
<1> QED
  BY <1>2, <1>5, <1>7 DEF SkipsFollowHistory

LEMMA OneLastCall ==
  ASSUME NEW n \in Nat, NEW log, NEW p, NEW i \in LastCalls(log, p, n),
         NEW j \in LastCalls(log, p, n)
  PROVE  i = j
BY DEF LastCalls, CallsOf

LEMMA HistoryStep ==
  ASSUME TypeOK, TimeInv, JobInv, BreakersInv, CallInv, SkipsFollowHistory, [Next]_vars
  PROVE  SkipsFollowHistory'
<1>1. PICK n \in Nat : n = Len(records)
  BY RecordTypes
<1>2. PICK now \in Nat : now = Reading
  BY Readings
<1>3. \A i \in 1..n : Read(records[i].at) \in Nat
  BY <1>1, Readings
<1>4. CASE SkipOpen
  <2>1. pc = "chain" /\ position < N
    BY <1>4 DEF SkipOpen
  <2>2. PICK q \in Providers : q = Current
    BY <2>1, CurrentIsProvider
  <2>3. PICK b \in Breaker : b = breakers[q]
    BY DEF TypeOK
  <2>4. b.state = "open" /\ ~(now >= b.opened_at + HalfOpenAfter)
    BY <1>2, <1>4, <2>2, <2>3 DEF SkipOpen, Allows, Resolve, Breaker
  <2>5. BreakerKept(b, records, q, n, now)
    BY <1>1, <1>2, <2>3, KeptIsInv
  <2>6. FailedInWindow(records, q, n)
    BY <2>4, <2>5 DEF BreakerKept
  <2>7. PICK i \in LastCalls(records, q, n) : b.opened_at = Read(records[i].at)
    BY <2>4, <2>5 DEF BreakerKept
  <2>8. Read(clock) < Read(records[i].at) + HalfOpenAfter
    BY <1>2, <2>4, <2>7, BreakerAssumption DEF Reading, Breaker
  <2>9. Cooling(records, q, n, clock)
    BY <2>7, <2>8 DEF Cooling
  <2>10. "circuit_open" \in Outcomes /\ clock \in Nat /\ pc # "idle" /\ Emit("circuit_open", clock)
    BY <1>4, <2>1, RecordTypes DEF Outcomes, SkipOpen
  <2> QED
    BY <1>1, <2>1, <2>2, <2>6, <2>9, <2>10, HistoryJoins
<1>5. ASSUME NEW outcome \in Outcomes, outcome # "circuit_open", pc = "call",
             Emit(outcome, started)
      PROVE  SkipsFollowHistory'
  <2>1. position < N
    BY <1>5 DEF JobInv
  <2>2. PICK q \in Providers : q = Current
    BY <1>5, <2>1, CurrentIsProvider
  <2>3. PICK b \in Breaker : b = breakers[q]
    BY DEF TypeOK
  <2>4. BreakerKept(b, records, q, n, now)
    BY <1>1, <1>2, <2>3, KeptIsInv
  <2>5. /\ b.state # "open"
        /\ b.state = "half_open" => Read(started) >= b.opened_at + HalfOpenAfter
    BY <1>5, <2>2, <2>3 DEF CallInv
  <2>6. ~(FailedInWindow(records, q, n) /\ Cooling(records, q, n, started))
    <3>1. CASE b.state = "closed"
      BY <2>4, <3>1 DEF BreakerKept
    <3>2. CASE b.state = "half_open"
      <4>1. PICK i \in LastCalls(records, q, n) : b.opened_at = Read(records[i].at)
        BY <2>4, <3>2 DEF BreakerKept
      <4>2. Read(records[i].at) \in Nat /\ Read(started) \in Nat
        <5>1. i \in 1..n
          BY DEF LastCalls, CallsOf
        <5> QED
          BY <1>3, <5>1, RecordTypes DEF Read
      <4>3. ~(Read(started) < Read(records[i].at) + HalfOpenAfter)
        BY <2>5, <3>2, <4>1, <4>2, BreakerAssumption
      <4>4. \A j \in LastCalls(records, q, n) : j = i
        <5>1. PICK log : log = records
          OBVIOUS
        <5>2. i \in LastCalls(log, q, n)
          BY <5>1
        <5>3. \A j \in LastCalls(log, q, n) : j = i
          BY <5>2, OneLastCall
        <5> QED
          BY <5>1, <5>3
      <4> QED
        BY <4>3, <4>4 DEF Cooling
    <3> QED
      BY <2>5, <3>1, <3>2 DEF Breaker, BreakerStates
  <2>7. started \in Nat /\ pc # "idle"
    BY <1>5, RecordTypes
  <2> QED
    BY <1>1, <1>5, <2>1, <2>2, <2>6, <2>7, HistoryJoins
<1>6. ASSUME NEW outcome \in {"error", "timeout"}, FailTurn(outcome)
      PROVE  SkipsFollowHistory'
  <2>1. outcome \in Outcomes /\ outcome # "circuit_open" /\ pc = "call" /\ Emit(outcome, started)
    BY <1>6 DEF FailTurn, Fail, Outcomes
  <2> QED
    BY <1>5, <2>1
<1>7. CASE CallSucceeds
  <2>1. "success" \in Outcomes /\ pc = "call" /\ Emit("success", started)
    BY <1>7 DEF CallSucceeds, Outcomes
  <2> QED
    BY <1>5, <2>1
<1>8. CASE Ask \/ Degrade \/ Call \/ CallEscapes \/ Tick \/ Attempt
  <2>1. UNCHANGED records
    BY <1>8 DEF Ask, Degrade, Call, CallEscapes, Tick, Attempt
  <2> QED
    BY <2>1 DEF SkipsFollowHistory
<1> QED
  BY <1>4, <1>6, <1>7, <1>8, Steps

-----------------------------------------------------------------------------
(* The chain.  Router.order repeats nobody and goes by priority after the   *)
(* first pick.                                                              *)
LEMMA ChainAscends ==
  ASSUME TypeOK, NEW j \in Nat, NEW k \in Nat, j < k
  PROVE  /\ ChainAt(j) # ChainAt(k)
         /\ 0 < j => ChainAt(j) < ChainAt(k)
<1>1. first \in Nat
  BY JobAssumption DEF TypeOK, Providers
<1> QED
  BY <1>1 DEF ChainAt

(* n records of the job under way, the last ones of a log.                  *)
Under(log, before, n, job) ==
    /\ \A i \in 1..before : log[i].job # job
    /\ \A k \in 1..n :
          /\ log[before + k].job = job
          /\ log[before + k].index = k - 1
          /\ log[before + k].provider = ChainAt(k - 1)

LEMMA UnderIsWalked ==
  ASSUME TypeOK, NEW log \in Seq(CallRecord), NEW before \in Nat, NEW n \in Nat, NEW job,
         Len(log) = before + n, Under(log, before, n, job)
  PROVE  /\ RecordsOf(log, job) = (before + 1)..(before + n)
         /\ Walked(log, before, n)
<1>1. DOMAIN log = 1..(before + n)
  OBVIOUS
<1>2. ASSUME NEW i \in 1..(before + n)
      PROVE  log[i].job = job <=> i \in (before + 1)..(before + n)
  <2>1. CASE i <= before
    BY <2>1 DEF Under
  <2>2. CASE ~(i <= before)
    <3>1. i - before \in 1..n /\ before + (i - before) = i
      BY <2>2
    <3>2. log[i].job = job
      BY <3>1 DEF Under
    <3> QED
      BY <2>2, <3>2
  <2> QED
    BY <2>1, <2>2
<1>3. RecordsOf(log, job) = (before + 1)..(before + n)
  <2>1. (before + 1)..(before + n) \subseteq 1..(before + n)
    OBVIOUS
  <2> QED
    BY <1>1, <1>2, <2>1 DEF RecordsOf
<1>4. ASSUME NEW j \in 1..n, NEW k \in 1..n, j < k
      PROVE  /\ log[before + j].provider # log[before + k].provider
             /\ 1 < j => log[before + j].provider < log[before + k].provider
  <2>1. PICK a \in Nat : a = j - 1
    OBVIOUS
  <2>2. PICK b \in Nat : b = k - 1
    OBVIOUS
  <2>3. a < b /\ (1 < j => 0 < a)
    BY <1>4, <2>1, <2>2
  <2>4. log[before + j].provider = ChainAt(a) /\ log[before + k].provider = ChainAt(b)
    BY <2>1, <2>2 DEF Under
  <2>5. ChainAt(a) # ChainAt(b) /\ (0 < a => ChainAt(a) < ChainAt(b))
    BY <2>3, ChainAscends
  <2> QED
    BY <2>3, <2>4, <2>5
<1>5. Walked(log, before, n)
  BY <1>4 DEF Walked, Under
<1> QED
  BY <1>3, <1>5

\* The records of the job under way, with its failures.
JobRecords ==
    LET before == Len(records) - position
    IN  /\ before \in Nat /\ position \in Nat /\ position <= N
        /\ Len(records) = before + position
        /\ \A i \in 1..before : records[i].job \in 1..Len(outcomes)
        /\ Under(records, before, position, Len(outcomes) + 1)
        /\ \A k \in 1..position : records[before + k].outcome \in Failures

LEMMA JobUnderWay ==
  ASSUME TypeOK, JobInv
  PROVE  JobRecords /\ Len(outcomes) \in Nat
<1>1. position \in 0..N /\ Len(records) \in Nat /\ Len(outcomes) \in Nat
  BY DEF TypeOK
<1>2. PICK before \in Nat : before = Len(records) - position
  <2>1. position <= Len(records)
    BY DEF JobInv
  <2> QED
    BY <1>1, <2>1
<1>3. /\ \A i \in 1..before : records[i].job \in 1..Len(outcomes)
      /\ \A k \in 1..position :
            /\ records[before + k].job = Len(outcomes) + 1
            /\ records[before + k].index = k - 1
            /\ records[before + k].provider = ChainAt(k - 1)
            /\ records[before + k].outcome \in Failures
  BY <1>2 DEF JobInv
<1>4. \A i \in 1..before : records[i].job # Len(outcomes) + 1
  BY <1>1, <1>3
<1> QED
  BY <1>1, <1>2, <1>3, <1>4, JobAssumption DEF JobRecords, Under

(* The job under way, one step later.                                       *)
LEMMA JobStep ==
  ASSUME TypeOK, JobInv, [Next]_vars
  PROVE  JobInv'
<1> USE JobAssumption
<1>1. position \in 0..N /\ Len(records) \in Nat /\ Len(outcomes) \in Nat
  BY DEF TypeOK
<1>2. PICK before \in Nat :
        /\ before = Len(records) - position
        /\ Len(records) = before + position
        /\ \A i \in 1..before : records[i].job \in 1..Len(outcomes)
        /\ \A k \in 1..position :
              /\ records[before + k].job = Len(outcomes) + 1
              /\ records[before + k].index = k - 1
              /\ records[before + k].provider = ChainAt(k - 1)
              /\ records[before + k].outcome \in Failures
  <2>1. position <= Len(records) /\ position \in Nat
    BY <1>1 DEF JobInv
  <2>2. PICK before \in Nat : before = Len(records) - position
    <3>1. Len(records) - position \in Nat
      BY <1>1, <2>1
    <3> QED
      BY <3>1
  <2>3. Len(records) = before + position
    BY <1>1, <2>2
  <2>4. /\ \A i \in 1..before : records[i].job \in 1..Len(outcomes)
        /\ \A k \in 1..position :
              /\ records[before + k].job = Len(outcomes) + 1
              /\ records[before + k].index = k - 1
              /\ records[before + k].provider = ChainAt(k - 1)
              /\ records[before + k].outcome \in Failures
    BY <2>2 DEF JobInv
  <2> QED
    BY <2>2, <2>3, <2>4
<1>3. \A k : first' = first => ChainAt(k)' = ChainAt(k)
  BY DEF ChainAt
<1>4. CASE Ask
  <2>1. position = 0 /\ position' = 0 /\ records' = records /\ outcomes' = outcomes
        /\ pc' = "chain"
    BY <1>4 DEF Ask, JobInv
  <2>2. N > 0 => first' \in Providers
    BY <1>4, GatewayAssumption DEF Ask
  <2>3. before = Len(records')  - position'
    BY <1>2, <2>1
  <2>4. \A k \in 1..position' : FALSE
    BY <2>1
  <2> QED
    BY <1>1, <1>2, <2>1, <2>2, <2>3, <2>4 DEF JobInv
<1>5. ASSUME NEW outcome \in JobOutcomes, Return(outcome),
             \A i \in 1..Len(records) : records'[i] = records[i],
             \/ records' = records
             \/ /\ Len(records') = Len(records) + 1
                /\ records'[Len(records) + 1].job = Len(outcomes) + 1
      PROVE  JobInv'
  <2>1. Len(outcomes') = Len(outcomes) + 1 /\ position' = 0 /\ pc' = "idle"
    BY <1>5 DEF Return, TypeOK
  <2>2. Len(records') \in Nat
    BY <1>1, <1>5
  <2>3. ASSUME NEW i \in 1..Len(records) PROVE records[i].job \in 1..(Len(outcomes) + 1)
    <3>1. CASE i <= before
      BY <1>1, <1>2, <3>1
    <3>2. CASE ~(i <= before)
      <4>1. i - before \in 1..position /\ before + (i - before) = i
        BY <1>1, <1>2, <3>2
      <4>2. records[i].job = Len(outcomes) + 1
        BY <1>2, <4>1
      <4> QED
        BY <1>1, <4>2
    <3> QED
      BY <3>1, <3>2
  <2>4. ASSUME NEW i \in 1..Len(records') PROVE records'[i].job \in 1..Len(outcomes')
    <3>1. CASE i \in 1..Len(records)
      BY <1>5, <2>1, <2>3, <3>1
    <3>2. CASE i \notin 1..Len(records)
      <4>1. i = Len(records) + 1 /\ Len(records') = Len(records) + 1
        BY <1>1, <1>5, <3>2
      <4> QED
        BY <1>1, <1>5, <2>1, <4>1
    <3> QED
      BY <3>1, <3>2
  <2>5. Len(records') - position' = Len(records')
    BY <2>1, <2>2
  <2>6. \A k \in 1..position' : FALSE
    BY <2>1
  <2>7. \A i \in 1..(Len(records') - position') : records'[i].job \in 1..Len(outcomes')
    BY <2>4, <2>5
  <2> QED
    BY <2>1, <2>2, <2>6, <2>7 DEF JobInv
<1>6. CASE Degrade
  BY <1>5, <1>6 DEF Degrade, JobOutcomes
<1>7. CASE CallEscapes
  BY <1>5, <1>7 DEF CallEscapes, JobOutcomes
<1>8. CASE CallSucceeds
  <2>1. pc # "idle" /\ position < N /\ Emit("success", started) /\ Return("answered")
    BY <1>8 DEF CallSucceeds, JobInv
  <2>2. "success" \in Outcomes /\ started \in Nat
    BY RecordTypes DEF Outcomes
  <2>3. /\ Len(records') = Len(records) + 1
        /\ \A i \in 1..Len(records) : records'[i] = records[i]
        /\ records'[Len(records) + 1].job = Len(outcomes) + 1
    BY <2>1, <2>2, RecordJoins
  <2> QED
    BY <1>5, <2>1, <2>3 DEF JobOutcomes
<1>9. ASSUME NEW outcome \in Failures, NEW from \in Nat, pc # "idle", position < N,
             Emit(outcome, from), NextProvider
      PROVE  JobInv'
  <2>1. /\ Len(records') = Len(records) + 1
        /\ \A i \in 1..Len(records) : records'[i] = records[i]
        /\ records'[Len(records) + 1].job = Len(outcomes) + 1
        /\ records'[Len(records) + 1].index = position
        /\ records'[Len(records) + 1].provider = Current
        /\ records'[Len(records) + 1].outcome = outcome
    <3>1. outcome \in Outcomes
      BY DEF Failures
    <3> QED
      BY <1>9, <3>1, RecordJoins
  <2>2. pc' = "chain" /\ position' = position + 1 /\ first' = first /\ outcomes' = outcomes
    BY <1>9 DEF NextProvider
  <2>3. Len(records') - position' = before /\ position' <= Len(records')
        /\ before + position' = Len(records) + 1
    <3>1. Len(records) = before + position /\ Len(records') = Len(records) + 1
          /\ position' = position + 1
      BY <1>2, <2>1, <2>2
    <3>2. position \in Nat /\ before \in Nat /\ Len(records) \in Nat
      BY <1>1
    <3> QED
      BY <3>1, <3>2
  <2>4. \A i \in 1..before : records'[i].job \in 1..Len(outcomes')
    <3>1. \A i \in 1..before : i \in 1..Len(records)
      BY <1>1, <1>2
    <3> QED
      BY <1>2, <2>1, <2>2, <3>1
  <2>5. ASSUME NEW k \in 1..position'
        PROVE  /\ records'[before + k].job = Len(outcomes') + 1
               /\ records'[before + k].index = k - 1
               /\ records'[before + k].provider = ChainAt(k - 1)'
               /\ records'[before + k].outcome \in Failures
    <3>1. CASE k = position'
      <4>1. before + k = Len(records) + 1 /\ k - 1 = position
        BY <1>1, <2>2, <2>3, <3>1
      <4>2. PICK h : h = k - 1
        OBVIOUS
      <4>3. ChainAt(h)' = ChainAt(h) /\ ChainAt(h) = Current
        BY <1>3, <2>2, <4>1, <4>2 DEF Current
      <4> QED
        BY <2>1, <2>2, <4>1, <4>2, <4>3
    <3>2. CASE k # position'
      <4>1. k \in 1..position /\ before + k \in 1..Len(records)
        BY <1>1, <1>2, <2>2, <3>2
      <4>2. PICK h : h = k - 1
        OBVIOUS
      <4>3. ChainAt(h)' = ChainAt(h)
        BY <1>3, <2>2
      <4>4. records'[before + k] = records[before + k]
        BY <2>1, <4>1
      <4> QED
        BY <1>2, <2>2, <4>1, <4>2, <4>3, <4>4
    <3> QED
      BY <3>1, <3>2
  <2>6. N > 0 => first' \in Providers
    BY <1>9, <2>2 DEF JobInv
  <2> QED
    BY <2>2, <2>3, <2>4, <2>5, <2>6 DEF JobInv
<1>10. CASE SkipOpen
  <2>1. "circuit_open" \in Failures /\ clock \in Nat
    BY RecordTypes DEF Failures, Outcomes
  <2> QED
    BY <1>9, <1>10, <2>1 DEF SkipOpen
<1>11. ASSUME NEW outcome \in {"error", "timeout"}, FailTurn(outcome)
       PROVE  JobInv'
  <2>1. outcome \in Failures /\ started \in Nat
    BY RecordTypes DEF Failures, Outcomes
  <2>2. pc # "idle" /\ position < N
    BY <1>11 DEF FailTurn, JobInv
  <2> QED
    BY <1>9, <1>11, <2>1, <2>2 DEF FailTurn, Fail
<1>12. ASSUME UNCHANGED <<first, position, records, outcomes>>,
              pc' = pc \/ (pc = "chain" /\ pc' = "call" /\ position < N)
       PROVE  JobInv'
  <2>1. \A k : ChainAt(k)' = ChainAt(k)
    BY <1>3, <1>12
  <2> QED
    BY <1>12, <2>1 DEF JobInv
<1>13. CASE Call \/ Tick \/ Attempt
  BY <1>12, <1>13 DEF Call, Tick, Attempt
<1> QED
  BY <1>4, <1>6, <1>7, <1>8, <1>10, <1>11, <1>13, Steps

(* The jobs that are done, one step later.                                  *)
LEMMA OldJobsStay ==
  ASSUME TypeOK, ChainFollowed, NEW other, Len(other) >= Len(records), Len(other) \in Nat,
         DOMAIN other = 1..Len(other),
         \A i \in 1..Len(records) : other[i] = records[i],
         \A i \in DOMAIN other : i \notin DOMAIN records => other[i].job = Len(outcomes) + 1,
         NEW job \in DOMAIN outcomes
  PROVE  \E before \in 0..Len(other), n \in 0..N :
            /\ RecordsOf(other, job) = (before + 1)..(before + n)
            /\ JobKept(OutcomesAfter(other, before, n), outcomes[job])
            /\ Walked(other, before, n)
<1>1. Len(records) \in Nat /\ DOMAIN records = 1..Len(records)
  BY RecordTypes
<1>2. job # Len(outcomes) + 1
  BY DEF TypeOK
<1>3. PICK before \in 0..Len(records), n \in 0..N :
         /\ RecordsOf(records, job) = (before + 1)..(before + n)
         /\ JobKept(OutcomesAfter(records, before, n), outcomes[job])
         /\ Walked(records, before, n)
  BY DEF ChainFollowed
<1>4. RecordsOf(other, job) = RecordsOf(records, job)
  <2>1. DOMAIN records \subseteq DOMAIN other
    BY <1>1
  <2> QED
    BY <1>1, <1>2, <2>1 DEF RecordsOf
<1>5. \A k \in 1..n : other[before + k] = records[before + k]
  <2> SUFFICES ASSUME NEW k \in 1..n PROVE other[before + k] = records[before + k]
    OBVIOUS
  <2>1. before + k \in (before + 1)..(before + n)
    BY JobAssumption
  <2>2. before + k \in DOMAIN records
    BY <1>3, <2>1 DEF RecordsOf
  <2> QED
    BY <1>1, <2>2
<1>6. OutcomesAfter(other, before, n) = OutcomesAfter(records, before, n)
  BY <1>5 DEF OutcomesAfter
<1>7. Walked(other, before, n)
  BY <1>3, <1>5 DEF Walked
<1>8. before \in 0..Len(other)
  BY <1>1
<1> QED
  BY <1>3, <1>4, <1>6, <1>7, <1>8

LEMMA TrailOfOutcomes ==
  ASSUME NEW log, NEW before \in Nat, NEW n \in Nat
  PROVE  /\ DOMAIN OutcomesAfter(log, before, n) = 1..n
         /\ Len(OutcomesAfter(log, before, n)) = n
<1> DEFINE S == {log[before + k].outcome : k \in 1..n}
<1>1. OutcomesAfter(log, before, n) \in Seq(S)
  <2>1. OutcomesAfter(log, before, n) \in [1..n -> S]
    BY DEF OutcomesAfter
  <2> HIDE DEF S
  <2> QED
    BY <2>1
<1> HIDE DEF S
<1> QED
  BY <1>1 DEF OutcomesAfter

(* Return: the job under way is done, and the earlier ones stay done.       *)
LEMMA JobReturns ==
  ASSUME TypeOK, JobInv, ChainFollowed, NEW outcome \in JobOutcomes, Return(outcome),
         NEW n \in 0..N, records' \in Seq(CallRecord),
         Len(records') = Len(records) - position + n, n >= position,
         \A i \in 1..Len(records) : records'[i] = records[i],
         Under(records', Len(records) - position, n, Len(outcomes) + 1),
         JobKept(OutcomesAfter(records', Len(records) - position, n), outcome)
  PROVE  ChainFollowed'
<1>1. JobRecords /\ Len(outcomes) \in Nat
  BY JobUnderWay
<1>2. PICK before \in Nat : /\ before = Len(records) - position
                            /\ Len(records) = before + position /\ position \in Nat
  BY <1>1 DEF JobRecords
<1>3. PICK other \in Seq(CallRecord) : other = records'
  OBVIOUS
<1>4. n \in Nat /\ Len(other) = before + n /\ Len(records) \in Nat
  BY <1>2, <1>3, JobAssumption
<1>5. PICK job \in Nat : job = Len(outcomes) + 1
  BY <1>1
<1>6. /\ RecordsOf(other, job) = (before + 1)..(before + n)
      /\ Walked(other, before, n)
      /\ JobKept(OutcomesAfter(other, before, n), outcome)
  <2>1. Under(other, before, n, job)
    BY <1>2, <1>3, <1>5
  <2> QED
    BY <1>2, <1>3, <1>4, <2>1, UnderIsWalked
<1>7. DOMAIN outcomes' = 1..job /\ outcomes'[job] = outcome
      /\ \A j \in DOMAIN outcomes : outcomes'[j] = outcomes[j]
      /\ DOMAIN outcomes = 1..Len(outcomes)
  BY <1>1, <1>5 DEF Return, TypeOK
<1>8. ASSUME NEW j \in DOMAIN outcomes'
      PROVE  \E b \in 0..Len(other), m \in 0..N :
                /\ RecordsOf(other, j) = (b + 1)..(b + m)
                /\ JobKept(OutcomesAfter(other, b, m), outcomes'[j])
                /\ Walked(other, b, m)
  <2>1. CASE j = job
    <3>1. before \in 0..Len(other)
      BY <1>4
    <3> QED
      BY <1>6, <1>7, <2>1, <3>1
  <2>2. CASE j # job
    <3>1. j \in DOMAIN outcomes /\ outcomes'[j] = outcomes[j]
      BY <1>1, <1>5, <1>7, <2>2
    <3>2. DOMAIN other = 1..Len(other) /\ Len(other) \in Nat /\ Len(other) >= Len(records)
      BY <1>2, <1>4
    <3>3. ASSUME NEW i \in DOMAIN other, i \notin DOMAIN records
          PROVE  other[i].job = Len(outcomes) + 1
      <4>1. DOMAIN records = 1..(before + position)
        BY <1>2, RecordTypes
      <4>2. i - before \in 1..n /\ before + (i - before) = i
        BY <1>2, <1>4, <3>2, <3>3, <4>1
      <4>3. Under(other, before, n, Len(outcomes) + 1)
        BY <1>2, <1>3
      <4> QED
        BY <4>2, <4>3 DEF Under
    <3>4. \A i \in 1..Len(records) : other[i] = records[i]
      BY <1>3
    <3>5. \E b \in 0..Len(other), m \in 0..N :
             /\ RecordsOf(other, j) = (b + 1)..(b + m)
             /\ JobKept(OutcomesAfter(other, b, m), outcomes[j])
             /\ Walked(other, b, m)
      BY <3>1, <3>2, <3>3, <3>4, OldJobsStay
    <3> QED
      BY <3>1, <3>5
  <2> QED
    BY <2>1, <2>2
<1> QED
  BY <1>3, <1>8 DEF ChainFollowed

LEMMA ChainStep ==
  ASSUME TypeOK, JobInv, ChainFollowed, [Next]_vars
  PROVE  ChainFollowed'
<1>1. JobRecords /\ Len(outcomes) \in Nat
  BY JobUnderWay
<1>2. PICK before \in Nat :
        /\ before = Len(records) - position /\ Len(records) = before + position
        /\ position \in Nat /\ position <= N
        /\ Under(records, before, position, Len(outcomes) + 1)
        /\ \A k \in 1..position : records[before + k].outcome \in Failures
  BY <1>1 DEF JobRecords
<1>3. records \in Seq(CallRecord) /\ Len(records) \in Nat /\ DOMAIN records = 1..Len(records)
  BY RecordTypes
<1>4. PICK trail : trail = OutcomesAfter(records, before, position)
  OBVIOUS
<1>5. /\ Len(trail) = position /\ DOMAIN trail = 1..position
      /\ \A k \in 1..position : trail[k] \in Failures
  <2>1. /\ DOMAIN trail = 1..position /\ Len(trail) = position
        /\ \A k \in 1..position : trail[k] = records[before + k].outcome
    <3>1. DOMAIN trail = 1..position /\ Len(trail) = position
      BY <1>2, <1>4, TrailOfOutcomes
    <3>2. \A k \in 1..position : trail[k] = records[before + k].outcome
      BY <1>4 DEF OutcomesAfter
    <3> QED
      BY <3>1, <3>2
  <2> QED
    BY <1>2, <1>4, <2>1
<1>6. ASSUME NEW outcome \in JobOutcomes, Return(outcome), UNCHANGED records,
             JobKept(trail, outcome)
      PROVE  ChainFollowed'
  <2>1. position \in 0..N /\ position >= position
    BY <1>2
  <2>2. Len(records') = Len(records) - position + position
    BY <1>2, <1>3, <1>6
  <2>3. Under(records', Len(records) - position, position, Len(outcomes) + 1)
    BY <1>2, <1>6
  <2>4. JobKept(OutcomesAfter(records', Len(records) - position, position), outcome)
    BY <1>2, <1>4, <1>6
  <2>5. records' \in Seq(CallRecord) /\ \A i \in 1..Len(records) : records'[i] = records[i]
    BY <1>3, <1>6
  <2> QED
    BY <1>6, <2>1, <2>2, <2>3, <2>4, <2>5, JobReturns
<1>7. CASE Degrade
  <2>1. position = N /\ Return("degraded") /\ UNCHANGED records
    BY <1>7 DEF Degrade
  <2>2. JobKept(trail, "degraded")
    BY <1>5, <2>1 DEF JobKept
  <2> QED
    BY <1>6, <2>1, <2>2 DEF JobOutcomes
<1>8. CASE CallEscapes
  <2>1. position < N /\ Return("raised") /\ UNCHANGED records
    BY <1>8 DEF CallEscapes, JobInv
  <2>2. JobKept(trail, "raised")
    BY <1>5, <2>1 DEF JobKept
  <2> QED
    BY <1>6, <2>1, <2>2 DEF JobOutcomes
<1>9. CASE CallSucceeds
  <2>1. pc # "idle" /\ position < N /\ Emit("success", started) /\ Return("answered")
    BY <1>9 DEF CallSucceeds, JobInv
  <2>2. "success" \in Outcomes /\ started \in Nat
    BY RecordTypes DEF Outcomes
  <2>3. /\ Len(records') = Len(records) + 1
        /\ \A i \in 1..Len(records) : records'[i] = records[i]
        /\ records'[Len(records) + 1].job = Len(outcomes) + 1
        /\ records'[Len(records) + 1].index = position
        /\ records'[Len(records) + 1].provider = Current
        /\ records'[Len(records) + 1].outcome = "success"
    BY <2>1, <2>2, RecordJoins
  <2>4. records' \in Seq(CallRecord)
    BY <2>1, <2>2, Emitted
  <2>5. PICK n \in 0..N : n = position + 1 /\ n \in Nat
    BY <1>2, <2>1, JobAssumption
  <2>6. Len(records') = Len(records) - position + n /\ n >= position
        /\ before + n = Len(records) + 1
    BY <1>2, <1>3, <2>3, <2>5
  <2>7. PICK other : other = records'
    OBVIOUS
  <2>8. \A k \in 1..n : IF k = n
                        THEN before + k = Len(records) + 1
                        ELSE k \in 1..position /\ other[before + k] = records[before + k]
    <3> SUFFICES ASSUME NEW k \in 1..n, k # n
                 PROVE  k \in 1..position /\ other[before + k] = records[before + k]
      BY <2>6
    <3>1. k \in 1..position /\ before + k \in 1..Len(records)
      BY <1>2, <2>5
    <3> QED
      BY <2>3, <2>7, <3>1
  <2>9. Under(other, before, n, Len(outcomes) + 1)
    <3>1. ASSUME NEW i \in 1..before PROVE other[i].job # Len(outcomes) + 1
      <4>1. i \in 1..Len(records)
        BY <1>2
      <4> QED
        BY <1>2, <2>3, <2>7, <4>1 DEF Under
    <3>2. ASSUME NEW k \in 1..n
          PROVE  /\ other[before + k].job = Len(outcomes) + 1
                 /\ other[before + k].index = k - 1
                 /\ other[before + k].provider = ChainAt(k - 1)
      <4>1. CASE k = n
        <5>1. k - 1 = position
          BY <1>2, <2>5, <4>1
        <5> QED
          BY <2>3, <2>7, <2>8, <4>1, <5>1 DEF Current
      <4>2. CASE k # n
        BY <1>2, <2>8, <4>2 DEF Under
      <4> QED
        BY <4>1, <4>2
    <3> QED
      BY <3>1, <3>2 DEF Under
  <2>10. PICK t : t = OutcomesAfter(other, before, n)
    OBVIOUS
  <2>11. DOMAIN t = 1..n /\ Len(t) = n /\ t # <<>>
         /\ \A k \in 1..n : t[k] = other[before + k].outcome
    <3>1. DOMAIN t = 1..n /\ Len(t) = n
      BY <1>2, <2>5, <2>10, TrailOfOutcomes
    <3>2. \A k \in 1..n : t[k] = other[before + k].outcome
      BY <2>10 DEF OutcomesAfter
    <3>3. n > 0
      BY <1>2, <2>5
    <3>4. t # <<>>
      BY <3>1, <3>3
    <3> QED
      BY <3>1, <3>2, <3>4
  <2>12. ASSUME NEW k \in 1..n PROVE t[k] = "success" <=> k = n
    <3>1. CASE k = n
      BY <2>3, <2>7, <2>8, <2>11, <3>1
    <3>2. CASE k # n
      <4>1. t[k] \in Failures
        <5>1. k \in 1..position /\ other[before + k] = records[before + k]
          BY <2>8, <3>2
        <5>2. records[before + k].outcome \in Failures
          BY <1>2, <5>1
        <5> QED
          BY <2>11, <5>1, <5>2
      <4> QED
        BY <3>2, <4>1 DEF Failures
    <3> QED
      BY <3>1, <3>2
  <2>13. JobKept(t, "answered")
    <3>1. t # <<>> /\ Len(t) <= N
      BY <1>2, <2>1, <2>5, <2>11
    <3>2. \A k \in DOMAIN t : t[k] = "success" <=> k = Len(t)
      BY <2>11, <2>12, Zenon
    <3> QED
      BY <3>1, <3>2, Zenon DEF JobKept
  <2>14. Under(records', Len(records) - position, n, Len(outcomes) + 1)
    BY <1>2, <2>7, <2>9
  <2>15. JobKept(OutcomesAfter(records', Len(records) - position, n), "answered")
    BY <1>2, <2>7, <2>10, <2>13
  <2>16. "answered" \in JobOutcomes
    BY DEF JobOutcomes
  <2> QED
    BY <2>1, <2>3, <2>4, <2>6, <2>14, <2>15, <2>16, JobReturns
<1>10. ASSUME NEW outcome \in Outcomes, NEW from \in Nat, pc # "idle", position < N,
              Emit(outcome, from), UNCHANGED outcomes
       PROVE  ChainFollowed'
  <2>1. /\ Len(records') = Len(records) + 1
        /\ DOMAIN records' = 1..(Len(records) + 1)
        /\ \A i \in 1..Len(records) : records'[i] = records[i]
        /\ records'[Len(records) + 1].job = Len(outcomes) + 1
    BY <1>10, RecordJoins
  <2>2. PICK other : other = records'
    OBVIOUS
  <2>3. Len(other) >= Len(records) /\ Len(other) \in Nat /\ DOMAIN other = 1..Len(other)
    BY <1>3, <2>1, <2>2
  <2>4. \A i \in DOMAIN other : i \notin DOMAIN records => other[i].job = Len(outcomes) + 1
    <3>1. \A i \in 1..(Len(records) + 1) : i \notin 1..Len(records) => i = Len(records) + 1
      BY <1>3
    <3> QED
      BY <1>3, <2>1, <2>2, <3>1
  <2>5. \A j \in DOMAIN outcomes :
           \E b \in 0..Len(other), m \in 0..N :
              /\ RecordsOf(other, j) = (b + 1)..(b + m)
              /\ JobKept(OutcomesAfter(other, b, m), outcomes[j])
              /\ Walked(other, b, m)
    BY <2>1, <2>2, <2>3, <2>4, OldJobsStay
  <2> QED
    BY <1>10, <2>2, <2>5 DEF ChainFollowed
<1>11. CASE SkipOpen
  <2>1. "circuit_open" \in Outcomes /\ clock \in Nat
    BY RecordTypes DEF Outcomes
  <2> QED
    BY <1>10, <1>11, <2>1 DEF SkipOpen, NextProvider
<1>12. ASSUME NEW outcome \in {"error", "timeout"}, FailTurn(outcome)
       PROVE  ChainFollowed'
  <2>1. outcome \in Outcomes /\ started \in Nat
    BY RecordTypes DEF Outcomes
  <2>2. pc # "idle" /\ position < N
    BY <1>12 DEF FailTurn, JobInv
  <2> QED
    BY <1>10, <1>12, <2>1, <2>2 DEF FailTurn, Fail, NextProvider
<1>13. CASE Ask \/ Call \/ Tick \/ Attempt
  <2>1. UNCHANGED <<records, outcomes>>
    BY <1>13 DEF Ask, Call, Tick, Attempt
  <2> QED
    BY <2>1 DEF ChainFollowed
<1> QED
  BY <1>7, <1>8, <1>9, <1>11, <1>12, <1>13, Steps

-----------------------------------------------------------------------------
(* The invariant of the gateway.                                            *)
LEMMA InitiallyKept == Init => GatewayInv
<1> SUFFICES ASSUME Init PROVE GatewayInv
  OBVIOUS
<1> USE JobAssumption, GatewayAssumption, BreakerAssumption DEF Init
<1>1. TypeOK
  <2>1. NewBreaker \in Breaker /\ Len(NewBreaker.failures) = 0
    BY DEF NewBreaker, Breaker, BreakerStates
  <2> QED
    BY <2>1 DEF TypeOK
<1>2. Len(records) = 0 /\ Len(outcomes) = 0 /\ DOMAIN records = {} /\ DOMAIN outcomes = {}
  OBVIOUS
<1>3. TimeInv
  BY <1>2 DEF TimeInv
<1>4. \A p \in Providers : BreakerKept(breakers[p], records, p, Len(records), Reading)
  <2> SUFFICES ASSUME NEW p \in Providers
               PROVE  BreakerKept(NewBreaker, records, p, 0, Reading)
    BY <1>2
  <2>1. CallsOf(records, p, 0) = {} /\ Unanswered(records, p, 0) = {}
    BY DEF CallsOf, Unanswered
  <2>2. DOMAIN <<>> = {} /\ [x \in {} |-> x] \in [{} -> {}]
    OBVIOUS
  <2>3. DequeKept(<<>>, records, p, 0, Reading)
    BY <2>1, <2>2 DEF DequeKept
  <2> QED
    BY <2>1, <2>3 DEF BreakerKept, NewBreaker, FailedInWindow
<1>5. BreakersInv
  BY <1>4, KeptIsInv
<1>6. CallInv /\ SkipsFollowHistory /\ ChainFollowed
  BY <1>2 DEF CallInv, SkipsFollowHistory, ChainFollowed
<1>7. JobInv
  BY <1>2 DEF JobInv
<1> QED
  BY <1>1, <1>3, <1>5, <1>6, <1>7 DEF GatewayInv

LEMMA GatewayStep ==
  ASSUME GatewayInv, [Next]_vars
  PROVE  GatewayInv'
<1>1. TypeOK /\ TimeInv /\ BreakersInv /\ CallInv /\ SkipsFollowHistory /\ JobInv /\ ChainFollowed
  BY DEF GatewayInv
<1>2. TypeOK' /\ TimeInv'
  BY <1>1, TypeStep, TimeStep
<1>3. BreakersInv' /\ CallInv' /\ SkipsFollowHistory'
  BY <1>1, BreakersStep, CallStep, HistoryStep
<1>4. JobInv' /\ ChainFollowed'
  BY <1>1, JobStep, ChainStep
<1> QED
  BY <1>2, <1>3, <1>4 DEF GatewayInv

THEOREM GatewayInvariant == Spec => []GatewayInv
<1>1. Init => GatewayInv
  BY InitiallyKept
<1>2. GatewayInv /\ [Next]_vars => GatewayInv'
  BY GatewayStep
<1> QED
  BY <1>1, <1>2, PTL DEF Spec

(* The fields keep their types, and no deque ever holds as many failures as *)
(* trip the breaker.                                                        *)
THEOREM GatewayTypes == Spec => []TypeOK
<1>1. GatewayInv => TypeOK
  BY DEF GatewayInv
<1> QED
  BY <1>1, GatewayInvariant, PTL

(* _prune, record_failure and record_success together: a breaker is out of  *)
(* CLOSED exactly when its provider failed failure_threshold times within   *)
(* one window and has not succeeded since.                                  *)
THEOREM BreakersRemember == Spec => []BreakerMatchesRecords
<1>1. GatewayInv => BreakerMatchesRecords
  BY DEF GatewayInv, BreakersInv, ClosedInv, TrippedInv, BreakerMatchesRecords
<1> QED
  BY <1>1, GatewayInvariant, PTL

(* allows(): a provider is skipped exactly while its breaker cools down, and *)
(* is not called before.                                                    *)
THEOREM SkipsAreEarned == Spec => []SkipsFollowHistory
<1>1. GatewayInv => SkipsFollowHistory
  BY DEF GatewayInv
<1> QED
  BY <1>1, GatewayInvariant, PTL

(* _run keeps the promise of ReasoningJob and walks the chain of            *)
(* Router.order.                                                            *)
THEOREM ChainsAreWalked == Spec => []ChainFollowed
<1>1. GatewayInv => ChainFollowed
  BY DEF GatewayInv
<1> QED
  BY <1>1, GatewayInvariant, PTL

=============================================================================
