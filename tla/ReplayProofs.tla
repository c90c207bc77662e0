---------------------------- MODULE ReplayProofs ----------------------------
(***************************************************************************)
(* Proofs about replaying a stored run, for every value of the constants   *)
(* with a failure threshold above 1: one failure opens no breaker.  (With  *)
(* the threshold 1 both properties fail, as TLC finds.)                    *)
(***************************************************************************)
EXTENDS LLMGatewayProofs, ListingProofs, Replay

-----------------------------------------------------------------------------
(* The inductive invariant. *)

\* The chain of Router.order that starts with f.
ChainFrom(f, k) ==
    IF k = 0 THEN f
    ELSE IF k < f THEN k
    ELSE k + 1

\* Every job over has walked the chain from one first pick on, and attempts
\* are counted only during a provider's turn.
TrailInv ==
    /\ pc # "call" => tries = 0
    /\ \A job \in DOMAIN outcomes : \E f \in Providers \cup {0} :
          \A i \in RecordsOf(records, job) :
             /\ f \in Providers
             /\ records[i].provider = ChainFrom(f, records[i].index)

\* Of a job, a log has exactly the first n calls of the chain from f, in
\* order, with the outcomes o.
Has(log, job, f, o, n) ==
    /\ \A k \in DOMAIN log : log[k].job = job =>
          /\ log[k].index + 1 \in 1..n
          /\ log[k].provider = ChainFrom(f, log[k].index)
          /\ log[k].outcome = o[log[k].index + 1]
    /\ \A i \in 1..n : \E k \in DOMAIN log : log[k].job = job /\ log[k].index = i - 1
    /\ \A j, k \in DOMAIN log :
          j < k /\ log[j].job = job /\ log[k].job = job => log[j].index < log[k].index

\* The stored run: its first pick f, and the outcomes t of its jobs' calls.
StoredIs(f, t) ==
    /\ f \in Providers \cup {0}
    /\ stored \in Seq(CallRecord)
    /\ given \in Seq(JobOutcomes)
    /\ Len(given) \in 1..2
    /\ t \in [DOMAIN given -> Seq(Outcomes)]
    /\ \A k \in DOMAIN stored : f \in Providers /\ stored[k].job \in DOMAIN given
    /\ \A j \in DOMAIN given :
          /\ given[j] # "raised"
          /\ JobKept(t[j], given[j])
          /\ Has(stored, j, f, t[j], Len(t[j]))

\* What a recorded outcome becomes when it is replayed.
Repeated(o) ==
    IF o = "success" THEN "success"
    ELSE IF o = "timeout" /\ Retries = 0 THEN "timeout"
    ELSE "error"

Repetition(trail) == [i \in DOMAIN trail |-> Repeated(trail[i])]

\* How far job j has come.
Reach(t, j) ==
    IF j <= Len(outcomes) THEN Len(t[j])
    ELSE IF j = Len(outcomes) + 1 THEN position
    ELSE 0

\* The replay is where the stored run was when it had made as many calls.
PlaceInv(f, t) ==
    /\ clock = 0
    /\ pc \in {"idle", "chain", "call"}
    /\ position \in Nat
    /\ tries \in Nat
    /\ started \in Nat
    /\ pc = "idle" => position = 0
    /\ pc # "call" => tries = 0
    /\ outcomes \in Seq(JobOutcomes)
    /\ Len(outcomes) <= Len(given)
    /\ \A j \in DOMAIN outcomes : outcomes[j] = given[j]
    /\ pc # "idle" =>
          /\ Len(outcomes) < Len(given)
          /\ first = f
          /\ f \in Providers
          /\ position <= Len(t[Len(outcomes) + 1])
          /\ \A i \in 1..position : t[Len(outcomes) + 1][i] \in Failures
    /\ pc = "call" =>
          /\ position < Len(t[Len(outcomes) + 1])
          /\ since = 0
          /\ tries > 0 => t[Len(outcomes) + 1][position + 1] \in Failures
    /\ tries <= Retries

TrailsInv(f, t) ==
    /\ records \in Seq(CallRecord)
    /\ \A k \in DOMAIN records : records[k].job \in DOMAIN given
    /\ \A j, k \in DOMAIN records : j < k => records[j].job <= records[k].job
    /\ \A j \in DOMAIN given :
          Has(records, j, f, Repetition(t[j]), Reach(t, j))

\* The recorded calls still ahead are there to be popped.
QueueInv(f, t) ==
    /\ DOMAIN queue = Providers \X (1..2)
    /\ \A j \in DOMAIN given : \A i \in 1..Len(t[j]) :
          i > Reach(t, j) =>
             queue[<<ChainFrom(f, i - 1), j>>] =
                IF j = Len(outcomes) + 1 /\ i = position + 1 /\ tries > 0
                THEN <<>>
                ELSE <<t[j][i]>>

Calm(p, n) == breakers[p].state = "closed" /\ Len(breakers[p].failures) <= n

\* No provider ahead has failed more often than there were jobs before this.
CalmInv(f) ==
    /\ breakers \in [Providers -> Breaker]
    /\ \A p \in Providers :
          /\ /\ Len(outcomes) < Len(given)
             /\ \A i \in 1..position : ChainFrom(f, i - 1) # p
             => Calm(p, Len(outcomes))
          /\ outcomes = <<>> => Calm(p, 1)

Story(f, t) ==
    /\ StoredIs(f, t)
    /\ PlaceInv(f, t)
    /\ TrailsInv(f, t)
    /\ QueueInv(f, t)
    /\ CalmInv(f)

ReplayInv ==
    /\ phase \in {"live", "replay"}
    /\ phase = "live" => GatewayInv /\ TrailInv
    /\ phase = "replay" =>
          \E f \in Providers \cup {0} : \E t \in [DOMAIN given -> Seq(Outcomes)] :
             Story(f, t)

-----------------------------------------------------------------------------
(* Lists and chains. *)

(* Numbers in ascending order that leave none out up to n are 1, 2, ..., n. *)
Fills(h, m, n) ==
    /\ h \in [1..m -> 1..n]
    /\ \A i, j \in 1..m : i < j => h[i] < h[j]
    /\ \A x \in 1..n : \E i \in 1..m : h[i] = x

LEMMA NoGaps ==
  ASSUME NEW m \in Nat, NEW n \in Nat, NEW h, Fills(h, m, n)
  PROVE  m = n /\ \A i \in 1..m : h[i] = i
<1> USE DEF Fills
<1>1. ASSUME NEW b \in 1..m, h[b] # b PROVE FALSE
  <2> DEFINE Bad == {i \in 1..m : h[i] # i}
  <2>1. Bad \in SUBSET Nat /\ Bad # {}
    BY <1>1
  <2>2. PICK i \in Bad : \A j \in Bad : i <= j
    BY <2>1, LeastNumber
  <2>3. \A j \in 1..m : j < i => h[j] = j
    BY <2>2
  <2>4. i \in 1..m /\ h[i] \in 1..n /\ h[i] # i
    BY <2>2
  <2>5. h[i] > i
    <3>1. CASE i = 1
      BY <2>4, <3>1
    <3>2. CASE i # 1
      <4>1. i - 1 \in 1..m /\ i - 1 < i
        BY <2>4, <3>2
      <4>2. h[i - 1] = i - 1 /\ h[i - 1] < h[i]
        BY <2>3, <2>4, <4>1
      <4> QED
        BY <2>4, <4>2
    <3> QED
      BY <3>1, <3>2
  <2>6. PICK k \in 1..m : h[k] = i
    BY <2>4, <2>5
  <2>7. k < i \/ k = i \/ i < k
    BY <2>4
  <2> QED
    BY <2>3, <2>4, <2>5, <2>6, <2>7
<1>2. m <= n
  <2>1. m # 0 => m \in 1..m
    OBVIOUS
  <2>2. m # 0 => h[m] = m /\ h[m] \in 1..n
    BY <1>1, <2>1
  <2> QED
    BY <2>2
<1>3. n <= m
  <2>1. n # 0 => n \in 1..n
    OBVIOUS
  <2>2. n # 0 => \E i \in 1..m : h[i] = n /\ h[i] = i
    BY <1>1, <2>1
  <2> QED
    BY <2>2
<1> QED
  BY <1>1, <1>2, <1>3

LEMMA ChainFromProviders ==
  ASSUME NEW f \in Providers
  PROVE  /\ \A k \in 0..N - 1 : ChainFrom(f, k) \in Providers
         /\ \A j, k \in Nat : ChainFrom(f, j) = ChainFrom(f, k) => j = k
BY JobAssumption DEF ChainFrom, Providers

(* The calls of a job in a log, one by one.                                 *)
LEMMA TrailOf ==
  ASSUME NEW log \in Seq(CallRecord), NEW job, NEW f, NEW o, NEW n \in Nat,
         Has(log, job, f, o, n)
  PROVE  /\ Len(TrailIn(log, job)) = n
         /\ DOMAIN TrailIn(log, job) = 1..n
         /\ \A i \in 1..n : /\ TrailIn(log, job)[i].index = i - 1
                            /\ TrailIn(log, job)[i].provider = ChainFrom(f, i - 1)
                            /\ TrailIn(log, job)[i].outcome = o[i]
<1>0. PICK K : K = {k \in DOMAIN log : log[k].job = job}
  OBVIOUS
<1>1. K \in SUBSET Int /\ IsFiniteSet(K)
  <2>1. DOMAIN log = 1..Len(log) /\ Len(log) \in Nat
    OBVIOUS
  <2>2. IsFiniteSet(1..Len(log))
    BY <2>1, FS_Interval
  <2>3. K \in SUBSET 1..Len(log)
    BY <1>0, <2>1
  <2>4. IsFiniteSet(K)
    BY <2>2, <2>3, FS_Subset
  <2> QED
    BY <2>3, <2>4
<1>2. PICK m : m = Cardinality(K)
  OBVIOUS
<1>3. m \in Nat /\ DOMAIN Chosen(log, K) = 1..m /\ Len(Chosen(log, K)) = m
  BY <1>1, <1>2, ChosenList
<1>4. PICK places \in [1..m -> K] :
         /\ \A i, j \in 1..m : i < j => places[i] < places[j]
         /\ \A k \in K : \E i \in 1..m : places[i] = k
         /\ \A i \in 1..m : Chosen(log, K)[i] = log[places[i]]
  <2>1. PICK places : places = Ascending(K)
    OBVIOUS
  <2>2. places \in [1..m -> K]
    BY <1>1, <1>2, <2>1, AscendingSet
  <2>3. \A i, j \in 1..m : i < j => places[i] < places[j]
    BY <1>1, <1>2, <2>1, AscendingSet
  <2>4. \A k \in K : \E i \in 1..m : places[i] = k
    BY <1>1, <1>2, <2>1, AscendingSet
  <2>5. \A i \in 1..m : Chosen(log, K)[i] = log[places[i]]
    BY <1>2, <2>1 DEF Chosen
  <2> QED
    BY ONLY <2>2, <2>3, <2>4, <2>5
<1>5. \A k \in K : log[k].index \in Nat /\ log[k].job = job /\ k \in DOMAIN log
  <2>1. \A k \in DOMAIN log : log[k] \in CallRecord
    OBVIOUS
  <2> QED
    BY <1>0, <2>1 DEF CallRecord
<1>6. PICK h : h = [i \in 1..m |-> log[places[i]].index + 1]
  OBVIOUS
<1>7. h \in [1..m -> 1..n]
  BY <1>4, <1>5, <1>6 DEF Has
<1>8. \A i, j \in 1..m : i < j => h[i] < h[j]
  <2> SUFFICES ASSUME NEW i \in 1..m, NEW j \in 1..m, i < j PROVE h[i] < h[j]
    OBVIOUS
  <2>1. places[i] \in K /\ places[j] \in K /\ places[i] < places[j]
    BY <1>4
  <2>2. log[places[i]].index < log[places[j]].index
    BY <1>5, <2>1 DEF Has
  <2> QED
    BY <1>5, <1>6, <2>1, <2>2
<1>9. \A x \in 1..n : \E i \in 1..m : h[i] = x
  <2> SUFFICES ASSUME NEW x \in 1..n PROVE \E i \in 1..m : h[i] = x
    OBVIOUS
  <2>1. PICK k \in DOMAIN log : log[k].job = job /\ log[k].index = x - 1
    BY DEF Has
  <2>2. PICK i \in 1..m : places[i] = k
    BY <1>0, <1>4, <2>1
  <2>3. h[i] = x
    BY <1>6, <2>1, <2>2
  <2> QED
    BY <2>3
<1>10. m = n /\ \A i \in 1..m : h[i] = i
  <2>1. m \in Nat /\ Fills(h, m, n)
    BY <1>3, <1>7, <1>8, <1>9 DEF Fills
  <2> QED
    BY <2>1, NoGaps
<1>11. TrailIn(log, job) = Chosen(log, K)
  BY <1>0 DEF TrailIn
<1>12. ASSUME NEW i \in 1..n
       PROVE  /\ TrailIn(log, job)[i].index = i - 1
              /\ TrailIn(log, job)[i].provider = ChainFrom(f, i - 1)
              /\ TrailIn(log, job)[i].outcome = o[i]
  <2>1. PICK k \in K : k = places[i]
    BY <1>4, <1>10
  <2>2. TrailIn(log, job)[i] = log[k]
    BY <1>4, <1>10, <1>11, <2>1
  <2>3. log[k].index + 1 = i /\ log[k].index \in Nat
    BY <1>5, <1>6, <1>10, <2>1
  <2>4. log[k].index = i - 1
    BY <2>3
  <2>5. /\ log[k].provider = ChainFrom(f, log[k].index)
        /\ log[k].outcome = o[log[k].index + 1]
    BY <1>5 DEF Has
  <2> QED
    BY <2>2, <2>3, <2>4, <2>5
<1> QED
  BY <1>3, <1>10, <1>11, <1>12


LEMMA HasNext ==
  ASSUME NEW log \in Seq(CallRecord), NEW r \in CallRecord, NEW job, NEW f, NEW o,
         NEW n \in Nat, Has(log, job, f, o, n),
         r.job = job => /\ r.index = n
                        /\ r.provider = ChainFrom(f, n)
                        /\ r.outcome = o[n + 1]
  PROVE  Has(Append(log, r), job, f, o, IF r.job = job THEN n + 1 ELSE n)
<1>1. PICK other \in Seq(CallRecord) : other = Append(log, r)
  <2>1. log \in Seq(CallRecord) /\ r \in CallRecord
    OBVIOUS
  <2>2. Append(log, r) \in Seq(CallRecord)
    BY ONLY <2>1
  <2> QED
    BY <2>2
<1>2. PICK last \in Nat : last = Len(log)
  OBVIOUS
<1>3. /\ DOMAIN log = 1..last /\ DOMAIN other = 1..last + 1
      /\ \A k \in 1..last : other[k] = log[k]
      /\ other[last + 1] = r
  BY <1>1, <1>2
<1>4. \A k \in 1..last : log[k].index \in Nat
  <2>1. \A k \in 1..last : log[k] \in CallRecord
    BY <1>3
  <2> QED
    BY <2>1 DEF CallRecord
<1>5. PICK m \in Nat : m = IF r.job = job THEN n + 1 ELSE n
  OBVIOUS
<1>6. ASSUME NEW k \in DOMAIN other, other[k].job = job
      PROVE  /\ other[k].index + 1 \in 1..m
             /\ other[k].provider = ChainFrom(f, other[k].index)
             /\ other[k].outcome = o[other[k].index + 1]
  <2>1. CASE k \in 1..last
    <3>1. other[k] = log[k] /\ log[k].job = job /\ k \in DOMAIN log
      BY <1>3, <1>6, <2>1
    <3>2. /\ log[k].index + 1 \in 1..n
          /\ log[k].provider = ChainFrom(f, log[k].index)
          /\ log[k].outcome = o[log[k].index + 1]
      BY <3>1 DEF Has
    <3> QED
      BY <1>5, <3>1, <3>2
  <2>2. CASE k = last + 1
    BY <1>3, <1>5, <1>6, <2>2
  <2> QED
    BY <1>3, <2>1, <2>2
<1>7. ASSUME NEW i \in 1..m
      PROVE  \E k \in DOMAIN other : other[k].job = job /\ other[k].index = i - 1
  <2>1. CASE i \in 1..n
    <3>1. PICK k \in DOMAIN log : log[k].job = job /\ log[k].index = i - 1
      BY <2>1 DEF Has
    <3> QED
      BY <1>3, <3>1
  <2>2. CASE r.job = job /\ i = n + 1
    BY <1>3, <2>2
  <2> QED
    BY <1>5, <2>1, <2>2
<1>8. ASSUME NEW j \in DOMAIN other, NEW k \in DOMAIN other,
             j < k, other[j].job = job, other[k].job = job
      PROVE  other[j].index < other[k].index
  <2>1. j \in 1..last /\ other[j] = log[j] /\ j \in DOMAIN log
    BY <1>3, <1>8
  <2>2. log[j].index + 1 \in 1..n /\ log[j].index \in Nat
    BY <1>4, <1>8, <2>1 DEF Has
  <2>3. CASE k \in 1..last
    BY <1>3, <1>8, <2>1, <2>3 DEF Has
  <2>4. CASE k = last + 1
    BY <1>3, <1>8, <2>1, <2>2, <2>4
  <2> QED
    BY <1>3, <2>3, <2>4
<1>9. Has(other, job, f, o, m)
  BY <1>6, <1>7, <1>8 DEF Has
<1> QED
  BY <1>1, <1>5, <1>9

(* A job that has failed so far, and what is left of its trail.             *)
LEMMA JobGoesOn ==
  ASSUME NEW trail \in Seq(Outcomes), NEW outcome, outcome # "raised",
         JobKept(trail, outcome), NEW k \in Nat, k <= Len(trail),
         \A i \in 1..k : trail[i] \in Failures
  PROVE  /\ Len(trail) <= N
         /\ k = N => outcome = "degraded" /\ Len(trail) = N
         /\ k < N => k < Len(trail)
         /\ k < Len(trail) /\ trail[k + 1] = "success" =>
               Len(trail) = k + 1 /\ outcome = "answered"
<1> USE JobAssumption
<1>1. PICK n \in Nat : n = Len(trail) /\ DOMAIN trail = 1..n
  OBVIOUS
<1>2. CASE outcome = "answered"
  <2>1. /\ n >= 1 /\ n <= N
        /\ \A i \in 1..n : trail[i] = "success" <=> i = n
    BY <1>1, <1>2 DEF JobKept
  <2>2. trail[n] = "success" /\ n \in 1..n
    BY <2>1
  <2>3. n \notin 1..k
    BY <2>2 DEF Failures
  <2> QED
    BY <1>1, <1>2, <2>1, <2>3
<1>3. CASE outcome = "degraded"
  <2>1. n = N /\ \A i \in 1..n : trail[i] \in Failures
    BY <1>1, <1>3 DEF JobKept
  <2>2. k < n => k + 1 \in 1..n
    BY <1>1
  <2> QED
    BY <1>1, <1>3, <2>1, <2>2 DEF Failures
<1> QED
  BY <1>2, <1>3 DEF JobKept

-----------------------------------------------------------------------------
(* The steps of a replay. *)

\* The outcome recorded for the call under replay.
Recalled(t) == t[Len(outcomes) + 1][position + 1]

OtherQueuesKept ==
    /\ DOMAIN queue' = DOMAIN queue
    /\ \A q \in DOMAIN queue : q # <<Current, Len(outcomes) + 1>> => queue'[q] = queue[q]

TurnFails(t) ==
    /\ Recalled(t) \in Failures
    /\ FailTurn(Repeated(Recalled(t)))
    /\ OtherQueuesKept

OnceMore(t) ==
    /\ Recalled(t) \in Failures
    /\ pc = "call"
    /\ tries' = tries + 1
    /\ tries < Retries
    /\ since' = 0
    /\ UNCHANGED <<clock, breakers, pc, first, position, started, records, outcomes>>
    /\ OtherQueuesKept
    /\ queue'[<<Current, Len(outcomes) + 1>>] = <<>>

TurnSucceeds(t) ==
    /\ Recalled(t) = "success"
    /\ CallSucceeds
    /\ OtherQueuesKept

(* Where a replay stands: the chain from f, and calls of this job ahead.    *)
LEMMA UnderReplay ==
  ASSUME NEW f, NEW t, StoredIs(f, t), PlaceInv(f, t), pc # "idle"
  PROVE  /\ f \in Providers /\ first = f
         /\ Len(outcomes) \in Nat /\ Len(outcomes) + 1 \in DOMAIN given
         /\ DOMAIN given = 1..Len(given) /\ DOMAIN given \subseteq 1..2
         /\ position \in Nat
         /\ t[Len(outcomes) + 1] \in Seq(Outcomes)
         /\ Len(t[Len(outcomes) + 1]) <= N
         /\ position = N => /\ given[Len(outcomes) + 1] = "degraded"
                            /\ Len(t[Len(outcomes) + 1]) = N
         /\ position < N => position < Len(t[Len(outcomes) + 1])
         /\ position < N /\ Recalled(t) = "success" =>
               /\ given[Len(outcomes) + 1] = "answered"
               /\ Len(t[Len(outcomes) + 1]) = position + 1
         /\ \A k \in Nat : ChainAt(k) = ChainFrom(f, k)
         /\ Current = ChainFrom(f, position)
         /\ position < N => Current \in Providers
<1>1. /\ f \in Providers /\ first = f /\ position \in Nat
      /\ Len(outcomes) < Len(given)
      /\ position <= Len(t[Len(outcomes) + 1])
      /\ \A i \in 1..position : t[Len(outcomes) + 1][i] \in Failures
  BY DEF PlaceInv
<1>2. Len(outcomes) \in Nat /\ Len(given) \in 1..2 /\ DOMAIN given = 1..Len(given)
  BY DEF PlaceInv, StoredIs
<1>3. Len(outcomes) + 1 \in DOMAIN given /\ DOMAIN given \subseteq 1..2
  BY <1>1, <1>2
<1>4. PICK job \in DOMAIN given : job = Len(outcomes) + 1
  BY <1>3
<1>5. t[job] \in Seq(Outcomes) /\ given[job] # "raised" /\ JobKept(t[job], given[job])
  BY DEF StoredIs
<1>6. /\ Len(t[job]) <= N
      /\ position = N => given[job] = "degraded" /\ Len(t[job]) = N
      /\ position < N => position < Len(t[job])
      /\ position < Len(t[job]) /\ t[job][position + 1] = "success" =>
            Len(t[job]) = position + 1 /\ given[job] = "answered"
  BY <1>1, <1>4, <1>5, JobGoesOn
<1>7. \A k \in Nat : ChainAt(k) = ChainFrom(f, k)
  BY <1>1 DEF ChainAt, ChainFrom
<1>8. Current = ChainFrom(f, position)
  BY <1>1, <1>7 DEF Current
<1>9. position < N => Current \in Providers
  <2>1. position < N => position \in 0..N - 1
    BY <1>1, JobAssumption
  <2> QED
    BY <1>1, <1>8, <2>1, ChainFromProviders
<1> QED
  BY <1>1, <1>2, <1>3, <1>4, <1>5, <1>6, <1>7, <1>8, <1>9 DEF Recalled


(* ReplayProvider.complete, whichever way it goes, repeats what is recorded *)
(* for the call: an attempt more asks an empty queue.                       *)
LEMMA ReplaySteps ==
  ASSUME NEW f, NEW t, Story(f, t), Again
  PROVE  \/ AskAgain
         \/ Degrade /\ UNCHANGED queue
         \/ SkipOpen /\ UNCHANGED queue
         \/ Call /\ UNCHANGED queue
         \/ TurnFails(t)
         \/ OnceMore(t)
         \/ TurnSucceeds(t)
<1>1. StoredIs(f, t) /\ PlaceInv(f, t) /\ QueueInv(f, t)
  BY DEF Story
<1>2. ASSUME pc = "call"
      PROVE  /\ <<Current, Len(outcomes) + 1>> \in DOMAIN queue
             /\ Recalled(t) \in Outcomes
             /\ Recorded = IF tries > 0 THEN <<>> ELSE <<Recalled(t)>>
             /\ tries \in Nat /\ tries <= Retries
             /\ tries > 0 => Recalled(t) \in Failures
             /\ clock = 0 /\ Reading = 0
  <2>1. /\ f \in Providers /\ Len(outcomes) \in Nat /\ Len(outcomes) + 1 \in DOMAIN given
        /\ DOMAIN given \subseteq 1..2 /\ position \in Nat
        /\ t[Len(outcomes) + 1] \in Seq(Outcomes)
        /\ Len(t[Len(outcomes) + 1]) <= N
        /\ Current = ChainFrom(f, position)
        /\ position < N => Current \in Providers
    BY <1>1, <1>2, UnderReplay
  <2>2. /\ position < Len(t[Len(outcomes) + 1]) /\ tries \in Nat /\ tries <= Retries
        /\ tries > 0 => Recalled(t) \in Failures
        /\ clock = 0
    BY <1>1, <1>2 DEF PlaceInv, Recalled
  <2>3. PICK job \in DOMAIN given : job = Len(outcomes) + 1
    BY <2>1
  <2>4. PICK i \in 1..Len(t[job]) : i = position + 1
    BY <2>1, <2>2, <2>3
  <2>5. Recalled(t) = t[job][i] /\ t[job][i] \in Outcomes
    BY <2>1, <2>3, <2>4 DEF Recalled
  <2>6. position < N
    BY <2>1, <2>2, JobAssumption
  <2>7. <<Current, job>> \in DOMAIN queue
    BY <1>1, <2>1, <2>6 DEF QueueInv
  <2>8. Reach(t, job) = position /\ i > position /\ i - 1 = position
    BY <2>1, <2>3, <2>4 DEF Reach
  <2>9. queue[<<Current, job>>] = IF tries > 0 THEN <<>> ELSE <<t[job][i]>>
    BY <1>1, <2>1, <2>3, <2>4, <2>8 DEF QueueInv
  <2>10. Reading = 0
    BY <2>2 DEF Reading, Read
  <2> QED
    BY <2>2, <2>3, <2>5, <2>7, <2>9, <2>10 DEF Recorded
<1>3. ASSUME pc = "call", Pop, Recorded # <<>>
      PROVE  OtherQueuesKept /\ queue'[<<Current, Len(outcomes) + 1>>] = <<>>
  <2>1. PICK here : here = <<Current, Len(outcomes) + 1>>
    OBVIOUS
  <2>2. here \in DOMAIN queue /\ queue[here] = <<Recalled(t)>>
    BY <1>2, <1>3, <2>1 DEF Recorded
  <2>3. queue' = [queue EXCEPT ![here] = Tail(@)]
    BY <1>3, <2>1 DEF Pop
  <2>4. Tail(queue[here]) = <<>>
    BY <2>2
  <2> QED
    BY <2>1, <2>2, <2>3, <2>4 DEF OtherQueuesKept
<1>4. ASSUME pc = "call", queue' = queue
      PROVE  OtherQueuesKept
  BY <1>4 DEF OtherQueuesKept
<1>5. ASSUME pc = "call", NEW outcome, RetryOrFail(outcome), clock' = clock,
             Recalled(t) \in Failures, OtherQueuesKept,
             queue'[<<Current, Len(outcomes) + 1>>] = <<>>,
             tries = Retries => outcome = Repeated(Recalled(t))
      PROVE  TurnFails(t) \/ OnceMore(t)
  <2>1. CASE tries < Retries /\ tries' = tries + 1 /\ since' = Reading
             /\ UNCHANGED <<breakers, pc, first, position, started, records, outcomes>>
    BY <1>2, <1>5, <2>1 DEF OnceMore
  <2>2. CASE tries = Retries /\ Fail(outcome)
    BY <1>5, <2>2 DEF TurnFails, FailTurn
  <2> QED
    BY <1>5, <2>1, <2>2 DEF RetryOrFail
<1>6. CASE AskAgain
  BY <1>6
<1>7. CASE Walk
  BY <1>7 DEF Walk
<1>8. CASE CompleteUnknown
  <2>1. pc = "call" /\ Recorded = <<>> /\ RetryOrFail("error") /\ clock' = clock /\ queue' = queue
    BY <1>8 DEF CompleteUnknown
  <2>2. tries > 0 /\ Recalled(t) \in Failures /\ Retries # 0
    BY <1>2, <2>1, GatewayAssumption
  <2>3. Repeated(Recalled(t)) = "error"
    BY <2>2 DEF Repeated, Failures
  <2>4. OtherQueuesKept /\ queue'[<<Current, Len(outcomes) + 1>>] = <<>>
    BY <1>4, <2>1 DEF Recorded
  <2> QED
    BY <1>5, <2>1, <2>2, <2>3, <2>4
<1>9. ASSUME pc = "call", Recorded # <<>>
      PROVE  tries = 0 /\ Head(Recorded) = Recalled(t)
  <2>1. tries = 0 /\ Recorded = <<Recalled(t)>>
    BY <1>2, <1>9
  <2> QED
    BY <2>1
<1>10. CASE CompleteTimeout
  <2>1. pc = "call" /\ Recorded # <<>> /\ Head(Recorded) = "timeout"
        /\ RetryOrFail("timeout") /\ clock' = clock /\ Pop
    BY <1>10 DEF CompleteTimeout
  <2>2. tries = 0 /\ Recalled(t) = "timeout"
    BY <1>9, <2>1
  <2>3. Recalled(t) \in Failures /\ (tries = Retries => Repeated(Recalled(t)) = "timeout")
    BY <2>2 DEF Repeated, Failures, Outcomes
  <2>4. OtherQueuesKept /\ queue'[<<Current, Len(outcomes) + 1>>] = <<>>
    BY <1>3, <2>1
  <2> QED
    BY <1>5, <2>1, <2>3, <2>4
<1>11. CASE CompleteError
  <2>1. pc = "call" /\ Recorded # <<>> /\ Head(Recorded) \in {"error", "circuit_open"}
        /\ RetryOrFail("error") /\ clock' = clock /\ Pop
    BY <1>11 DEF CompleteError
  <2>2. Recalled(t) \in {"error", "circuit_open"}
    BY <1>9, <2>1
  <2>3. Recalled(t) \in Failures /\ Repeated(Recalled(t)) = "error"
    BY <2>2 DEF Repeated, Failures, Outcomes
  <2>4. OtherQueuesKept /\ queue'[<<Current, Len(outcomes) + 1>>] = <<>>
    BY <1>3, <2>1
  <2> QED
    BY <1>5, <2>1, <2>3, <2>4
<1>12. CASE CompleteSuccess
  <2>1. pc = "call" /\ Recorded # <<>> /\ Head(Recorded) = "success" /\ CallSucceeds /\ Pop
    BY <1>12 DEF CompleteSuccess
  <2>2. Recalled(t) = "success" /\ OtherQueuesKept
    BY <1>3, <1>9, <2>1
  <2> QED
    BY <2>1, <2>2 DEF TurnSucceeds
<1> QED
  BY <1>6, <1>7, <1>8, <1>10, <1>11, <1>12 DEF Again


(* How far the jobs have come, one step later.                              *)
LEMMA ReachStep ==
  ASSUME NEW f, NEW t, StoredIs(f, t), PlaceInv(f, t), NEW j \in DOMAIN given
  PROVE  /\ pc # "idle" /\ j = Len(outcomes) + 1 => Reach(t, j) = position
         /\ Reach(t, j) \in Nat
         /\ UNCHANGED <<outcomes, position>> => Reach(t, j)' = Reach(t, j)
         /\ Degrade => Reach(t, j)' = Reach(t, j)
         /\ TurnFails(t) \/ TurnSucceeds(t) =>
               Reach(t, j)' = IF j = Len(outcomes) + 1 THEN position + 1 ELSE Reach(t, j)
<1>1. PICK done \in Nat : done = Len(outcomes)
  BY DEF PlaceInv
<1>2. j \in Nat /\ j >= 1
  BY DEF StoredIs
<1>3. t[j] \in Seq(Outcomes) /\ Len(t[j]) \in Nat
  BY DEF StoredIs
<1>4. position \in Nat
  BY DEF PlaceInv
<1>5. Reach(t, j) = IF j <= done THEN Len(t[j]) ELSE IF j = done + 1 THEN position ELSE 0
  BY <1>1 DEF Reach
<1>6. Reach(t, j)' = IF j <= Len(outcomes') THEN Len(t[j])
                     ELSE IF j = Len(outcomes') + 1 THEN position' ELSE 0
  BY DEF Reach
<1>7. ASSUME NEW outcome, Return(outcome)
      PROVE  Reach(t, j)' = IF j <= done + 1 THEN Len(t[j]) ELSE 0
  <2>1. outcomes' = Append(outcomes, outcome) /\ position' = 0
    BY <1>7 DEF Return
  <2>2. Len(outcomes') = done + 1
    BY <1>1, <2>1 DEF PlaceInv
  <2> QED
    BY <1>2, <1>6, <2>1, <2>2
<1>8. CASE Degrade
  <2>1. pc # "idle" /\ position = N /\ Return("degraded")
    BY <1>8 DEF Degrade
  <2>2. j = done + 1 => Len(t[j]) = N
    BY <1>1, <2>1, UnderReplay
  <2> QED
    BY <1>1, <1>2, <1>3, <1>4, <1>5, <1>7, <1>8, <2>1, <2>2 DEF TurnFails, TurnSucceeds, FailTurn, CallSucceeds, Degrade
<1>9. CASE TurnSucceeds(t)
  <2>1. pc = "call" /\ Return("answered") /\ Recalled(t) = "success"
    BY <1>9 DEF TurnSucceeds, CallSucceeds
  <2>2. position < N
    <3>1. position < Len(t[done + 1]) /\ Len(t[done + 1]) <= N /\ Len(t[done + 1]) \in Nat
      BY <1>1, <2>1, UnderReplay DEF PlaceInv
    <3> QED
      BY <1>4, <3>1, JobAssumption
  <2>3. j = done + 1 => Len(t[j]) = position + 1
    BY <1>1, <2>1, <2>2, UnderReplay
  <2>4. Reach(t, j)' = IF j = done + 1 THEN position + 1 ELSE Reach(t, j)
    BY <1>2, <1>5, <1>7, <2>1, <2>3
  <2>5. UNCHANGED <<outcomes, position>> => Reach(t, j)' = Reach(t, j)
    BY <1>5, <1>6, <1>1
  <2>6. ~Degrade
    BY <2>1 DEF Degrade
  <2> QED
    BY <1>1, <1>2, <1>3, <1>4, <1>5, <2>4, <2>5, <2>6
<1>10. CASE TurnFails(t)
  <2>1. pc = "call" /\ outcomes' = outcomes /\ position' = position + 1
    BY <1>10 DEF TurnFails, FailTurn, Fail, NextProvider
  <2>2. ~Degrade
    BY <2>1 DEF Degrade
  <2>3. Reach(t, j)' = IF j = done + 1 THEN position + 1 ELSE Reach(t, j)
    BY <1>1, <1>2, <1>5, <1>6, <2>1
  <2> QED
    BY <1>1, <1>2, <1>3, <1>4, <1>5, <2>1, <2>2, <2>3
<1> QED
  BY <1>1, <1>2, <1>3, <1>4, <1>5, <1>6, <1>8, <1>9, <1>10


(* The record of a provider's turn takes its place in the replayed trail.   *)
LEMMA CallRecorded ==
  ASSUME NEW f, NEW t, Story(f, t), pc = "call", NEW outcome \in Outcomes,
         outcome = Repeated(Recalled(t)), Emit(outcome, started)
  PROVE  /\ records' \in Seq(CallRecord)
         /\ \A k \in DOMAIN records' : records'[k].job \in DOMAIN given
         /\ \A j, k \in DOMAIN records' : j < k => records'[j].job <= records'[k].job
         /\ \A j \in DOMAIN given :
               Has(records', j, f, Repetition(t[j]),
                   IF j = Len(outcomes) + 1 THEN position + 1 ELSE Reach(t, j))
<1>1. StoredIs(f, t) /\ PlaceInv(f, t) /\ TrailsInv(f, t)
  BY DEF Story
<1>2. PICK job \in DOMAIN given : job = Len(outcomes) + 1
  BY <1>1, UnderReplay
<1>3. /\ f \in Providers /\ position \in Nat /\ Len(outcomes) \in Nat /\ job \in Nat
      /\ Current = ChainFrom(f, position) /\ t[job] \in Seq(Outcomes)
      /\ Len(t[job]) <= N
      /\ DOMAIN given = 1..Len(given)
  BY <1>1, <1>2, UnderReplay
<1>4. position < Len(t[job]) /\ clock = 0 /\ started \in Nat
  BY <1>1, <1>2 DEF PlaceInv
<1>5. Current \in Nat
  <2>1. position < N
    BY <1>3, <1>4, JobAssumption
  <2> QED
    BY <1>1, <2>1, UnderReplay, JobAssumption DEF Providers
<1>6. PICK r : r = [job |-> Len(outcomes) + 1, index |-> position, provider |-> Current,
                    outcome |-> outcome, from |-> started, at |-> clock]
  OBVIOUS
<1>7. r \in CallRecord
  BY <1>2, <1>3, <1>4, <1>5, <1>6 DEF CallRecord
<1>8. records \in Seq(CallRecord) /\ records' = Append(records, r)
  BY <1>1, <1>6 DEF Emit, TrailsInv
<1>9. PICK last \in Nat : last = Len(records)
  BY <1>8
<1>10. /\ records' \in Seq(CallRecord)
       /\ DOMAIN records = 1..last /\ DOMAIN records' = 1..last + 1
       /\ \A k \in 1..last : records'[k] = records[k]
       /\ records'[last + 1] = r
  BY <1>7, <1>8, <1>9
<1>11. r.job = job /\ r.index = position /\ r.provider = ChainFrom(f, position)
       /\ r.outcome = outcome
  BY <1>2, <1>3, <1>6
<1>12. \A k \in DOMAIN records' : records'[k].job \in DOMAIN given
  <2>1. \A k \in 1..last : records[k].job \in DOMAIN given
    BY <1>1, <1>10 DEF TrailsInv
  <2> QED
    BY <1>10, <1>11, <2>1
<1>13. \A k \in 1..last : records[k].job <= job
  <2> SUFFICES ASSUME NEW k \in 1..last, ~(records[k].job <= job) PROVE FALSE
    OBVIOUS
  <2>1. PICK j \in DOMAIN given : j = records[k].job
    BY <1>1, <1>10 DEF TrailsInv
  <2>2. Reach(t, j) = 0
    BY <1>2, <1>3, <2>1 DEF Reach
  <2>3. Has(records, j, f, Repetition(t[j]), 0)
    BY <1>1, <2>2 DEF TrailsInv
  <2> QED
    BY <1>10, <2>1, <2>3 DEF Has
<1>14. \A j, k \in DOMAIN records' : j < k => records'[j].job <= records'[k].job
  <2>1. \A j, k \in 1..last : j < k => records[j].job <= records[k].job
    BY <1>1, <1>10 DEF TrailsInv
  <2> QED
    BY <1>10, <1>11, <1>13, <2>1
<1>15. ASSUME NEW j \in DOMAIN given
       PROVE  Has(records', j, f, Repetition(t[j]),
                  IF j = Len(outcomes) + 1 THEN position + 1 ELSE Reach(t, j))
  <2>1. Reach(t, j) \in Nat /\ (j = job => Reach(t, j) = position)
    BY <1>1, <1>2, ReachStep
  <2>2. PICK n \in Nat : n = Reach(t, j)
    BY <2>1
  <2>3. PICK o : o = Repetition(t[j])
    OBVIOUS
  <2>4. Has(records, j, f, o, n)
    BY <1>1, <2>2, <2>3 DEF TrailsInv
  <2>5. j = job => o[position + 1] = outcome
    <3>1. position + 1 \in DOMAIN t[job]
      BY <1>3, <1>4
    <3> QED
      BY <1>2, <2>3, <3>1 DEF Repetition, Recalled
  <2>6. r.job = j => r.index = n /\ r.provider = ChainFrom(f, n) /\ r.outcome = o[n + 1]
    BY <1>11, <2>1, <2>2, <2>5
  <2>7. Has(Append(records, r), j, f, o, IF r.job = j THEN n + 1 ELSE n)
    BY <1>7, <1>8, <2>4, <2>6, HasNext
  <2>8. (IF r.job = j THEN n + 1 ELSE n)
          = (IF j = Len(outcomes) + 1 THEN position + 1 ELSE Reach(t, j))
    BY <1>2, <1>11, <2>1, <2>2
  <2> QED
    BY <1>8, <2>3, <2>7, <2>8
<1> QED
  BY <1>10, <1>12, <1>14, <1>15

LEMMA TrailsStep ==
  ASSUME NEW f, NEW t, Story(f, t), UNCHANGED <<stored, given>>,
         \/ UNCHANGED <<records, outcomes, position>>
         \/ Degrade
         \/ TurnFails(t)
         \/ TurnSucceeds(t)
  PROVE  TrailsInv(f, t)'
<1>1. StoredIs(f, t) /\ PlaceInv(f, t) /\ TrailsInv(f, t)
  BY DEF Story
<1>2. CASE UNCHANGED <<records, outcomes, position>> \/ Degrade
  <2>1. records' = records /\ given' = given
    BY <1>2 DEF Degrade
  <2>2. \A j \in DOMAIN given : Reach(t, j)' = Reach(t, j)
    BY <1>1, <1>2, ReachStep
  <2> QED
    BY <1>1, <2>1, <2>2 DEF TrailsInv, Has
<1>3. CASE TurnFails(t) \/ TurnSucceeds(t)
  <2>1. \E outcome \in Outcomes :
           pc = "call" /\ outcome = Repeated(Recalled(t)) /\ Emit(outcome, started)
    BY <1>3 DEF TurnFails, TurnSucceeds, FailTurn, Fail, CallSucceeds, Repeated, Outcomes, Failures
  <2>2. /\ records' \in Seq(CallRecord)
        /\ \A k \in DOMAIN records' : records'[k].job \in DOMAIN given
        /\ \A j, k \in DOMAIN records' : j < k => records'[j].job <= records'[k].job
        /\ \A j \in DOMAIN given :
              Has(records', j, f, Repetition(t[j]),
                  IF j = Len(outcomes) + 1 THEN position + 1 ELSE Reach(t, j))
    BY <2>1, CallRecorded
  <2>3. \A j \in DOMAIN given :
           Reach(t, j)' = IF j = Len(outcomes) + 1 THEN position + 1 ELSE Reach(t, j)
    BY <1>1, <1>3, ReachStep
  <2>4. \A j \in DOMAIN given : Has(records', j, f, Repetition(t[j]), Reach(t, j)')
    BY <2>2, <2>3
  <2>5. \A j \in DOMAIN given : Has(records, j, f, Repetition(t[j]), Reach(t, j))'
    BY <2>4 DEF Has, Repetition, Repeated
  <2> QED
    BY <2>2, <2>5 DEF TrailsInv
<1> QED
  BY <1>2, <1>3


(* ReplayHarness.replay asks for the run's jobs with the run's own id, so   *)
(* the chain begins where it began.                                         *)
LEMMA AskedFromTheSame ==
  ASSUME NEW f, NEW t, StoredIs(f, t), AskAgain
  PROVE  f \in Providers /\ first' = f
<1>1. PICK k \in DOMAIN stored : stored[k].index = 0 /\ first' = stored[k].provider
  BY DEF AskAgain
<1>2. PICK j \in DOMAIN given : j = stored[k].job /\ f \in Providers
  BY DEF StoredIs
<1>3. Has(stored, j, f, t[j], Len(t[j]))
  BY DEF StoredIs
<1>4. stored[k].provider = ChainFrom(f, 0)
  BY <1>1, <1>2, <1>3 DEF Has
<1> QED
  BY <1>1, <1>2, <1>4 DEF ChainFrom

LEMMA PlaceStep ==
  ASSUME NEW f, NEW t, Story(f, t), UNCHANGED <<stored, given>>,
         \/ AskAgain
         \/ Degrade
         \/ Call
         \/ TurnFails(t)
         \/ OnceMore(t)
         \/ TurnSucceeds(t)
  PROVE  PlaceInv(f, t)'
<1>1. StoredIs(f, t) /\ PlaceInv(f, t)
  BY DEF Story
<1>2. /\ clock = 0 /\ position \in Nat /\ tries \in Nat /\ started \in Nat
      /\ outcomes \in Seq(JobOutcomes) /\ Len(outcomes) \in Nat /\ Len(given) \in 1..2
      /\ Len(outcomes) <= Len(given)
      /\ DOMAIN outcomes = 1..Len(outcomes) /\ DOMAIN given = 1..Len(given)
      /\ \A j \in DOMAIN outcomes : outcomes[j] = given[j]
      /\ tries <= Retries /\ Retries \in Nat
  BY <1>1, GatewayAssumption DEF PlaceInv, StoredIs
<1>3. ASSUME pc # "idle"
      PROVE  /\ f \in Providers /\ first = f
             /\ Len(outcomes) < Len(given) /\ Len(outcomes) + 1 \in DOMAIN given
             /\ t[Len(outcomes) + 1] \in Seq(Outcomes)
             /\ position <= Len(t[Len(outcomes) + 1])
             /\ Len(t[Len(outcomes) + 1]) <= N
             /\ \A i \in 1..position : t[Len(outcomes) + 1][i] \in Failures
             /\ position = N => given[Len(outcomes) + 1] = "degraded"
             /\ position < N => position < Len(t[Len(outcomes) + 1])
             /\ position < N /\ Recalled(t) = "success" => given[Len(outcomes) + 1] = "answered"
  BY <1>1, <1>3, UnderReplay DEF PlaceInv
<1>4. CASE AskAgain
  <2>1. f \in Providers /\ first' = f
    BY <1>1, <1>4, AskedFromTheSame
  <2>2. /\ pc = "idle" /\ Len(outcomes) < Len(given) /\ pc' = "chain"
        /\ UNCHANGED <<clock, position, tries, started, outcomes>>
    BY <1>4 DEF AskAgain
  <2>3. position = 0 /\ tries = 0
    BY <1>1, <2>2 DEF PlaceInv
  <2>4. Len(outcomes) + 1 \in DOMAIN given
    BY <1>2, <2>2
  <2>5. Len(t[Len(outcomes) + 1]) \in Nat
    BY <1>1, <2>4 DEF StoredIs
  <2>6. given' = given
    OBVIOUS
  <2> QED
    BY <1>2, <2>1, <2>2, <2>3, <2>5, <2>6 DEF PlaceInv
<1>5. ASSUME NEW outcome \in JobOutcomes, pc # "idle", Return(outcome), clock' = clock,
             outcome = given[Len(outcomes) + 1]
      PROVE  PlaceInv(f, t)'
  <2>1. /\ outcomes' = Append(outcomes, outcome) /\ pc' = "idle" /\ first' = 0
        /\ position' = 0 /\ tries' = 0 /\ started' = 0
    BY <1>5 DEF Return
  <2>2. /\ outcomes' \in Seq(JobOutcomes) /\ Len(outcomes') = Len(outcomes) + 1
        /\ \A j \in 1..Len(outcomes) : outcomes'[j] = outcomes[j]
        /\ outcomes'[Len(outcomes) + 1] = outcome
        /\ DOMAIN outcomes' = 1..Len(outcomes) + 1
    BY <1>2, <2>1
  <2>3. \A j \in DOMAIN outcomes' : outcomes'[j] = given[j]
    BY <1>2, <1>5, <2>2
  <2>4. Len(outcomes') <= Len(given) /\ given' = given
    BY <1>2, <1>3, <1>5, <2>2
  <2> QED
    BY <1>2, <1>5, <2>1, <2>2, <2>3, <2>4 DEF PlaceInv
<1>6. CASE Degrade
  <2>1. pc # "idle" /\ position = N /\ Return("degraded") /\ clock' = clock
    BY <1>6 DEF Degrade
  <2>2. given[Len(outcomes) + 1] = "degraded"
    BY <1>3, <2>1
  <2> QED
    BY <1>5, <2>1, <2>2 DEF JobOutcomes
<1>7. ASSUME pc = "call"
      PROVE  position < N /\ position < Len(t[Len(outcomes) + 1])
  <2>1. position < Len(t[Len(outcomes) + 1])
    BY <1>1, <1>7 DEF PlaceInv
  <2>2. Len(t[Len(outcomes) + 1]) \in Nat /\ Len(t[Len(outcomes) + 1]) <= N
    BY <1>3, <1>7
  <2> QED
    BY <1>2, <2>1, <2>2, JobAssumption
<1>8. CASE TurnSucceeds(t)
  <2>1. pc = "call" /\ Return("answered") /\ clock' = clock /\ Recalled(t) = "success"
    BY <1>8 DEF TurnSucceeds, CallSucceeds
  <2>2. given[Len(outcomes) + 1] = "answered"
    BY <1>3, <1>7, <2>1
  <2> QED
    BY <1>5, <2>1, <2>2 DEF JobOutcomes
<1>9. CASE Call
  <2>1. /\ pc = "chain" /\ position < N /\ pc' = "call" /\ since' = Reading /\ started' = clock
        /\ UNCHANGED <<clock, first, position, tries, outcomes>>
    BY <1>9 DEF Call
  <2>2. tries = 0 /\ Reading = 0
    BY <1>1, <1>2, <2>1 DEF PlaceInv, Reading, Read
  <2> QED
    BY <1>2, <1>3, <2>1, <2>2 DEF PlaceInv
<1>10. CASE OnceMore(t)
  <2>1. /\ pc = "call" /\ tries' = tries + 1 /\ tries < Retries /\ since' = 0
        /\ Recalled(t) \in Failures
        /\ UNCHANGED <<clock, pc, first, position, started, outcomes>>
    BY <1>10 DEF OnceMore
  <2> QED
    BY <1>2, <1>3, <1>7, <2>1 DEF PlaceInv, Recalled
<1>11. CASE TurnFails(t)
  <2>1. /\ pc = "call" /\ pc' = "chain" /\ position' = position + 1 /\ tries' = 0
        /\ started' = 0 /\ UNCHANGED <<clock, first, outcomes>>
        /\ Recalled(t) \in Failures
    BY <1>11 DEF TurnFails, FailTurn, Fail, NextProvider
  <2>2. position + 1 <= Len(t[Len(outcomes) + 1])
    <3>1. Len(t[Len(outcomes) + 1]) \in Nat
      BY <1>3, <2>1
    <3> QED
      BY <1>2, <1>7, <2>1, <3>1
  <2>3. \A i \in 1..position + 1 : t[Len(outcomes) + 1][i] \in Failures
    BY <1>2, <1>3, <2>1 DEF Recalled
  <2> QED
    BY <1>2, <1>3, <2>1, <2>2, <2>3 DEF PlaceInv
<1> QED
  BY <1>4, <1>6, <1>8, <1>9, <1>10, <1>11

LEMMA QueueStep ==
  ASSUME NEW f, NEW t, Story(f, t), UNCHANGED <<stored, given>>,
         \/ UNCHANGED <<queue, outcomes, position, tries>>
         \/ Degrade /\ UNCHANGED queue
         \/ TurnFails(t)
         \/ OnceMore(t)
         \/ TurnSucceeds(t)
  PROVE  QueueInv(f, t)'
<1>1. StoredIs(f, t) /\ PlaceInv(f, t) /\ QueueInv(f, t)
  BY DEF Story
<1>2. /\ Len(outcomes) \in Nat /\ position \in Nat /\ tries \in Nat
      /\ outcomes \in Seq(JobOutcomes)
      /\ DOMAIN given \subseteq Nat /\ DOMAIN given \subseteq 1..2
      /\ \A j \in DOMAIN given : t[j] \in Seq(Outcomes) /\ Len(t[j]) \in Nat
  BY <1>1 DEF PlaceInv, StoredIs
<1>3. CASE UNCHANGED <<queue, outcomes, position, tries>>
  <2>1. \A j \in DOMAIN given : Reach(t, j)' = Reach(t, j)
    BY <1>1, <1>3, ReachStep
  <2> QED
    BY <1>1, <1>3, <2>1 DEF QueueInv
<1>4. CASE Degrade /\ UNCHANGED queue
  <2>1. \A j \in DOMAIN given : Reach(t, j)' = Reach(t, j)
    BY <1>1, <1>4, ReachStep
  <2>2. /\ pc # "call" /\ pc # "idle" /\ tries' = 0 /\ position' = 0
        /\ queue' = queue /\ given' = given
    BY <1>4 DEF Degrade, Return
  <2>3. tries = 0
    BY <1>1, <2>2 DEF PlaceInv
  <2> QED
    BY <1>1, <2>1, <2>2, <2>3 DEF QueueInv
<1>5. ASSUME pc = "call", OtherQueuesKept, NEW j \in DOMAIN given, NEW i \in 1..Len(t[j]),
             j # Len(outcomes) + 1 \/ i # position + 1, i > Reach(t, j)
      PROVE  /\ queue'[<<ChainFrom(f, i - 1), j>>] = <<t[j][i]>>
  <2>1. f \in Providers /\ Current = ChainFrom(f, position)
    BY <1>1, <1>5, UnderReplay
  <2>2. i - 1 \in Nat /\ Len(t[j]) <= N
    <3>1. Len(t[j]) <= N
      BY <1>1, <1>2, JobAssumption DEF StoredIs, JobKept
    <3> QED
      BY <3>1
  <2>3. ChainFrom(f, i - 1) \in Providers
    <3>1. i - 1 \in 0..N - 1
      BY <1>2, <2>2, JobAssumption
    <3> QED
      BY <2>1, <3>1, ChainFromProviders
  <2>4. <<ChainFrom(f, i - 1), j>> \in DOMAIN queue
    BY <1>1, <1>2, <2>3 DEF QueueInv
  <2>5. <<ChainFrom(f, i - 1), j>> # <<Current, Len(outcomes) + 1>>
    <3>1. CASE j # Len(outcomes) + 1
      BY <3>1
    <3>2. CASE i # position + 1
      <4>1. i - 1 # position
        BY <1>2, <2>2, <3>2
      <4>2. ChainFrom(f, i - 1) # ChainFrom(f, position)
        BY <1>2, <2>1, <2>2, <4>1, ChainFromProviders
      <4> QED
        BY <2>1, <4>2
    <3> QED
      BY <1>5, <3>1, <3>2
  <2>6. queue'[<<ChainFrom(f, i - 1), j>>] = queue[<<ChainFrom(f, i - 1), j>>]
    BY <1>5, <2>4, <2>5 DEF OtherQueuesKept
  <2>7. queue[<<ChainFrom(f, i - 1), j>>] = <<t[j][i]>>
    BY <1>1, <1>5 DEF QueueInv
  <2> QED
    BY <2>6, <2>7
<1>6. CASE OnceMore(t)
  <2>1. /\ pc = "call" /\ OtherQueuesKept /\ tries' = tries + 1
        /\ UNCHANGED <<first, position, outcomes>>
        /\ queue'[<<Current, Len(outcomes) + 1>>] = <<>>
        /\ DOMAIN queue' = DOMAIN queue
    BY <1>6 DEF OnceMore, OtherQueuesKept
  <2>2. Current = ChainFrom(f, position) /\ tries' > 0
    BY <1>1, <1>2, <2>1, UnderReplay
  <2>3. \A j \in DOMAIN given : Reach(t, j)' = Reach(t, j)
    BY <1>1, <2>1, ReachStep
  <2>4. ASSUME NEW j \in DOMAIN given, NEW i \in 1..Len(t[j]), i > Reach(t, j)
        PROVE  queue'[<<ChainFrom(f, i - 1), j>>] =
                  IF j = Len(outcomes) + 1 /\ i = position + 1 THEN <<>> ELSE <<t[j][i]>>
    <3>1. CASE j = Len(outcomes) + 1 /\ i = position + 1
      <4>1. i - 1 = position
        BY <1>2, <3>1
      <4> QED
        BY <2>1, <2>2, <3>1, <4>1
    <3>2. CASE ~(j = Len(outcomes) + 1 /\ i = position + 1)
      BY <1>5, <2>1, <2>4, <3>2
    <3> QED
      BY <3>1, <3>2
  <2> QED
    BY <1>1, <2>1, <2>2, <2>3, <2>4 DEF QueueInv
<1>7. CASE TurnFails(t) \/ TurnSucceeds(t)
  <2>1. /\ pc = "call" /\ OtherQueuesKept /\ tries' = 0 /\ DOMAIN queue' = DOMAIN queue
    BY <1>7 DEF TurnFails, TurnSucceeds, FailTurn, Fail, NextProvider, CallSucceeds, Return, OtherQueuesKept
  <2>2. \A j \in DOMAIN given :
           Reach(t, j)' = IF j = Len(outcomes) + 1 THEN position + 1 ELSE Reach(t, j)
    BY <1>1, <1>7, ReachStep
  <2>3. \A j \in DOMAIN given : j = Len(outcomes) + 1 => Reach(t, j) = position
    BY <1>1, <2>1, ReachStep
  <2>4. ASSUME NEW j \in DOMAIN given, NEW i \in 1..Len(t[j]), i > Reach(t, j)'
        PROVE  queue'[<<ChainFrom(f, i - 1), j>>] = <<t[j][i]>>
    <3>1. i > Reach(t, j) /\ (j # Len(outcomes) + 1 \/ i # position + 1)
      BY <1>2, <2>2, <2>3, <2>4
    <3> QED
      BY <1>5, <2>1, <3>1
  <2> QED
    BY <1>1, <2>1, <2>4 DEF QueueInv
<1> QED
  BY <1>3, <1>4, <1>6, <1>7


(* The provider whose turn it is has a closed breaker, with no more         *)
(* failures than there were jobs before this one.                           *)
LEMMA AheadIsCalm ==
  ASSUME NEW f, NEW t, Story(f, t), pc # "idle", position < N
  PROVE  /\ Current \in Providers
         /\ breakers[Current] \in Breaker
         /\ Calm(Current, Len(outcomes))
<1>1. StoredIs(f, t) /\ PlaceInv(f, t) /\ CalmInv(f)
  BY DEF Story
<1>2. f \in Providers /\ Current = ChainFrom(f, position) /\ Current \in Providers
      /\ position \in Nat
  BY <1>1, UnderReplay
<1>3. Len(outcomes) < Len(given)
  BY <1>1 DEF PlaceInv
<1>4. \A i \in 1..position : ChainFrom(f, i - 1) # Current
  <2> SUFFICES ASSUME NEW i \in 1..position PROVE ChainFrom(f, i - 1) # ChainFrom(f, position)
    BY <1>2
  <2>1. i - 1 \in Nat /\ i - 1 # position
    BY <1>2
  <2> QED
    BY <1>2, <2>1, ChainFromProviders
<1>5. Calm(Current, Len(outcomes)) /\ breakers[Current] \in Breaker
  BY <1>1, <1>2, <1>3, <1>4 DEF CalmInv
<1> QED
  BY <1>2, <1>5

LEMMA CalmAllows ==
  ASSUME NEW p, NEW n, Calm(p, n)
  PROVE  \A now : Resolve(breakers[p], now) = breakers[p] /\ Allows(breakers[p], now)
BY DEF Calm, Resolve, Allows

(* One failure more in a breaker that a single failure does not open.       *)
LEMMA OneFailureMore ==
  ASSUME FailureThreshold > 1, NEW b \in Breaker, b.state = "closed", Len(b.failures) <= 0,
         NEW now \in Nat
  PROVE  /\ RecordFailure(b, now).state = "closed"
         /\ Len(RecordFailure(b, now).failures) <= 1
<1>1. PICK old \in Seq(Nat) : old = b.failures
  BY DEF Breaker
<1>2. PICK all \in Seq(Nat) : all = Append(old, now)
  <2>1. Append(old, now) \in Seq(Nat)
    OBVIOUS
  <2> QED
    BY <2>1
<1>3. Len(all) <= 1 /\ Len(all) \in Nat
  BY <1>1, <1>2
<1>4. PICK d \in 0..Len(all) : Len(Prune(all, now)) = Len(all) - d
  BY PruneDrops
<1>5. Len(Prune(all, now)) <= 1 /\ Len(Prune(all, now)) < FailureThreshold
  BY <1>3, <1>4, BreakerAssumption
<1>6. /\ RecordFailure(b, now).state = "closed" <=>
            /\ b.state = "closed"
            /\ Len(Prune(Append(b.failures, now), now)) < FailureThreshold
      /\ RecordFailure(b, now).state = "closed" =>
            RecordFailure(b, now).failures = Prune(Append(b.failures, now), now)
  BY FailureRecorded
<1> QED
  BY <1>1, <1>2, <1>5, <1>6

LEMMA CalmStep ==
  ASSUME FailureThreshold > 1, NEW f, NEW t, Story(f, t), UNCHANGED <<stored, given>>,
         \/ UNCHANGED <<breakers, outcomes, position>>
         \/ Degrade
         \/ Call
         \/ TurnFails(t)
         \/ TurnSucceeds(t)
  PROVE  CalmInv(f)'
<1>1. StoredIs(f, t) /\ PlaceInv(f, t) /\ CalmInv(f)
  BY DEF Story
<1>2. /\ Len(outcomes) \in Nat /\ position \in Nat /\ Len(given) \in 1..2 /\ given' = given
      /\ outcomes \in Seq(JobOutcomes) /\ (outcomes = <<>> <=> Len(outcomes) = 0)
      /\ breakers \in [Providers -> Breaker]
  BY <1>1 DEF PlaceInv, StoredIs, CalmInv
<1>3. CASE UNCHANGED <<breakers, outcomes, position>>
  BY <1>1, <1>2, <1>3 DEF CalmInv, Calm
<1>4. ASSUME NEW outcome \in JobOutcomes, Return(outcome),
             breakers' \in [Providers -> Breaker],
             \A p \in Providers : breakers'[p] = breakers[p] \/ breakers'[p] = NewBreaker
      PROVE  CalmInv(f)'
  <2>1. Len(outcomes') = Len(outcomes) + 1 /\ outcomes' # <<>>
    BY <1>2, <1>4 DEF Return
  <2>2. ASSUME NEW p \in Providers, Len(outcomes') < Len(given)
        PROVE  breakers'[p].state = "closed" /\ Len(breakers'[p].failures) <= Len(outcomes')
    <3>1. Len(outcomes) = 0
      <4>1. Len(outcomes) \in Nat /\ Len(given) \in 1..2 /\ Len(outcomes) + 1 < Len(given)
        BY <1>2, <2>1, <2>2
      <4>2. PICK a \in Nat : a = Len(outcomes)
        BY <4>1
      <4>3. PICK b \in 1..2 : b = Len(given)
        BY <4>1
      <4>4. a + 1 < b
        BY <4>1, <4>2, <4>3
      <4>5. a = 0
        BY ONLY <4>4, a \in Nat, b \in 1..2
      <4> QED
        BY <4>2, <4>5
    <3>2. breakers[p].state = "closed" /\ Len(breakers[p].failures) <= 1
      BY <1>1, <1>2, <3>1 DEF CalmInv, Calm
    <3>3. NewBreaker.state = "closed" /\ Len(NewBreaker.failures) = 0
      BY DEF NewBreaker
    <3> QED
      BY <1>4, <2>1, <3>1, <3>2, <3>3
  <2> QED
    BY <1>2, <1>4, <2>1, <2>2 DEF CalmInv, Calm
<1>5. CASE Degrade
  <2>1. Return("degraded") /\ breakers' = breakers
    BY <1>5 DEF Degrade
  <2> QED
    BY <1>2, <1>4, <2>1 DEF JobOutcomes
<1>6. ASSUME pc # "idle", position < N
      PROVE  /\ Current \in Providers
             /\ breakers[Current] \in Breaker
             /\ Calm(Current, Len(outcomes))
  BY <1>6, AheadIsCalm
<1>7. CASE Call
  <2>1. /\ pc # "idle" /\ position < N /\ UNCHANGED <<position, outcomes>>
        /\ breakers' = [breakers EXCEPT ![Current] = Resolve(@, Reading)]
    BY <1>7 DEF Call
  <2>2. Resolve(breakers[Current], Reading) = breakers[Current] /\ Current \in Providers
    BY <1>6, <2>1, CalmAllows
  <2>3. breakers' = breakers
    BY <1>2, <2>1, <2>2
  <2> QED
    BY <1>1, <1>2, <2>1, <2>3 DEF CalmInv, Calm
<1>8. ASSUME pc = "call" PROVE position < N
  <2>1. position < Len(t[Len(outcomes) + 1])
    BY <1>1, <1>8 DEF PlaceInv
  <2>2. Len(t[Len(outcomes) + 1]) <= N /\ Len(t[Len(outcomes) + 1]) \in Nat
    BY <1>1, <1>8, UnderReplay
  <2> QED
    BY <1>2, <2>1, <2>2, JobAssumption
<1>9. CASE TurnSucceeds(t)
  <2>1. pc = "call" /\ Return("answered")
        /\ breakers' = [breakers EXCEPT ![Current] = RecordSuccess(@)]
    BY <1>9 DEF TurnSucceeds, CallSucceeds
  <2>2. Current \in Providers
    BY <1>6, <1>8, <2>1
  <2>3. NewBreaker \in Breaker
    BY DEF NewBreaker, Breaker, BreakerStates
  <2>4. \A p \in Providers : breakers'[p] = IF p = Current THEN NewBreaker ELSE breakers[p]
    BY <1>2, <2>1, <2>2 DEF RecordSuccess
  <2>5. breakers' \in [Providers -> Breaker]
    BY <1>2, <2>1, <2>3 DEF RecordSuccess
  <2> QED
    BY <1>4, <2>1, <2>4, <2>5 DEF JobOutcomes
<1>10. CASE TurnFails(t)
  <2>1. /\ pc = "call" /\ position' = position + 1 /\ outcomes' = outcomes
        /\ breakers' = [breakers EXCEPT ![Current] = RecordFailure(@, Reading)]
    BY <1>10 DEF TurnFails, FailTurn, Fail, NextProvider
  <2>2. /\ Current \in Providers /\ breakers[Current] \in Breaker
        /\ breakers[Current].state = "closed"
        /\ Len(breakers[Current].failures) <= Len(outcomes)
    BY <1>6, <1>8, <2>1 DEF Calm
  <2>3. Reading \in Nat
    BY <1>1 DEF PlaceInv, Reading, Read
  <2>4. RecordFailure(breakers[Current], Reading) \in Breaker
    BY <2>2, <2>3, FailureRecorded
  <2>5. /\ breakers' \in [Providers -> Breaker]
        /\ \A p \in Providers : p # Current => breakers'[p] = breakers[p]
        /\ breakers'[Current] = RecordFailure(breakers[Current], Reading)
    BY <1>2, <2>1, <2>2, <2>4
  <2>6. Current = ChainFrom(f, position)
    BY <1>1, <2>1, UnderReplay
  <2>7. ASSUME NEW p \in Providers, Len(outcomes) < Len(given),
               \A i \in 1..position + 1 : ChainFrom(f, i - 1) # p
        PROVE  breakers'[p].state = "closed" /\ Len(breakers'[p].failures) <= Len(outcomes)
    <3>1. position + 1 \in 1..position + 1 /\ (position + 1) - 1 = position
      BY <1>2
    <3>2. p # Current
      BY <2>6, <2>7, <3>1
    <3>3. \A i \in 1..position : ChainFrom(f, i - 1) # p
      BY <1>2, <2>7
    <3>4. Calm(p, Len(outcomes))
      BY <1>1, <2>7, <3>3 DEF CalmInv
    <3> QED
      BY <2>5, <3>2, <3>4 DEF Calm
  <2>8. ASSUME NEW p \in Providers, outcomes = <<>>
        PROVE  breakers'[p].state = "closed" /\ Len(breakers'[p].failures) <= 1
    <3>1. CASE p = Current
      <4>1. Len(breakers[Current].failures) <= 0
        BY <1>2, <2>2, <2>8
      <4> QED
        BY <2>2, <2>3, <2>5, <3>1, <4>1, OneFailureMore
    <3>2. CASE p # Current
      <4>1. Calm(p, 1)
        BY <1>1, <2>8 DEF CalmInv
      <4> QED
        BY <2>5, <3>2, <4>1 DEF Calm
    <3> QED
      BY <3>1, <3>2
  <2> QED
    BY <1>2, <2>1, <2>5, <2>7, <2>8 DEF CalmInv, Calm
<1> QED
  BY <1>3, <1>5, <1>7, <1>9, <1>10

(* A step of the replay.                                                    *)
LEMMA StoryStep ==
  ASSUME FailureThreshold > 1, NEW f, NEW t, Story(f, t), Again
  PROVE  Story(f, t)' /\ UNCHANGED <<phase, stored, given>>
<1>1. UNCHANGED <<phase, stored, given>>
  BY DEF Again
<1>2. ~SkipOpen
  <2> SUFFICES ASSUME SkipOpen PROVE FALSE
    OBVIOUS
  <2>1. pc # "idle" /\ position < N /\ ~Allows(breakers[Current], Reading)
    BY DEF SkipOpen
  <2>2. Calm(Current, Len(outcomes))
    BY <2>1, AheadIsCalm
  <2> QED
    BY <2>1, <2>2, CalmAllows
<1>3. \/ AskAgain
      \/ Degrade /\ UNCHANGED queue
      \/ Call /\ UNCHANGED queue
      \/ TurnFails(t)
      \/ OnceMore(t)
      \/ TurnSucceeds(t)
  BY <1>2, ReplaySteps
<1>4. /\ AskAgain => UNCHANGED <<breakers, records, outcomes, position, tries, queue>>
      /\ OnceMore(t) => UNCHANGED <<breakers, records, outcomes, position>>
      /\ Call => UNCHANGED <<records, outcomes, position, tries>>
  BY DEF AskAgain, OnceMore, Call
<1>5. StoredIs(f, t)'
  BY <1>1 DEF Story, StoredIs, Has
<1>6. PlaceInv(f, t)'
  BY <1>1, <1>3, PlaceStep
<1>7. TrailsInv(f, t)'
  BY <1>1, <1>3, <1>4, TrailsStep
<1>8. QueueInv(f, t)'
  BY <1>1, <1>3, <1>4, QueueStep
<1>9. CalmInv(f)'
  BY <1>1, <1>3, <1>4, CalmStep
<1> QED
  BY <1>1, <1>5, <1>6, <1>7, <1>8, <1>9 DEF Story


-----------------------------------------------------------------------------
(* The live phase. *)

LEMMA LiveStep ==
  ASSUME GatewayInv, TrailInv, [Next]_vars
  PROVE  GatewayInv' /\ TrailInv'
<1>1. TypeOK /\ JobInv
  BY DEF GatewayInv
<1>2. /\ Len(outcomes) \in Nat /\ DOMAIN outcomes = 1..Len(outcomes)
      /\ position \in Nat /\ position <= N /\ first \in Providers \cup {0}
      /\ records \in Seq(CallRecord) /\ Len(records) \in Nat
      /\ clock \in Nat /\ started \in Nat
  BY <1>1, JobAssumption, GatewayAssumption DEF TypeOK
<1>3. pc' # "call" => tries' = 0
  <2>1. \A outcome : /\ Return(outcome) => tries' = 0
                     /\ Fail(outcome) => tries' = 0
                     /\ pc = "call" /\ RetryOrFail(outcome) => pc' = "call" \/ tries' = 0
    BY DEF Return, Fail, NextProvider, RetryOrFail
  <2>2. pc # "call" => tries = 0
    BY DEF TrailInv
  <2>3. CASE Ask \/ Tick
    BY <2>2, <2>3 DEF Ask, Tick
  <2>4. CASE Degrade \/ CallSucceeds \/ CallEscapes
    BY <2>1, <2>4 DEF Degrade, CallSucceeds, CallEscapes
  <2>5. CASE SkipOpen \/ Call
    BY <2>5 DEF SkipOpen, NextProvider, Call
  <2>6. CASE CallInvalid \/ CallTimesOut \/ CallRaises
    BY <2>1, <2>6 DEF CallInvalid, CallTimesOut, CallRaises
  <2>7. CASE UNCHANGED vars
    BY <2>2, <2>7 DEF vars
  <2> QED
    BY <2>3, <2>4, <2>5, <2>6, <2>7 DEF Next, Proceed
<1> DEFINE Walks(log, job) ==
             \E f \in Providers \cup {0} : \A i \in RecordsOf(log, job) :
                f \in Providers /\ log[i].provider = ChainFrom(f, log[i].index)
<1>4. \A job \in 1..Len(outcomes) : Walks(records, job)
  BY <1>2 DEF TrailInv
\* One record more, of the job under way.
<1>5. ASSUME pc # "idle", position < N, NEW outcome \in Outcomes, NEW from \in Nat,
             Emit(outcome, from)
      PROVE  /\ \A job \in 1..Len(outcomes) : RecordsOf(records', job) = RecordsOf(records, job)
             /\ \A job \in 1..Len(outcomes) : \A i \in RecordsOf(records, job) :
                   records'[i] = records[i]
             /\ RecordsOf(records', Len(outcomes) + 1)
                   = RecordsOf(records, Len(outcomes) + 1) \cup {Len(records) + 1}
             /\ \A i \in DOMAIN records : records'[i] = records[i]
             /\ records'[Len(records) + 1].provider = ChainAt(position)
             /\ records'[Len(records) + 1].index = position
  <2>1. /\ records' \in Seq(CallRecord) /\ Len(records') = Len(records) + 1
        /\ \A i \in 1..Len(records) : records'[i] = records[i]
        /\ records'[Len(records) + 1] =
              [job |-> Len(outcomes) + 1, index |-> position, provider |-> Current,
               outcome |-> outcome, from |-> from, at |-> clock]
    BY <1>1, <1>5, Emitted
  <2>2. DOMAIN records = 1..Len(records) /\ DOMAIN records' = 1..Len(records) + 1
    BY <1>2, <2>1
  <2>3. records'[Len(records) + 1].job = Len(outcomes) + 1
        /\ records'[Len(records) + 1].provider = ChainAt(position)
        /\ records'[Len(records) + 1].index = position
    BY <2>1 DEF Current
  <2>4. \A job \in 1..Len(outcomes) : RecordsOf(records', job) = RecordsOf(records, job)
    BY <1>2, <2>1, <2>2, <2>3 DEF RecordsOf
  <2>5. RecordsOf(records', Len(outcomes) + 1)
           = RecordsOf(records, Len(outcomes) + 1) \cup {Len(records) + 1}
    BY <1>2, <2>1, <2>2, <2>3 DEF RecordsOf
  <2> QED
    BY <2>1, <2>2, <2>3, <2>4, <2>5 DEF RecordsOf
\* The job under way so far.
<1>6. ASSUME pc # "idle", NEW i \in RecordsOf(records, Len(outcomes) + 1)
      PROVE  first \in Providers /\ records[i].provider = ChainFrom(first, records[i].index)
  <2>1. PICK before \in Nat : before = Len(records) - position
    BY <1>1, <1>2 DEF JobInv
  <2>2. /\ \A k \in 1..before : records[k].job \in 1..Len(outcomes)
        /\ \A k \in 1..position : /\ records[before + k].index = k - 1
                                  /\ records[before + k].provider = ChainAt(k - 1)
    BY <1>1, <2>1 DEF JobInv
  <2>3. i \in 1..Len(records) /\ records[i].job = Len(outcomes) + 1
    BY <1>2, <1>6 DEF RecordsOf
  <2>4. i > before
    BY <1>2, <2>1, <2>2, <2>3
  <2>5. PICK k \in 1..position : i = before + k
    <3>1. i - before \in 1..position /\ i = before + (i - before)
      BY <1>2, <2>1, <2>3, <2>4
    <3> QED
      BY <3>1
  <2>6. records[i].index = k - 1 /\ records[i].provider = ChainAt(k - 1)
    BY <2>2, <2>5
  <2>7. first \in Providers
    <3>1. N > 0
      BY <1>2, <2>5, JobAssumption
    <3> QED
      BY <1>1, <1>6, <3>1 DEF JobInv
  <2> QED
    BY <2>6, <2>7 DEF ChainAt, ChainFrom
<1>7. ASSUME pc # "idle", position < N
      PROVE  first \in Providers
  BY <1>1, <1>2, <1>7, JobAssumption DEF JobInv
<1>8. ASSUME UNCHANGED <<records, outcomes>>
      PROVE  TrailInv'
  BY <1>2, <1>3, <1>4, <1>8 DEF TrailInv, RecordsOf
<1>9. ASSUME pc # "idle", position < N, NEW outcome \in Outcomes, NEW from \in Nat,
             Emit(outcome, from), UNCHANGED outcomes
      PROVE  TrailInv'
  <2>1. \A job \in 1..Len(outcomes) : Walks(records', job)
    BY <1>4, <1>5, <1>9
  <2> QED
    BY <1>2, <1>3, <1>9, <2>1 DEF TrailInv, RecordsOf
<1>10. ASSUME pc # "idle", NEW outcome \in JobOutcomes, Return(outcome),
              \/ records' = records
              \/ position < N /\ Emit("success", started)
       PROVE  TrailInv'
  <2>1. DOMAIN outcomes' = 1..Len(outcomes) + 1
    <3>1. outcomes \in Seq(JobOutcomes) /\ outcomes' = Append(outcomes, outcome)
      BY <1>1, <1>10 DEF TypeOK, Return
    <3> QED
      BY <3>1
  <2>2. CASE records' = records
    <3>1. Walks(records, Len(outcomes) + 1)
      BY <1>2, <1>6, <1>10
    <3>2. \A job \in 1..Len(outcomes) + 1 : Walks(records, job)
      BY <1>2, <1>4, <3>1
    <3> QED
      BY <1>3, <2>1, <2>2, <3>2 DEF TrailInv, RecordsOf
  <2>3. CASE position < N /\ Emit("success", started)
    <3>1. "success" \in Outcomes
      BY DEF Outcomes
    <3>2. \A job \in 1..Len(outcomes) : Walks(records', job)
      BY <1>2, <1>4, <1>5, <1>10, <2>3, <3>1
    <3>3. ASSUME NEW i \in RecordsOf(records', Len(outcomes) + 1)
          PROVE  first \in Providers /\ records'[i].provider = ChainFrom(first, records'[i].index)
      <4>1. CASE i \in RecordsOf(records, Len(outcomes) + 1)
        <5>1. records'[i] = records[i]
          BY <1>2, <1>5, <1>10, <2>3, <3>1, <4>1 DEF RecordsOf
        <5> QED
          BY <1>6, <1>10, <4>1, <5>1
      <4>2. CASE i = Len(records) + 1
        <5>1. records'[i].provider = ChainAt(position) /\ records'[i].index = position
          BY <1>2, <1>5, <1>10, <2>3, <3>1, <4>2
        <5> QED
          BY <1>7, <1>10, <2>3, <5>1 DEF ChainAt, ChainFrom
      <4> QED
        BY <1>2, <1>5, <1>10, <2>3, <3>1, <4>1, <4>2
    <3>4. Walks(records', Len(outcomes) + 1)
      BY <1>2, <3>3
    <3>5. ASSUME NEW job \in 1..Len(outcomes) + 1
          PROVE  Walks(records', job)
      <4>1. job \in 1..Len(outcomes) \/ job = Len(outcomes) + 1
        BY <1>2
      <4>2. CASE job \in 1..Len(outcomes)
        BY <3>2, <4>2
      <4>3. CASE job = Len(outcomes) + 1
        BY <3>4, <4>3
      <4> QED
        BY <4>1, <4>2, <4>3
    <3> QED
      BY <1>3, <2>1, <3>5 DEF TrailInv, RecordsOf
  <2> QED
    BY <1>10, <2>2, <2>3
<1>11. ASSUME Ask \/ Call \/ Tick \/ Attempt
       PROVE  TrailInv'
  <2>1. UNCHANGED <<records, outcomes>>
    BY <1>11 DEF Ask, Call, Tick, Attempt
  <2> QED
    BY <1>8, <2>1
<1>12. ASSUME SkipOpen
       PROVE  TrailInv'
  <2>1. pc # "idle" /\ position < N /\ Emit("circuit_open", clock) /\ UNCHANGED outcomes
    BY <1>12 DEF SkipOpen, NextProvider
  <2>2. "circuit_open" \in Outcomes
    BY DEF Outcomes
  <2> QED
    BY <1>2, <1>9, <2>1, <2>2
<1>13. ASSUME NEW outcome \in Outcomes, FailTurn(outcome)
       PROVE  TrailInv'
  <2>1. pc # "idle" /\ position < N /\ Emit(outcome, started) /\ UNCHANGED outcomes
    BY <1>1, <1>13 DEF FailTurn, Fail, NextProvider, JobInv
  <2> QED
    BY <1>2, <1>9, <2>1
<1>14. ASSUME Degrade \/ CallEscapes
       PROVE  TrailInv'
  <2>1. \E outcome \in JobOutcomes : pc # "idle" /\ Return(outcome) /\ records' = records
    BY <1>14 DEF Degrade, CallEscapes, JobOutcomes
  <2> QED
    BY <1>10, <2>1
<1>15. ASSUME CallSucceeds
       PROVE  TrailInv'
  <2>1. pc # "idle" /\ position < N /\ Emit("success", started) /\ Return("answered")
    BY <1>1, <1>15 DEF CallSucceeds, JobInv
  <2>2. "answered" \in JobOutcomes
    BY DEF JobOutcomes
  <2> QED
    BY <1>10, <2>1, <2>2
<1>16. TrailInv'
  <2>1. "error" \in Outcomes /\ "timeout" \in Outcomes
    BY DEF Outcomes
  <2> QED
    BY <1>1, <1>11, <1>12, <1>13, <1>14, <1>15, <2>1, Steps
<1> QED
  BY <1>16, GatewayStep


-----------------------------------------------------------------------------
(* Loading a stored run. *)

Places(at, K, m) ==
    /\ m \in Nat
    /\ at \in [1..m -> K]
    /\ \A i, j \in 1..m : i < j => at[i] < at[j]
    /\ \A k \in K : \E i \in 1..m : at[i] = k

LEMMA ChosenPlaces ==
  ASSUME NEW T, NEW s \in Seq(T), NEW K \in SUBSET DOMAIN s
  PROVE  /\ IsFiniteSet(K)
         /\ Places(Ascending(K), K, Cardinality(K))
         /\ DOMAIN Chosen(s, K) = 1..Cardinality(K)
         /\ \A i \in 1..Cardinality(K) : Chosen(s, K)[i] = s[Ascending(K)[i]]
<1>1. DOMAIN s = 1..Len(s) /\ Len(s) \in Nat
  OBVIOUS
<1>2. IsFiniteSet(1..Len(s))
  BY <1>1, FS_Interval
<1>3. K \in SUBSET Int /\ K \in SUBSET 1..Len(s)
  BY <1>1
<1>4. IsFiniteSet(K)
  BY <1>2, <1>3, FS_Subset
<1>5. Places(Ascending(K), K, Cardinality(K))
  BY <1>3, <1>4, AscendingSet DEF Places
<1>6. /\ DOMAIN Chosen(s, K) = 1..Cardinality(K)
      /\ \A i \in 1..Cardinality(K) : Chosen(s, K)[i] = s[Ascending(K)[i]]
  BY DEF Chosen
<1> QED
  BY <1>4, <1>5, <1>6

(* _by_hash: a provider has one recorded call for a job's prompt.           *)
LEMMA QueueIs ==
  ASSUME NEW log \in Seq(CallRecord), NEW job, NEW f \in Providers, NEW o, NEW n \in Nat,
         Has(log, job, f, o, n), NEW i \in 1..n
  PROVE  QueueOf(log, ChainFrom(f, i - 1), job) = <<o[i]>>
<1>1. PICK p : p = ChainFrom(f, i - 1)
  OBVIOUS
<1>2. PICK K : K = {k \in DOMAIN log : log[k].provider = p /\ log[k].job = job}
  OBVIOUS
<1>3. PICK k \in DOMAIN log : log[k].job = job /\ log[k].index = i - 1
  BY DEF Has
<1>4. \A l \in DOMAIN log : log[l].index \in Nat
  <2>1. \A l \in DOMAIN log : log[l] \in CallRecord
    OBVIOUS
  <2> QED
    BY <2>1 DEF CallRecord
<1>5. k \in K /\ log[k].outcome = o[i]
  BY <1>1, <1>2, <1>3 DEF Has
<1>6. ASSUME NEW l \in K PROVE l = k
  <2>1. l \in DOMAIN log /\ log[l].job = job /\ ChainFrom(f, log[l].index) = ChainFrom(f, i - 1)
    BY <1>1, <1>2 DEF Has
  <2>2. log[l].index = i - 1
    BY <1>4, <2>1, ChainFromProviders
  <2>3. l \in Nat /\ k \in Nat
    BY <2>1
  <2>4. ~(l < k) /\ ~(k < l)
    BY <1>3, <1>4, <2>1, <2>2 DEF Has
  <2> QED
    BY <2>3, <2>4
<1>7. K = {k}
  BY <1>5, <1>6
<1>8. Cardinality(K) = 1
  BY <1>7, FS_Singleton
<1>9. PICK mine : mine = Chosen(log, K)
  OBVIOUS
<1>10. DOMAIN mine = 1..1 /\ mine[1] = log[k]
  <2>1. K \in SUBSET DOMAIN log
    BY <1>2
  <2>2. PICK m : m = Cardinality(K)
    OBVIOUS
  <2>3. Places(Ascending(K), K, m)
    BY <2>1, <2>2, ChosenPlaces
  <2>4. DOMAIN mine = 1..m
    BY <1>9, <2>1, <2>2, ChosenPlaces
  <2>5. \A x \in 1..m : mine[x] = log[Ascending(K)[x]]
    BY <1>9, <2>1, <2>2, ChosenPlaces
  <2>6. m = 1
    BY <1>8, <2>2
  <2>7. 1 \in 1..m
    BY <2>6
  <2>8. Ascending(K)[1] \in K
    BY <2>3, <2>7 DEF Places
  <2>9. mine[1] = log[Ascending(K)[1]]
    BY <2>5, <2>7
  <2> QED
    BY <1>7, <2>4, <2>6, <2>8, <2>9
<1>11. QueueOf(log, p, job) = [x \in DOMAIN mine |-> mine[x].outcome]
  BY <1>2, <1>9 DEF QueueOf
<1>12. [x \in DOMAIN mine |-> mine[x].outcome] = <<log[k].outcome>>
  <2>1. \A x \in 1..1 : x = 1
    OBVIOUS
  <2>2. [x \in 1..1 |-> mine[x].outcome] = [x \in 1..1 |-> log[k].outcome]
    BY <1>10, <2>1
  <2>3. PICK e : e = log[k].outcome
    OBVIOUS
  <2>4. [x \in 1..1 |-> e] = <<e>>
    OBVIOUS
  <2> QED
    BY <1>10, <2>2, <2>3, <2>4
<1> QED
  BY <1>1, <1>5, <1>11, <1>12

\* A stored run: the records of `log` at the places K, those at spot[1],
\* spot[2], ..., with their jobs counted from `before` on.
Copied(run, log, spot, K, m, before) ==
    /\ m \in Nat
    /\ DOMAIN run = 1..m
    /\ run = [i \in 1..m |-> run[i]]
    /\ spot \in [1..m -> K]
    /\ \A i, j \in 1..m : spot[i] = spot[j] => i = j
    /\ \A k \in K : \E i \in 1..m : spot[i] = k
    /\ \A i \in 1..m : run[i] = [log[spot[i]] EXCEPT !.job = @ - before]

\* In the order of list_for_run.
InOrder(run) ==
    \A j, k \in DOMAIN run : j < k =>
        \/ run[j].at < run[k].at
        \/ run[j].at = run[k].at /\ run[j].index <= run[k].index

LEMMA ListedCopy ==
  ASSUME records \in Seq(CallRecord), NEW size, NEW before, before = Len(outcomes) - size,
         NEW K, K = {k \in DOMAIN records : records[k].job > before},
         NEW listed, listed \in Listings(RunRecords(size))
  PROVE  InOrder(listed) /\ \E m, spot : Copied(listed, records, spot, K, m, before)
<1>1. K \in SUBSET DOMAIN records
  OBVIOUS
<1>2. PICK m : m = Cardinality(K)
  OBVIOUS
<1>3. PICK places : places = Ascending(K)
  OBVIOUS
<1>4. PICK mine : mine = Chosen(records, K)
  OBVIOUS
<1>5. Places(places, K, m)
  BY <1>1, <1>2, <1>3, ChosenPlaces
<1>6. DOMAIN mine = 1..m
  BY <1>1, <1>2, <1>4, ChosenPlaces
<1>7. \A i \in 1..m : mine[i] = records[places[i]]
  BY <1>1, <1>2, <1>3, <1>4, ChosenPlaces
<1>8. PICK run : run = [k \in 1..m |-> [mine[k] EXCEPT !.job = @ - before]]
  OBVIOUS
<1>9. RunRecords(size) = run
  <2>1. RunRecords(size) = [k \in DOMAIN mine |-> [mine[k] EXCEPT !.job = @ - before]]
    BY <1>4 DEF RunRecords
  <2> QED
    BY <1>6, <1>8, <2>1
<1>10. DOMAIN run = 1..m /\ \A i \in 1..m : run[i] = [records[places[i]] EXCEPT !.job = @ - before]
  BY <1>7, <1>8
<1>11. PICK order \in Bijection(1..m, 1..m) : listed = [k \in 1..m |-> run[order[k]]]
  BY <1>9, <1>10 DEF Listings
<1>12. order \in [1..m -> 1..m]
  BY <1>11 DEF Bijection, Injection, Surjection
<1>13. \A i, j \in 1..m : order[i] = order[j] => i = j
  BY <1>11, <1>12 DEF Bijection, Injection, IsInjective
<1>14. \A j \in 1..m : \E i \in 1..m : order[i] = j
  BY <1>11, <1>12 DEF Bijection, Surjection
<1>15. PICK spot : spot = [i \in 1..m |-> places[order[i]]]
  OBVIOUS
<1>16. DOMAIN listed = 1..m
  BY <1>11
<1>17. InOrder(listed)
  <2>1. \A j, k \in DOMAIN run : j < k =>
           \/ listed[j].at < listed[k].at
           \/ listed[j].at = listed[k].at /\ listed[j].index <= listed[k].index
    BY <1>9 DEF Listings
  <2> QED
    BY <1>10, <1>16, <2>1 DEF InOrder
<1>18. spot \in [1..m -> K]
  BY <1>5, <1>12, <1>15 DEF Places
<1>19. ASSUME NEW i \in 1..m, NEW j \in 1..m, spot[i] = spot[j] PROVE i = j
  <2>1. order[i] \in 1..m /\ order[j] \in 1..m /\ m \in Nat
    BY <1>5, <1>12 DEF Places
  <2>2. places[order[i]] = places[order[j]]
    BY <1>15, <1>19
  <2>3. K \in SUBSET Nat
    BY <1>1
  <2>4. places[order[i]] \in Nat
    BY <1>5, <2>1, <2>3 DEF Places
  <2>5. PICK x, y : x = order[i] /\ y = order[j]
    OBVIOUS
  <2>6. \A a, b \in 1..m : a < b => places[a] < places[b]
    BY <1>5 DEF Places
  <2>7. x \in 1..m /\ y \in 1..m /\ places[x] = places[y] /\ places[x] \in Nat
    BY <2>1, <2>2, <2>4, <2>5
  <2>8. ~(x < y)
    BY <2>6, <2>7
  <2>9. ~(y < x)
    BY <2>6, <2>7
  <2>10. order[i] = order[j]
    BY <2>1, <2>5, <2>7, <2>8, <2>9
  <2> QED
    BY <1>13, <2>10
<1>20. ASSUME NEW k \in K PROVE \E i \in 1..m : spot[i] = k
  <2>1. PICK j \in 1..m : places[j] = k
    BY <1>5 DEF Places
  <2>2. PICK i \in 1..m : order[i] = j
    BY <1>14
  <2>3. spot[i] = k
    BY <1>15, <2>1, <2>2
  <2> QED
    BY <2>3
<1>21. ASSUME NEW i \in 1..m
       PROVE  listed[i] = [records[spot[i]] EXCEPT !.job = @ - before]
  <2>1. listed[i] = run[order[i]] /\ order[i] \in 1..m
    BY <1>11, <1>12
  <2>2. run[order[i]] = [records[places[order[i]]] EXCEPT !.job = @ - before]
    BY <1>10, <2>1
  <2>3. spot[i] = places[order[i]]
    BY <1>15
  <2> QED
    BY <2>1, <2>2, <2>3
<1>22. m \in Nat
  BY <1>5 DEF Places
<1>23. listed = [i \in 1..m |-> listed[i]]
  BY <1>11
<1>24. Copied(listed, records, spot, K, m, before)
  BY <1>16, <1>18, <1>19, <1>20, <1>21, <1>22, <1>23 DEF Copied
<1> QED
  BY <1>17, <1>24

(* A job of the live gateway, as it stands in the stored run.               *)
LEMMA LoadedHas ==
  ASSUME NEW log \in Seq(CallRecord), NEW before \in Nat,
         NEW K, K = {i \in DOMAIN log : log[i].job > before},
         NEW run, NEW spot, NEW m, Copied(run, log, spot, K, m, before), InOrder(run),
         \A i, j \in DOMAIN log : i <= j => log[i].at <= log[j].at,
         NEW j \in Nat, j > 0, NEW b \in Nat, NEW n \in Nat,
         RecordsOf(log, before + j) = (b + 1)..(b + n),
         \A k \in 1..n : log[b + k].index = k - 1,
         NEW f, \A i \in RecordsOf(log, before + j) :
                   log[i].provider = ChainFrom(f, log[i].index)
  PROVE  Has(run, j, f, OutcomesAfter(log, b, n), n)
<1>1. \A i \in DOMAIN log : /\ i \in Nat
                            /\ log[i] \in CallRecord
                            /\ log[i].job \in Nat /\ log[i].at \in Nat
  <2>1. \A i \in DOMAIN log : i \in Nat /\ log[i] \in CallRecord
    OBVIOUS
  <2> QED
    BY <2>1 DEF CallRecord
<1>2. PICK o : o = OutcomesAfter(log, b, n)
  OBVIOUS
<1>3. \A x \in 1..n : o[x] = log[b + x].outcome
  BY <1>2 DEF OutcomesAfter
<1>4. ASSUME NEW k \in 1..m
      PROVE  /\ spot[k] \in DOMAIN log
             /\ run[k].job = log[spot[k]].job - before
             /\ run[k].index = log[spot[k]].index
             /\ run[k].provider = log[spot[k]].provider
             /\ run[k].outcome = log[spot[k]].outcome
             /\ run[k].at = log[spot[k]].at
  <2>1. spot[k] \in K
    BY DEF Copied
  <2>2. spot[k] \in DOMAIN log /\ log[spot[k]] \in CallRecord
    BY <1>1, <2>1
  <2>3. run[k] = [log[spot[k]] EXCEPT !.job = @ - before]
    BY DEF Copied
  <2> QED
    BY <2>2, <2>3 DEF CallRecord
<1>5. ASSUME NEW k \in 1..m, run[k].job = j
      PROVE  \E x \in 1..n : /\ spot[k] = b + x
                             /\ run[k].index = x - 1
                             /\ run[k].provider = ChainFrom(f, x - 1)
                             /\ run[k].outcome = o[x]
                             /\ run[k].at = log[b + x].at
  <2>1. spot[k] \in DOMAIN log /\ log[spot[k]].job \in Nat /\ log[spot[k]].job - before = j
    BY <1>1, <1>4, <1>5
  <2>2. spot[k] \in RecordsOf(log, before + j)
    <3>1. PICK c \in Nat : c = log[spot[k]].job
      BY <2>1
    <3>2. c - before = j
      BY <2>1, <3>1
    <3>3. c = before + j
      BY <3>2
    <3> QED
      BY <2>1, <3>1, <3>3 DEF RecordsOf
  <2>3. PICK x \in 1..n : spot[k] = b + x
    <3>1. spot[k] \in (b + 1)..(b + n)
      BY <2>2
    <3>2. spot[k] - b \in 1..n /\ spot[k] = b + (spot[k] - b)
      BY <3>1
    <3> QED
      BY <3>2
  <2>4. log[spot[k]].index = x - 1
    BY <2>3
  <2>5. log[spot[k]].provider = ChainFrom(f, x - 1)
    BY <2>2, <2>4
  <2> QED
    BY <1>3, <1>4, <2>3, <2>4, <2>5
<1>6. DOMAIN run = 1..m /\ m \in Nat
  BY DEF Copied
<1>7. ASSUME NEW k \in DOMAIN run, run[k].job = j
      PROVE  /\ run[k].index + 1 \in 1..n
             /\ run[k].provider = ChainFrom(f, run[k].index)
             /\ run[k].outcome = o[run[k].index + 1]
  <2>1. PICK x \in 1..n : /\ run[k].index = x - 1
                          /\ run[k].provider = ChainFrom(f, x - 1)
                          /\ run[k].outcome = o[x]
    BY <1>5, <1>6, <1>7
  <2>2. run[k].index + 1 = x
    BY <2>1
  <2> QED
    BY <2>1, <2>2
<1>8. ASSUME NEW i \in 1..n
      PROVE  \E k \in DOMAIN run : run[k].job = j /\ run[k].index = i - 1
  <2>1. b + i \in RecordsOf(log, before + j)
    OBVIOUS
  <2>2. b + i \in DOMAIN log /\ log[b + i].job = before + j
    BY <2>1 DEF RecordsOf
  <2>3. b + i \in K
    BY <2>2
  <2>4. PICK k \in 1..m : spot[k] = b + i
    BY <2>3 DEF Copied
  <2>5. run[k].job = (before + j) - before /\ run[k].index = i - 1
    BY <1>4, <2>2, <2>4
  <2> QED
    BY <1>6, <2>5
<1>9. ASSUME NEW x \in DOMAIN run, NEW y \in DOMAIN run, x < y, run[x].job = j, run[y].job = j
      PROVE  run[x].index < run[y].index
  <2>1. PICK u \in 1..n : spot[x] = b + u /\ run[x].index = u - 1 /\ run[x].at = log[b + u].at
    BY <1>5, <1>6, <1>9
  <2>2. PICK v \in 1..n : spot[y] = b + v /\ run[y].index = v - 1 /\ run[y].at = log[b + v].at
    BY <1>5, <1>6, <1>9
  <2>3. x \in 1..m /\ y \in 1..m /\ x # y
    BY <1>6, <1>9
  <2>4. u # v
    BY <2>1, <2>2, <2>3 DEF Copied
  <2>5. ASSUME v < u PROVE FALSE
    <3>1. b + v \in DOMAIN log /\ b + u \in DOMAIN log
      BY <1>4, <2>1, <2>2, <2>3
    <3>2. b + v <= b + u
      BY <2>5
    <3>3. log[b + v].at <= log[b + u].at
      BY <3>1, <3>2
    <3>4. \/ run[x].at < run[y].at
          \/ run[x].at = run[y].at /\ run[x].index <= run[y].index
      BY <1>9 DEF InOrder
    <3>5. log[b + v].at \in Nat /\ log[b + u].at \in Nat
      BY <1>1, <3>1
    <3>6. run[x].index <= run[y].index
      BY <2>1, <2>2, <3>3, <3>4, <3>5
    <3> QED
      BY <2>1, <2>2, <2>5, <3>6
  <2> QED
    BY <2>1, <2>2, <2>4, <2>5
<1>10. Has(run, j, f, o, n)
  BY <1>7, <1>8, <1>9 DEF Has
<1> QED
  BY <1>2, <1>10

LEMMA CopyIsSeq ==
  ASSUME NEW log \in Seq(CallRecord), NEW before \in Nat,
         NEW K, K = {i \in DOMAIN log : log[i].job > before},
         NEW run, NEW spot, NEW m, Copied(run, log, spot, K, m, before)
  PROVE  run \in Seq(CallRecord)
<1>1. m \in Nat /\ run = [i \in 1..m |-> run[i]]
  BY DEF Copied
<1>2. ASSUME NEW i \in 1..m PROVE run[i] \in CallRecord
  <2>1. spot[i] \in DOMAIN log /\ log[spot[i]].job > before
    BY DEF Copied
  <2>2. log[spot[i]] \in CallRecord
    BY <2>1
  <2>3. run[i] = [log[spot[i]] EXCEPT !.job = @ - before]
    BY DEF Copied
  <2>4. log[spot[i]].job - before \in Nat
    <3>1. log[spot[i]].job \in Nat
      BY <2>2 DEF CallRecord
    <3>2. PICK c \in Nat : c = log[spot[i]].job
      BY <3>1
    <3>3. c - before \in Nat
      BY <2>1, <3>2
    <3> QED
      BY <3>2, <3>3
  <2> QED
    BY <2>2, <2>3, <2>4 DEF CallRecord
<1> QED
  BY <1>1, <1>2

\* Records b + 1 to b + n are those of a job over, in the order of its chain.
JobAt(job, b, n) ==
    /\ b \in Nat /\ n \in Nat
    /\ RecordsOf(records, job) = (b + 1)..(b + n)
    /\ OutcomesAfter(records, b, n) \in Seq(Outcomes)
    /\ Len(OutcomesAfter(records, b, n)) = n
    /\ JobKept(OutcomesAfter(records, b, n), outcomes[job])
    /\ \A k \in 1..n : records[b + k].index = k - 1

LEMMA JobLies ==
  ASSUME GatewayInv, NEW job \in DOMAIN outcomes
  PROVE  \E b, n : JobAt(job, b, n)
<1>1. records \in Seq(CallRecord) /\ Len(records) \in Nat /\ DOMAIN records = 1..Len(records)
  BY DEF GatewayInv, TypeOK
<1>2. PICK b \in 0..Len(records), n \in 0..N :
         /\ RecordsOf(records, job) = (b + 1)..(b + n)
         /\ JobKept(OutcomesAfter(records, b, n), outcomes[job])
         /\ Walked(records, b, n)
  BY DEF GatewayInv, ChainFollowed
<1>3. b \in Nat /\ n \in Nat
  BY <1>1, <1>2, JobAssumption
<1>4. PICK o : o = OutcomesAfter(records, b, n)
  OBVIOUS
<1>5. o = [k \in 1..n |-> records[b + k].outcome]
  BY <1>4 DEF OutcomesAfter
<1>6. ASSUME NEW k \in 1..n PROVE records[b + k].outcome \in Outcomes
  <2>1. b + k \in RecordsOf(records, job)
    BY <1>2, <1>3
  <2>2. records[b + k] \in CallRecord
    BY <1>1, <2>1 DEF RecordsOf
  <2> QED
    BY <2>2 DEF CallRecord
<1>7. o \in Seq(Outcomes) /\ Len(o) = n
  BY <1>3, <1>5, <1>6
<1>8. \A k \in 1..n : records[b + k].index = k - 1
  BY <1>2 DEF Walked
<1>9. JobAt(job, b, n)
  BY <1>2, <1>3, <1>4, <1>7, <1>8 DEF JobAt
<1> QED
  BY <1>9

\* The records at K lie on the chain from f.
OnChain(K, f) ==
    \A i \in K : f \in Providers /\ records[i].provider = ChainFrom(f, records[i].index)

LEMMA FirstOfRun ==
  ASSUME GatewayInv, TrailInv, NEW size \in 1..2, StoredRun(size), pc = "idle",
         NEW before, before = Len(outcomes) - size,
         NEW K, K = {i \in DOMAIN records : records[i].job > before}
  PROVE  /\ before \in Nat
         /\ \A i \in K : records[i].job \in before + 1..Len(outcomes)
         /\ \E f \in Providers \cup {0} : OnChain(K, f)
<1>1. /\ records \in Seq(CallRecord) /\ Len(records) \in Nat /\ DOMAIN records = 1..Len(records)
      /\ Len(outcomes) \in Nat /\ DOMAIN outcomes = 1..Len(outcomes)
  BY DEF GatewayInv, TypeOK
<1>2. before \in Nat
  BY <1>1 DEF StoredRun
<1>3. \A i \in DOMAIN records : records[i].job \in 1..Len(outcomes)
  <2>1. position = 0
    BY DEF GatewayInv, JobInv
  <2>2. Len(records) - position = Len(records)
    BY <1>1, <2>1
  <2> QED
    BY <1>1, <2>2 DEF GatewayInv, JobInv
<1>4. \A i \in K : records[i].job \in before + 1..Len(outcomes)
  BY <1>1, <1>2, <1>3
<1>5. ASSUME NEW i \in K
      PROVE  \E r \in K : /\ records[r].index = 0
                          /\ OnChain({i}, records[r].provider)
  <2>1. PICK job \in DOMAIN outcomes : job = records[i].job /\ job > before
    BY <1>1, <1>3
  <2>2. PICK b, n : JobAt(job, b, n)
    BY JobLies
  <2>3. i \in RecordsOf(records, job)
    BY <2>1 DEF RecordsOf
  <2>4. b \in Nat /\ n \in Nat /\ RecordsOf(records, job) = (b + 1)..(b + n)
    BY <2>2 DEF JobAt
  <2>5. b + 1 \in RecordsOf(records, job) /\ 1 \in 1..n
    BY <2>3, <2>4
  <2>6. records[b + 1].index = 1 - 1
    BY <2>2, <2>5 DEF JobAt
  <2>7. b + 1 \in K
    BY <2>1, <2>5 DEF RecordsOf
  <2>8. PICK f : \A l \in RecordsOf(records, job) :
                    f \in Providers /\ records[l].provider = ChainFrom(f, records[l].index)
    BY DEF TrailInv
  <2>9. records[b + 1].provider = f
    BY <2>5, <2>6, <2>8 DEF ChainFrom
  <2> QED
    BY <2>3, <2>6, <2>7, <2>8, <2>9 DEF OnChain
<1>6. ASSUME NEW r \in K, NEW s \in K, records[r].index = 0, records[s].index = 0
      PROVE  records[r].provider = records[s].provider
  <2>1. PICK mine : mine = Chosen(records, K)
    OBVIOUS
  <2>2. PICK m : m = Cardinality(K)
    OBVIOUS
  <2>3. PICK places : places = Ascending(K)
    OBVIOUS
  <2>4. K \in SUBSET DOMAIN records
    OBVIOUS
  <2>5. Places(places, K, m)
    BY <1>1, <2>2, <2>3, <2>4, ChosenPlaces
  <2>6. DOMAIN mine = 1..m
    BY <1>1, <2>1, <2>2, <2>4, ChosenPlaces
  <2>7. \A x \in 1..m : mine[x] = records[places[x]]
    BY <1>1, <2>1, <2>2, <2>3, <2>4, ChosenPlaces
  <2>8. PICK run : run = [x \in DOMAIN mine |-> [mine[x] EXCEPT !.job = @ - before]]
    OBVIOUS
  <2>9. RunRecords(size) = run
    BY <2>1, <2>8 DEF RunRecords
  <2>10. ASSUME NEW l \in K
         PROVE  \E x \in DOMAIN run : /\ run[x].index = records[l].index
                                      /\ run[x].provider = records[l].provider
    <3>1. PICK x \in 1..m : places[x] = l
      BY <2>5 DEF Places
    <3>2. run[x] = [records[l] EXCEPT !.job = @ - before]
      BY <2>6, <2>7, <2>8, <3>1
    <3>3. records[l] \in CallRecord
      BY <1>1
    <3> QED
      BY <2>6, <2>8, <3>2, <3>3 DEF CallRecord
  <2>11. \A x, y \in DOMAIN run :
            run[x].index = 0 /\ run[y].index = 0 => run[x].provider = run[y].provider
    BY <2>9 DEF StoredRun
  <2>12. PICK x \in DOMAIN run : /\ run[x].index = records[r].index
                                 /\ run[x].provider = records[r].provider
    BY <2>10
  <2>13. PICK y \in DOMAIN run : /\ run[y].index = records[s].index
                                 /\ run[y].provider = records[s].provider
    BY <2>10
  <2> QED
    BY <1>6, <2>11, <2>12, <2>13
<1>7. \E f \in Providers \cup {0} : OnChain(K, f)
  <2>1. CASE K = {}
    BY <2>1 DEF OnChain
  <2>2. CASE K # {}
    <3>1. PICK i \in K : TRUE
      BY <2>2
    <3>2. PICK r \in K : records[r].index = 0 /\ OnChain({i}, records[r].provider)
      BY <1>5
    <3>3. PICK f : f = records[r].provider
      OBVIOUS
    <3>4. ASSUME NEW l \in K
          PROVE  f \in Providers /\ records[l].provider = ChainFrom(f, records[l].index)
      <4>1. PICK s \in K : records[s].index = 0 /\ OnChain({l}, records[s].provider)
        BY <1>5
      <4>2. records[s].provider = f
        BY <1>6, <3>2, <3>3, <4>1
      <4> QED
        BY <4>1, <4>2 DEF OnChain
    <3>5. OnChain(K, f) /\ f \in Providers
      BY <3>1, <3>4 DEF OnChain
    <3> QED
      BY <3>5
  <2> QED
    BY <2>1, <2>2
<1> QED
  BY <1>2, <1>4, <1>7

\* Job j of a stored run made the calls o of the chain from f.
Told(run, ends, f, j, o) ==
    /\ ends[j] # "raised"
    /\ JobKept(o, ends[j])
    /\ Has(run, j, f, o, Len(o))

LEMMA JobIsTold ==
  ASSUME GatewayInv, NEW size \in 1..2, StoredRun(size), NEW before \in Nat,
         before = Len(outcomes) - size,
         NEW K, K = {i \in DOMAIN records : records[i].job > before},
         NEW f, OnChain(K, f),
         NEW run, NEW spot, NEW m, Copied(run, records, spot, K, m, before), InOrder(run),
         NEW ends, \A j \in 1..size : ends[j] = outcomes[before + j],
         NEW j \in 1..size
  PROVE  \E o \in Seq(Outcomes) : Told(run, ends, f, j, o)
<1>1. /\ records \in Seq(CallRecord)
      /\ Len(outcomes) \in Nat /\ DOMAIN outcomes = 1..Len(outcomes)
      /\ \A i, k \in DOMAIN records : i <= k => records[i].at <= records[k].at
  BY DEF GatewayInv, TypeOK, TimeInv
<1>2. PICK job \in DOMAIN outcomes : job = before + j
  BY <1>1
<1>3. PICK b, n : JobAt(job, b, n)
  BY JobLies
<1>4. PICK o : o = OutcomesAfter(records, b, n)
  OBVIOUS
<1>5. /\ b \in Nat /\ n \in Nat
      /\ RecordsOf(records, job) = (b + 1)..(b + n)
      /\ o \in Seq(Outcomes)
      /\ Len(o) = n
      /\ JobKept(o, outcomes[job])
      /\ \A k \in 1..n : records[b + k].index = k - 1
  BY <1>3, <1>4 DEF JobAt
<1>6. ends[j] = outcomes[job] /\ outcomes[job] # "raised"
  BY <1>1, <1>2 DEF StoredRun
<1>7. \A i \in RecordsOf(records, before + j) :
         records[i].provider = ChainFrom(f, records[i].index)
  <2>1. \A i \in RecordsOf(records, before + j) : i \in K
    BY DEF RecordsOf
  <2> QED
    BY <2>1 DEF OnChain
<1>8. j \in Nat /\ j > 0
  OBVIOUS
<1>9. RecordsOf(records, before + j) = (b + 1)..(b + n)
  BY <1>2, <1>5
<1>10. Has(run, j, f, o, n)
  BY <1>1, <1>4, <1>5, <1>7, <1>8, <1>9, LoadedHas
<1> QED
  BY <1>5, <1>6, <1>10 DEF Told

LEMMA LoadStep ==
  ASSUME GatewayInv, TrailInv, NEW size \in 1..2, Load(size)
  PROVE  /\ phase' = "replay"
         /\ \E f \in Providers \cup {0} : \E t \in [DOMAIN given' -> Seq(Outcomes)] :
               Story(f, t)'
<1>1. /\ records \in Seq(CallRecord)
      /\ outcomes \in Seq(JobOutcomes)
      /\ Len(outcomes) \in Nat /\ DOMAIN outcomes = 1..Len(outcomes)
      /\ pc = "idle" /\ position = 0 /\ tries = 0
      /\ started \in Nat
  BY DEF GatewayInv, TypeOK, JobInv, TrailInv, Load
<1>2. PICK before : before = Len(outcomes) - size
  OBVIOUS
<1>3. PICK K : K = {i \in DOMAIN records : records[i].job > before}
  OBVIOUS
<1>4. StoredRun(size)
  BY DEF Load
<1>5. before \in Nat
  BY <1>1, <1>2, <1>3, <1>4, FirstOfRun
<1>6. \A i \in K : records[i].job \in before + 1..Len(outcomes)
  BY <1>1, <1>2, <1>3, <1>4, FirstOfRun
<1>7. PICK f \in Providers \cup {0} : OnChain(K, f)
  BY <1>1, <1>2, <1>3, <1>4, FirstOfRun
<1>8. PICK run : run = stored' /\ run \in Listings(RunRecords(size))
  BY DEF Load
<1>9. InOrder(run)
  BY <1>1, <1>2, <1>3, <1>8, ListedCopy
<1>10. PICK m, spot : Copied(run, records, spot, K, m, before)
  BY <1>1, <1>2, <1>3, <1>8, ListedCopy
<1>11. run \in Seq(CallRecord)
  BY <1>1, <1>3, <1>5, <1>10, CopyIsSeq
<1>12. PICK ends : ends = given' /\ ends = SubSeq(outcomes, Len(outcomes) - size + 1, Len(outcomes))
  BY DEF Load
<1>13. /\ ends \in Seq(JobOutcomes)
       /\ Len(ends) = size
       /\ DOMAIN ends = 1..size
       /\ \A j \in 1..size : ends[j] = outcomes[before + j]
  <2>1. PICK n \in Nat : n = Len(outcomes)
    BY <1>1
  <2>2. before + 1 \in 1..n + 1 /\ before + size = n
    BY <1>2, <1>5, <2>1
  <2>3. ends = SubSeq(outcomes, before + 1, n)
    BY <1>2, <1>12, <2>1, <2>2
  <2>4. ends \in Seq(JobOutcomes)
    BY <1>1, <2>1, <2>2, <2>3
  <2>5. Len(ends) = size
    <3>1. PICK b \in Nat : b = before
      BY <1>5
    <3>2. ends = SubSeq(outcomes, b + 1, n)
      BY <2>3, <3>1
    <3>3. Len(ends) = IF b + 1 <= n THEN n - (b + 1) + 1 ELSE 0
      <4>1. \A i \in b + 1..n : outcomes[i] \in JobOutcomes
        BY <1>1, <2>1
      <4>2. b + 1 \in Int /\ n \in Int
        BY <2>1, <3>1
      <4> QED
        BY <3>2, <4>1, <4>2, SubSeqProperties
    <3>4. size \in Nat
      OBVIOUS
    <3> QED
      BY <2>1, <2>2, <3>1, <3>3, <3>4
  <2>6. \A j \in 1..size : ends[j] = outcomes[before + j]
    BY <1>1, <1>5, <2>1, <2>2, <2>3
  <2> QED
    BY <2>4, <2>5, <2>6
<1>14. \A j \in 1..size : \E o \in Seq(Outcomes) : Told(run, ends, f, j, o)
  BY <1>2, <1>3, <1>4, <1>5, <1>7, <1>9, <1>10, <1>13, JobIsTold
<1>15. PICK t : t = [j \in 1..size |-> CHOOSE o \in Seq(Outcomes) : Told(run, ends, f, j, o)]
  OBVIOUS
<1>16. \A j \in 1..size : t[j] \in Seq(Outcomes) /\ Told(run, ends, f, j, t[j])
  BY <1>14, <1>15
<1>17. t \in [DOMAIN ends -> Seq(Outcomes)]
  BY <1>13, <1>15, <1>16
<1>18. \A k \in DOMAIN run : f \in Providers /\ run[k].job \in 1..size
  <2> SUFFICES ASSUME NEW k \in DOMAIN run PROVE f \in Providers /\ run[k].job \in 1..size
    OBVIOUS
  <2>1. spot[k] \in K /\ run[k] = [records[spot[k]] EXCEPT !.job = @ - before]
    BY <1>10 DEF Copied
  <2>2. records[spot[k]] \in CallRecord
    BY <1>1, <1>3, <2>1
  <2>3. run[k].job = records[spot[k]].job - before
    BY <2>1, <2>2 DEF CallRecord
  <2>4. records[spot[k]].job \in before + 1..Len(outcomes)
    BY <1>6, <2>1
  <2>5. PICK x : x = records[spot[k]].job
    OBVIOUS
  <2>6. f \in Providers
    BY <1>7, <2>1 DEF OnChain
  <2> QED
    BY <1>1, <1>2, <1>5, <2>3, <2>4, <2>5, <2>6
<1>19. StoredIs(f, t)'
  BY <1>8, <1>11, <1>12, <1>13, <1>16, <1>17, <1>18 DEF StoredIs, Told
<1>20. /\ clock' = 0 /\ records' = <<>> /\ outcomes' = <<>>
       /\ pc' = "idle" /\ position' = 0 /\ tries' = 0 /\ started' = started
       /\ breakers' = [p \in Providers |-> NewBreaker]
  BY <1>1 DEF Load
<1>21. PlaceInv(f, t)'
  <2>1. Len(outcomes') = 0 /\ DOMAIN outcomes' = {} /\ outcomes' \in Seq(JobOutcomes)
    BY <1>20
  <2>2. Len(given') \in Nat /\ Len(given') >= 0
    BY <1>12, <1>13
  <2>3. Retries \in Nat
    BY GatewayAssumption
  <2> QED
    BY <1>1, <1>20, <2>1, <2>2, <2>3 DEF PlaceInv
<1>22. \A j \in 1..size : Reach(t, j)' = 0
  BY <1>20 DEF Reach
<1>23. TrailsInv(f, t)'
  <2>1. records' \in Seq(CallRecord) /\ DOMAIN records' = {}
    BY <1>20
  <2>2. ASSUME NEW j \in 1..size PROVE Has(records', j, f, Repetition(t[j]), 0)
    BY <2>1 DEF Has
  <2> QED
    BY <1>12, <1>13, <1>22, <2>1, <2>2 DEF TrailsInv
<1>24. QueueInv(f, t)'
  <2>1. queue' = [place \in Providers \X (1..2) |-> QueueOf(run, place[1], place[2])]
    BY <1>8 DEF Load
  <2>2. DOMAIN queue' = Providers \X (1..2)
    BY ONLY <2>1
  <2>3. ASSUME NEW j \in 1..size, NEW i \in 1..Len(t[j])
        PROVE  queue'[<<ChainFrom(f, i - 1), j>>] = <<t[j][i]>>
    <3>1. Has(run, j, f, t[j], Len(t[j])) /\ Len(t[j]) \in Nat
      BY <1>16 DEF Told
    <3>2. Len(t[j]) <= N
      <4>1. JobKept(t[j], ends[j]) /\ ends[j] # "raised"
        BY <1>16 DEF Told
      <4> QED
        BY <4>1, JobAssumption DEF JobKept
    <3>3. PICK k \in DOMAIN run : run[k].job = j /\ run[k].index = i - 1
      BY <3>1 DEF Has
    <3>4. f \in Providers
      BY <1>18, <3>3
    <3>5. i - 1 \in 0..N - 1
      BY <3>1, <3>2, JobAssumption
    <3>6. ChainFrom(f, i - 1) \in Providers
      BY <3>4, <3>5, ChainFromProviders
    <3>7. QueueOf(run, ChainFrom(f, i - 1), j) = <<t[j][i]>>
      BY <1>11, <3>1, <3>4, QueueIs
    <3>8. j \in 1..2
      OBVIOUS
    <3>9. \A p \in Providers : \A job \in 1..2 : queue'[<<p, job>>] = QueueOf(run, p, job)
      BY ONLY <2>1
    <3> QED
      BY <3>6, <3>7, <3>8, <3>9
  <2>4. tries' = 0
    BY <1>20
  <2> QED
    BY <1>12, <1>13, <2>2, <2>3, <2>4 DEF QueueInv
<1>25. CalmInv(f)'
  <2>1. NewBreaker \in Breaker /\ NewBreaker.state = "closed" /\ Len(NewBreaker.failures) = 0
    BY DEF NewBreaker, Breaker, BreakerStates
  <2>2. \A p \in Providers : breakers'[p] = NewBreaker
    BY <1>20
  <2>3. breakers' \in [Providers -> Breaker]
    BY <1>20, <2>1
  <2>4. Len(outcomes') = 0
    BY <1>20
  <2>5. \A p \in Providers : Calm(p, 0)' /\ Calm(p, 1)'
    BY <2>1, <2>2 DEF Calm
  <2> QED
    BY <2>3, <2>4, <2>5 DEF CalmInv
<1>26. Story(f, t)'
  BY <1>19, <1>21, <1>23, <1>24, <1>25 DEF Story
<1>27. t \in [DOMAIN given' -> Seq(Outcomes)]
  BY <1>12, <1>17
<1>28. phase' = "replay"
  BY DEF Load
<1> QED
  BY <1>26, <1>27, <1>28

-----------------------------------------------------------------------------
(* The theorems. *)

LEMMA ReplayStarts ==
  ASSUME ReplayInit
  PROVE  ReplayInv
<1>1. GatewayInv
  BY InitiallyKept DEF ReplayInit
<1>2. TrailInv
  BY DEF ReplayInit, Init, TrailInv
<1> QED
  BY <1>1, <1>2 DEF ReplayInit, ReplayInv

LEMMA ReplayGoesOn ==
  ASSUME FailureThreshold > 1, ReplayInv, [ReplayNext]_replayVars
  PROVE  ReplayInv'
<1>1. CASE Live
  <2>1. phase = "live" /\ phase' = "live" /\ GatewayInv /\ TrailInv /\ [Next]_vars
    BY <1>1 DEF Live, ReplayInv
  <2>2. GatewayInv' /\ TrailInv'
    BY <2>1, LiveStep
  <2> QED
    BY <2>1, <2>2 DEF ReplayInv
<1>2. ASSUME NEW size \in 1..2, Load(size)
      PROVE  ReplayInv'
  <2>1. GatewayInv /\ TrailInv
    BY <1>2 DEF Load, ReplayInv
  <2>2. phase' = "replay"
    BY <1>2, <2>1, LoadStep
  <2>3. \E f \in Providers \cup {0} : \E t \in [DOMAIN given' -> Seq(Outcomes)] : Story(f, t)'
    BY <1>2, <2>1, LoadStep
  <2> QED
    BY <2>2, <2>3 DEF ReplayInv
<1>3. CASE Again
  <2>1. phase = "replay"
    BY <1>3 DEF Again
  <2>2. PICK f \in Providers \cup {0}, t \in [DOMAIN given -> Seq(Outcomes)] : Story(f, t)
    BY <2>1 DEF ReplayInv
  <2>3. Story(f, t)'
    BY <1>3, <2>2, StoryStep
  <2>4. UNCHANGED <<phase, stored, given>>
    BY <1>3, <2>2, StoryStep
  <2> QED
    BY <2>1, <2>3, <2>4 DEF ReplayInv
<1>4. CASE UNCHANGED replayVars
  <2>1. UNCHANGED phase /\ [Next]_vars
    BY <1>4 DEF replayVars, vars
  <2>2. CASE phase = "live"
    <3>1. GatewayInv' /\ TrailInv'
      BY <2>1, <2>2, LiveStep DEF ReplayInv
    <3> QED
      BY <2>1, <2>2, <3>1 DEF ReplayInv
  <2>3. CASE phase = "replay"
    <3>1. PICK f \in Providers \cup {0}, t \in [DOMAIN given -> Seq(Outcomes)] : Story(f, t)
      BY <2>3 DEF ReplayInv
    <3>2. Story(f, t)'
      BY <1>4, <3>1 DEF Story, StoredIs, PlaceInv, TrailsInv, QueueInv, CalmInv, Calm, Reach,
                        replayVars, vars
    <3>3. UNCHANGED given
      BY <1>4 DEF replayVars
    <3> QED
      BY <2>1, <2>3, <3>1, <3>2, <3>3 DEF ReplayInv
  <2> QED
    BY <2>2, <2>3 DEF ReplayInv
<1> QED
  BY <1>1, <1>2, <1>3, <1>4 DEF ReplayNext

(* As long as the gateway works live it keeps its own invariant and every   *)
(* job over lies on one chain; from the load on, the replay is where the    *)
(* stored run was when it had made as many calls: what it has recorded      *)
(* repeats the stored records, what lies ahead is still in the queues of    *)
(* the ReplayProviders, and no breaker ahead is open.  This holds when one  *)
(* failure does not open a breaker.                                         *)
THEOREM ReplayInvariant ==
  ASSUME FailureThreshold > 1
  PROVE  ReplaySpec => []ReplayInv
<1>1. ReplayInit => ReplayInv
  BY ReplayStarts
<1>2. ReplayInv /\ [ReplayNext]_replayVars => ReplayInv'
  BY ReplayGoesOn
<1> QED
  BY <1>1, <1>2, PTL DEF ReplaySpec

LEMMA ReplayOver ==
  ASSUME NEW f, NEW t, Story(f, t), Replayed
  PROVE  /\ outcomes = given
         /\ stored \in Seq(CallRecord) /\ records \in Seq(CallRecord)
         /\ \A k \in DOMAIN stored : stored[k].job \in DOMAIN given
         /\ \A k \in DOMAIN records : records[k].job \in DOMAIN given
         /\ \A j, k \in DOMAIN records : j < k => records[j].job <= records[k].job
         /\ \A j \in DOMAIN given :
               /\ t[j] \in Seq(Outcomes)
               /\ Has(stored, j, f, t[j], Len(t[j]))
               /\ Has(records, j, f, Repetition(t[j]), Len(t[j]))
<1>1. /\ outcomes \in Seq(JobOutcomes) /\ given \in Seq(JobOutcomes)
      /\ Len(outcomes) = Len(given)
      /\ \A j \in DOMAIN outcomes : outcomes[j] = given[j]
  BY DEF Story, StoredIs, PlaceInv, Replayed
<1>2. outcomes = given
  BY <1>1
<1>3. \A j \in DOMAIN given : Reach(t, j) = Len(t[j])
  BY <1>1 DEF Reach
<1>4. \A j \in DOMAIN given : Has(records, j, f, Repetition(t[j]), Len(t[j]))
  BY <1>3 DEF Story, TrailsInv
<1>5. /\ stored \in Seq(CallRecord)
      /\ \A k \in DOMAIN stored : stored[k].job \in DOMAIN given
      /\ \A j \in DOMAIN given : t[j] \in Seq(Outcomes) /\ Has(stored, j, f, t[j], Len(t[j]))
  BY DEF Story, StoredIs
<1>6. /\ records \in Seq(CallRecord)
      /\ \A k \in DOMAIN records : records[k].job \in DOMAIN given
      /\ \A j, k \in DOMAIN records : j < k => records[j].job <= records[k].job
  BY DEF Story, TrailsInv
<1> QED
  BY <1>2, <1>4, <1>5, <1>6

LEMMA TrailsAlike ==
  ASSUME NEW f, NEW t, Story(f, t), Replayed, NEW job \in DOMAIN given
  PROVE  /\ Len(TrailIn(records, job)) = Len(TrailIn(stored, job))
         /\ \A k \in DOMAIN TrailIn(stored, job) :
               /\ TrailIn(records, job)[k].index = TrailIn(stored, job)[k].index
               /\ TrailIn(records, job)[k].provider = TrailIn(stored, job)[k].provider
               /\ TrailIn(records, job)[k].outcome = "success"
                     <=> TrailIn(stored, job)[k].outcome = "success"
<1>1. stored \in Seq(CallRecord) /\ records \in Seq(CallRecord)
  BY ReplayOver
<1>2. PICK o : o = t[job]
  OBVIOUS
<1>3. o \in Seq(Outcomes)
  BY <1>2, ReplayOver
<1>4. PICK n \in Nat : n = Len(o) /\ DOMAIN o = 1..n
  BY <1>3
<1>5. Has(stored, job, f, o, n)
  BY <1>2, <1>4, ReplayOver
<1>6. Has(records, job, f, Repetition(o), n)
  BY <1>2, <1>4, ReplayOver
<1>7. PICK then : then = TrailIn(stored, job)
  OBVIOUS
<1>8. PICK now : now = TrailIn(records, job)
  OBVIOUS
<1>9. Len(then) = n /\ DOMAIN then = 1..n
  BY <1>1, <1>5, <1>7, TrailOf
<1>10. \A i \in 1..n : then[i].index = i - 1 /\ then[i].provider = ChainFrom(f, i - 1)
                       /\ then[i].outcome = o[i]
  BY <1>1, <1>5, <1>7, TrailOf
<1>11. Len(now) = n
  BY <1>1, <1>6, <1>8, TrailOf
<1>12. \A i \in 1..n : now[i].index = i - 1 /\ now[i].provider = ChainFrom(f, i - 1)
                       /\ now[i].outcome = Repetition(o)[i]
  BY <1>1, <1>6, <1>8, TrailOf
<1>13. \A i \in 1..n : Repetition(o)[i] = "success" <=> o[i] = "success"
  BY <1>4 DEF Repetition, Repeated
<1> QED
  BY <1>7, <1>8, <1>9, <1>10, <1>11, <1>12, <1>13

(* The replayed gateway, with ReplayProviders for its adapters, reproduces  *)
(* a stored run: every job the same end, the same way through the chain and *)
(* the same provider answering, as long as one failure opens no breaker.    *)
THEOREM ReplaysAgree ==
  ASSUME FailureThreshold > 1
  PROVE  ReplaySpec => []ReplayAnswersAlike
<1>1. ReplayInv => ReplayAnswersAlike
  <2> SUFFICES ASSUME ReplayInv, Replayed PROVE ReplayAnswersAlike
    BY DEF ReplayAnswersAlike
  <2>1. PICK f \in Providers \cup {0}, t \in [DOMAIN given -> Seq(Outcomes)] : Story(f, t)
    BY DEF ReplayInv, Replayed
  <2>2. outcomes = given
    BY <2>1, ReplayOver
  <2>3. ASSUME NEW job \in DOMAIN given
        PROVE  LET then == TrailIn(stored, job)
                   now == TrailIn(records, job)
               IN  /\ Len(now) = Len(then)
                   /\ \A k \in DOMAIN then :
                         /\ now[k].index = then[k].index
                         /\ now[k].provider = then[k].provider
                         /\ now[k].outcome = "success" <=> then[k].outcome = "success"
    BY <2>1, TrailsAlike
  <2> QED
    BY <2>2, <2>3 DEF ReplayAnswersAlike
<1> QED
  BY <1>1, ReplayInvariant, PTL

\* Record l of the replay is of the same job and attempt as record k stored.
Same(l, k) ==
    records[l].job = stored[k].job /\ records[l].index = stored[k].index

\* A replay and its stored run tell of the same calls.
Matching ==
    /\ stored \in Seq(CallRecord)
    /\ records \in Seq(CallRecord)
    /\ \A k \in DOMAIN stored : \E l \in DOMAIN records : Same(l, k)
    /\ \A l \in DOMAIN records : \E k \in DOMAIN stored : Same(l, k)
    /\ \A k \in DOMAIN stored : \A l \in DOMAIN records :
          Same(l, k) => /\ records[l].provider = stored[k].provider
                        /\ records[l].outcome = Repeated(stored[k].outcome)
    /\ \A j, k \in DOMAIN stored :
          j < k /\ stored[j].job = stored[k].job => stored[j].index < stored[k].index
    /\ \A j, k \in DOMAIN records :
          j < k => \/ records[j].job < records[k].job
                   \/ /\ records[j].job = records[k].job
                      /\ records[j].index < records[k].index

LEMMA ReplayMatches ==
  ASSUME NEW f, NEW t, Story(f, t), Replayed
  PROVE  Matching
<1>1. stored \in Seq(CallRecord) /\ records \in Seq(CallRecord)
  BY ReplayOver
<1>2. /\ \A k \in DOMAIN stored : stored[k].job \in DOMAIN given
      /\ \A k \in DOMAIN records : records[k].job \in DOMAIN given
      /\ \A j, k \in DOMAIN records : j < k => records[j].job <= records[k].job
  BY ReplayOver
<1>3. \A j \in DOMAIN given : /\ t[j] \in Seq(Outcomes)
                              /\ Has(stored, j, f, t[j], Len(t[j]))
                              /\ Has(records, j, f, Repetition(t[j]), Len(t[j]))
  BY ReplayOver
<1>4. /\ \A k \in DOMAIN stored : stored[k].index \in Nat /\ stored[k].job \in Nat
      /\ \A l \in DOMAIN records : records[l].index \in Nat /\ records[l].job \in Nat
  <2>1. /\ \A k \in DOMAIN stored : stored[k] \in CallRecord
        /\ \A l \in DOMAIN records : records[l] \in CallRecord
    BY <1>1
  <2> QED
    BY <2>1 DEF CallRecord
<1>5. ASSUME NEW k \in DOMAIN stored
      PROVE  /\ stored[k].index + 1 \in 1..Len(t[stored[k].job])
             /\ stored[k].provider = ChainFrom(f, stored[k].index)
             /\ stored[k].outcome = t[stored[k].job][stored[k].index + 1]
  <2>1. PICK j \in DOMAIN given : j = stored[k].job
    BY <1>2
  <2>2. Has(stored, j, f, t[j], Len(t[j]))
    BY <1>3
  <2> QED
    BY <2>1, <2>2 DEF Has
<1>6. ASSUME NEW l \in DOMAIN records
      PROVE  /\ records[l].index + 1 \in 1..Len(t[records[l].job])
             /\ records[l].provider = ChainFrom(f, records[l].index)
             /\ records[l].outcome = Repeated(t[records[l].job][records[l].index + 1])
  <2>1. PICK j \in DOMAIN given : j = records[l].job
    BY <1>2
  <2>2. Has(records, j, f, Repetition(t[j]), Len(t[j])) /\ t[j] \in Seq(Outcomes)
    BY <1>3
  <2>3. /\ records[l].index + 1 \in 1..Len(t[j])
        /\ records[l].provider = ChainFrom(f, records[l].index)
        /\ records[l].outcome = Repetition(t[j])[records[l].index + 1]
    BY <2>1, <2>2 DEF Has
  <2>4. DOMAIN t[j] = 1..Len(t[j])
    BY <2>2
  <2> QED
    BY <2>1, <2>3, <2>4 DEF Repetition
<1>7. ASSUME NEW k \in DOMAIN stored PROVE \E l \in DOMAIN records : Same(l, k)
  <2>1. PICK j \in DOMAIN given : j = stored[k].job
    BY <1>2
  <2>2. PICK i : i = stored[k].index + 1
    OBVIOUS
  <2>3. i \in 1..Len(t[j]) /\ i - 1 = stored[k].index
    BY <1>4, <1>5, <2>1, <2>2
  <2>4. Has(records, j, f, Repetition(t[j]), Len(t[j]))
    BY <1>3
  <2>5. PICK l \in DOMAIN records : records[l].job = j /\ records[l].index = i - 1
    BY <2>3, <2>4 DEF Has
  <2> QED
    BY <2>1, <2>3, <2>5 DEF Same
<1>8. ASSUME NEW l \in DOMAIN records PROVE \E k \in DOMAIN stored : Same(l, k)
  <2>1. PICK j \in DOMAIN given : j = records[l].job
    BY <1>2
  <2>2. PICK i : i = records[l].index + 1
    OBVIOUS
  <2>3. i \in 1..Len(t[j]) /\ i - 1 = records[l].index
    BY <1>4, <1>6, <2>1, <2>2
  <2>4. Has(stored, j, f, t[j], Len(t[j]))
    BY <1>3
  <2>5. PICK k \in DOMAIN stored : stored[k].job = j /\ stored[k].index = i - 1
    BY <2>3, <2>4 DEF Has
  <2> QED
    BY <2>1, <2>3, <2>5 DEF Same
<1>9. \A k \in DOMAIN stored : \A l \in DOMAIN records :
         Same(l, k) => /\ records[l].provider = stored[k].provider
                       /\ records[l].outcome = Repeated(stored[k].outcome)
  BY <1>5, <1>6 DEF Same
<1>10. ASSUME NEW j \in DOMAIN stored, NEW k \in DOMAIN stored, j < k,
              stored[j].job = stored[k].job
       PROVE  stored[j].index < stored[k].index
  <2>1. PICK job \in DOMAIN given : job = stored[j].job
    BY <1>2
  <2>2. Has(stored, job, f, t[job], Len(t[job]))
    BY <1>3
  <2> QED
    BY <1>10, <2>1, <2>2 DEF Has
<1>11. ASSUME NEW j \in DOMAIN records, NEW k \in DOMAIN records, j < k
       PROVE  \/ records[j].job < records[k].job
              \/ records[j].job = records[k].job /\ records[j].index < records[k].index
  <2>1. records[j].job <= records[k].job
    BY <1>2, <1>11
  <2>2. CASE records[j].job = records[k].job
    <3>1. PICK job \in DOMAIN given : job = records[j].job
      BY <1>2
    <3>2. Has(records, job, f, Repetition(t[job]), Len(t[job]))
      BY <1>3
    <3> QED
      BY <1>11, <2>2, <3>1, <3>2 DEF Has
  <2> QED
    BY <1>4, <2>1, <2>2
<1> QED
  BY <1>1, <1>7, <1>8, <1>9, <1>10, <1>11 DEF Matching

AllCompared ==
    /\ Len(stored) = Len(records)
    /\ \A k \in DOMAIN stored : Compared(records[k]) = Compared(stored[k])

Plain ==
    /\ \A k \in DOMAIN stored :
          /\ stored[k].outcome # "circuit_open"
          /\ stored[k].outcome = "timeout" => Retries = 0
    /\ \A j, k \in DOMAIN stored : j < k => stored[j].job <= stored[k].job

LEMMA MatchedIsPlain ==
  ASSUME Matching, AllCompared
  PROVE  Plain
<1>1. DOMAIN stored = DOMAIN records
  BY DEF Matching, AllCompared
<1>2. ASSUME NEW k \in DOMAIN stored
      PROVE  /\ records[k].job = stored[k].job
             /\ records[k].index = stored[k].index
             /\ records[k].outcome = stored[k].outcome
  <2>1. Compared(records[k]) = Compared(stored[k])
    BY DEF AllCompared
  <2> QED
    BY <2>1 DEF Compared
<1>3. ASSUME NEW k \in DOMAIN stored
      PROVE  /\ stored[k].outcome # "circuit_open"
             /\ stored[k].outcome = "timeout" => Retries = 0
  <2>1. Same(k, k) /\ k \in DOMAIN records
    BY <1>1, <1>2 DEF Same
  <2>2. stored[k].outcome = Repeated(stored[k].outcome)
    BY <1>2, <2>1 DEF Matching
  <2> QED
    BY <2>2 DEF Repeated
<1>4. ASSUME NEW j \in DOMAIN stored, NEW k \in DOMAIN stored, j < k
      PROVE  stored[j].job <= stored[k].job
  <2>1. \/ records[j].job < records[k].job
        \/ records[j].job = records[k].job
    BY <1>1, <1>4 DEF Matching
  <2>2. stored[j] \in CallRecord /\ stored[k] \in CallRecord
    BY DEF Matching
  <2>3. stored[j].job \in Nat /\ stored[k].job \in Nat
    BY <2>2 DEF CallRecord
  <2> QED
    BY <1>2, <2>1, <2>3
<1> QED
  BY <1>3, <1>4 DEF Plain

LEMMA PlainIsMatched ==
  ASSUME Matching, Plain
  PROVE  AllCompared
<1>1. PICK m \in Nat : m = Len(stored) /\ DOMAIN stored = 1..m
  BY DEF Matching
<1>2. PICK n \in Nat : n = Len(records) /\ DOMAIN records = 1..n
  BY DEF Matching
<1>3. PICK h : h = [k \in 1..m |-> CHOOSE l \in 1..n : Same(l, k)]
  OBVIOUS
<1>4. ASSUME NEW k \in 1..m PROVE h[k] \in 1..n /\ Same(h[k], k)
  <2>1. \E l \in 1..n : Same(l, k)
    BY <1>1, <1>2 DEF Matching
  <2> QED
    BY <1>3, <2>1
<1>5. h \in [1..m -> 1..n]
  BY <1>3, <1>4
<1>6. /\ \A k \in 1..m : stored[k].job \in Nat /\ stored[k].index \in Nat
                         /\ stored[k].outcome \in Outcomes
      /\ \A l \in 1..n : records[l].job \in Nat /\ records[l].index \in Nat
  <2>1. /\ \A k \in 1..m : stored[k] \in CallRecord
        /\ \A l \in 1..n : records[l] \in CallRecord
    BY <1>1, <1>2 DEF Matching
  <2> QED
    BY <2>1 DEF CallRecord
<1>7. ASSUME NEW j \in 1..m, NEW k \in 1..m, j < k PROVE h[j] < h[k]
  <2>1. \/ stored[j].job < stored[k].job
        \/ stored[j].job = stored[k].job /\ stored[j].index < stored[k].index
    <3>1. stored[j].job <= stored[k].job
      BY <1>1, <1>7 DEF Plain
    <3>2. stored[j].job = stored[k].job => stored[j].index < stored[k].index
      BY <1>1, <1>7 DEF Matching
    <3> QED
      BY <1>6, <3>1, <3>2
  <2>2. PICK x \in 1..n : x = h[j] /\ Same(x, j)
    BY <1>4
  <2>3. PICK y \in 1..n : y = h[k] /\ Same(y, k)
    BY <1>4
  <2>4. \/ records[x].job < records[y].job
        \/ records[x].job = records[y].job /\ records[x].index < records[y].index
    BY <2>1, <2>2, <2>3 DEF Same
  <2>5. ASSUME y < x PROVE FALSE
    <3>1. \/ records[y].job < records[x].job
          \/ records[y].job = records[x].job /\ records[y].index < records[x].index
      BY <1>2, <2>5 DEF Matching
    <3> QED
      BY <1>6, <2>4, <3>1
  <2>6. x # y
    BY <1>6, <2>4
  <2> QED
    BY <2>2, <2>3, <2>5, <2>6
<1>8. ASSUME NEW l \in 1..n PROVE \E k \in 1..m : h[k] = l
  <2>1. PICK k \in 1..m : Same(l, k)
    BY <1>1, <1>2 DEF Matching
  <2>2. PICK y \in 1..n : y = h[k] /\ Same(y, k)
    BY <1>4
  <2>3. records[y].job = records[l].job /\ records[y].index = records[l].index
    BY <2>1, <2>2 DEF Same
  <2>4. ~(y < l)
    <3>1. y < l => \/ records[y].job < records[l].job
                   \/ records[y].index < records[l].index
      BY <1>2 DEF Matching
    <3> QED
      BY <1>6, <2>3, <3>1
  <2>5. ~(l < y)
    <3>1. l < y => \/ records[l].job < records[y].job
                   \/ records[l].index < records[y].index
      BY <1>2 DEF Matching
    <3> QED
      BY <1>6, <2>3, <3>1
  <2>6. y = l
    BY <2>4, <2>5
  <2> QED
    BY <2>2, <2>6
<1>9. Fills(h, m, n)
  BY <1>5, <1>7, <1>8 DEF Fills
<1>10. m = n /\ \A k \in 1..m : h[k] = k
  BY <1>9, NoGaps
<1>11. ASSUME NEW k \in DOMAIN stored PROVE Compared(records[k]) = Compared(stored[k])
  <2>1. k \in DOMAIN records /\ Same(k, k)
    BY <1>1, <1>2, <1>4, <1>10
  <2>2. /\ records[k].provider = stored[k].provider
        /\ records[k].outcome = Repeated(stored[k].outcome)
    BY <2>1 DEF Matching
  <2>3. /\ stored[k].outcome # "circuit_open"
        /\ stored[k].outcome = "timeout" => Retries = 0
        /\ stored[k].outcome \in Outcomes
    BY <1>1, <1>6 DEF Plain
  <2>4. Repeated(stored[k].outcome) = stored[k].outcome
    BY <2>3 DEF Repeated, Outcomes
  <2> QED
    BY <2>1, <2>2, <2>4 DEF Same, Compared
<1> QED
  BY <1>1, <1>2, <1>10, <1>11 DEF AllCompared

(* verify_replay calls a replay matched exactly when the stored run met no  *)
(* open breaker, retries did not hide the error after a recorded timeout,   *)
(* and list_for_run gave the first job's calls before the second's: in no   *)
(* other case does it report a difference, or miss one.                     *)
THEOREM VerdictsAreExact ==
  ASSUME FailureThreshold > 1
  PROVE  ReplaySpec => []VerifiedExactly
<1>1. ReplayInv => VerifiedExactly
  <2> SUFFICES ASSUME ReplayInv, Replayed PROVE AllCompared <=> Plain
    BY DEF VerifiedExactly, AllCompared, Plain
  <2>1. PICK f \in Providers \cup {0}, t \in [DOMAIN given -> Seq(Outcomes)] : Story(f, t)
    BY DEF ReplayInv, Replayed
  <2>2. Matching
    BY <2>1, ReplayMatches
  <2> QED
    BY <2>2, MatchedIsPlain, PlainIsMatched
<1> QED
  BY <1>1, ReplayInvariant, PTL

=============================================================================
