-------------------------- MODULE RunServiceProofs --------------------------
(***************************************************************************)
(* Proofs about the run service, for every value of the constants: any     *)
(* number of providers, of run ids and of executions.                      *)
(***************************************************************************)
EXTENDS RunServiceProperties, FiniteSetTheorems, SequenceTheorems, TLAPS

(* What is where in a table that rows were appended to.                     *)
LEMMA Appended ==
  ASSUME NEW S, NEW old \in Seq(S), NEW new \in Seq(S)
  PROVE  /\ old \o new \in Seq(S)
         /\ Len(old) \in Nat /\ Len(new) \in Nat
         /\ Len(old \o new) = Len(old) + Len(new)
         /\ DOMAIN (old \o new) = 1..(Len(old) + Len(new))
         /\ \A k \in 1..Len(old) : (old \o new)[k] = old[k]
         /\ \A k \in 1..Len(new) : (old \o new)[Len(old) + k] = new[k]
<1>1. /\ old \o new \in Seq(S)
      /\ Len(old) \in Nat /\ Len(new) \in Nat
      /\ Len(old \o new) = Len(old) + Len(new)
  BY ConcatProperties
<1>2. \A i \in 1..(Len(old) + Len(new)) :
         (old \o new)[i] = IF i <= Len(old) THEN old[i] ELSE new[i - Len(old)]
  BY ConcatProperties
<1>3. ASSUME NEW k \in 1..Len(new) PROVE (old \o new)[Len(old) + k] = new[k]
  <2>1. Len(old) + k \in 1..(Len(old) + Len(new)) /\ ~(Len(old) + k <= Len(old))
        /\ (Len(old) + k) - Len(old) = k
    BY <1>1
  <2> QED
    BY <1>2, <2>1
<1>4. ASSUME NEW k \in 1..Len(old) PROVE (old \o new)[k] = old[k]
  BY <1>1, <1>2
<1> QED
  BY <1>1, <1>3, <1>4

(* A job's records by their positions.                                      *)
LEMMA OutcomesAreTrail ==
  ASSUME NEW calls, NEW first \in Nat, NEW n \in Nat
  PROVE  LET trail == OutcomesAfter(calls, first, n) IN
         /\ DOMAIN trail = 1..n /\ Len(trail) = n
         /\ trail = <<>> <=> n = 0
         /\ \A k \in 1..n : trail[k] = calls[first + k].outcome
<1> DEFINE S == {calls[first + k].outcome : k \in 1..n}
<1>1. OutcomesAfter(calls, first, n) \in Seq(S)
  <2>1. OutcomesAfter(calls, first, n) \in [1..n -> S]
    BY DEF OutcomesAfter
  <2> HIDE DEF S
  <2> QED
    BY <2>1
<1> HIDE DEF S
<1> QED
  BY <1>1 DEF OutcomesAfter

LEMMA RecordedMeans ==
  ASSUME NEW calls, NEW first \in Nat, NEW n \in Nat
  PROVE  /\ Recorded(calls, first, n, TRUE) <=>
               n = N /\ \A k \in 1..n : calls[first + k].outcome \in Failures
         /\ Recorded(calls, first, n, FALSE) <=>
               /\ n > 0 /\ n <= N
               /\ \A k \in 1..n : calls[first + k].outcome = "success" <=> k = n
<1> DEFINE trail == OutcomesAfter(calls, first, n)
<1>1. /\ DOMAIN trail = 1..n /\ Len(trail) = n
      /\ trail = <<>> <=> n = 0
      /\ \A k \in 1..n : trail[k] = calls[first + k].outcome
  BY OutcomesAreTrail
<1>2. /\ Recorded(calls, first, n, TRUE) <=> JobKept(trail, "degraded")
      /\ Recorded(calls, first, n, FALSE) <=> JobKept(trail, "answered")
  BY DEF Recorded
<1> HIDE DEF trail
<1>3. JobKept(trail, "degraded") <=>
         n = N /\ \A k \in 1..n : calls[first + k].outcome \in Failures
  BY <1>1 DEF JobKept
<1>4. JobKept(trail, "answered") <=>
         /\ n > 0 /\ n <= N
         /\ \A k \in 1..n : calls[first + k].outcome = "success" <=> k = n
  <2>1. trail # <<>> <=> n > 0
    BY <1>1
  <2>2. JobKept(trail, "answered") <=>
           /\ n > 0 /\ n <= N
           /\ \A k \in 1..n : trail[k] = "success" <=> k = n
    BY <1>1, <2>1, Zenon DEF JobKept
  <2> QED
    BY <1>1, <2>2
<1> QED
  BY <1>2, <1>3, <1>4

LEMMA AnsweredLast ==
  ASSUME NEW calls, NEW first \in Nat, NEW n \in Nat, Recorded(calls, first, n, FALSE)
  PROVE  n \in 1..n /\ calls[first + n].outcome = "success"
<1> DEFINE trail == OutcomesAfter(calls, first, n)
<1>1. /\ Len(trail) = n
      /\ trail = <<>> <=> n = 0
      /\ \A k \in 1..n : trail[k] = calls[first + k].outcome
  BY OutcomesAreTrail
<1>2. JobKept(trail, "answered")
  BY DEF Recorded
<1> HIDE DEF trail
<1>3. n > 0 /\ trail[Len(trail)] = "success"
  <2>1. DOMAIN trail = 1..n
    BY OutcomesAreTrail DEF trail
  <2>2. trail # <<>> /\ \A k \in DOMAIN trail : (trail[k] = "success" <=> k = Len(trail))
    BY <1>2 DEF JobKept
  <2>3. n > 0
    BY <1>1, <2>2
  <2>4. n \in 1..n
    BY <2>3
  <2> QED
    BY <1>1, <2>1, <2>2, <2>3, <2>4
<1>4. n \in 1..n
  BY <1>3
<1> QED
  BY <1>1, <1>3, <1>4

LEMMA SameRecords ==
  ASSUME NEW calls, NEW first, NEW others, NEW second, NEW n \in Nat, NEW isFailed,
         \A k \in 1..n : calls[first + k] = others[second + k],
         Recorded(calls, first, n, isFailed)
  PROVE  Recorded(others, second, n, isFailed)
<1>1. OutcomesAfter(calls, first, n) = OutcomesAfter(others, second, n)
  BY DEF OutcomesAfter
<1> QED
  BY <1>1 DEF Recorded

-----------------------------------------------------------------------------
(* The sink.  A job appends its records, whatever comes of it.              *)
LEMMA JobAppends ==
  ASSUME TypeOK, run_id \in RunIds, NEW job \in Jobs,
         NEW n \in 0..N, NEW trail \in [1..n -> Outcomes],
         sink' = sink \o [k \in DOMAIN trail |->
                             [run |-> run_id, job |-> job, outcome |-> trail[k]]]
  PROVE  /\ sink' \in Seq(CallRecord)
         /\ Len(sink') = Len(sink) + n /\ Len(sink) \in Nat /\ n \in Nat
         /\ Len(trail) = n
         /\ \A k \in 1..Len(sink) : sink'[k] = sink[k]
         /\ \A k \in 1..n : /\ sink'[Len(sink) + k].run = run_id
                            /\ sink'[Len(sink) + k].job = job
         /\ OutcomesAfter(sink', Len(sink), n) = trail
<1> DEFINE rows == [k \in DOMAIN trail |->
                       [run |-> run_id, job |-> job, outcome |-> trail[k]]]
<1>1. n \in Nat /\ sink \in Seq(CallRecord) /\ Len(sink) \in Nat
  BY JobAssumption DEF TypeOK
<1>2. \A k \in 1..n : rows[k] \in CallRecord
  BY DEF CallRecord
<1>3. rows \in Seq(CallRecord) /\ Len(rows) = n
  BY <1>1, <1>2
<1>4. Len(trail) = n
  <2>1. trail \in Seq(Outcomes)
    BY <1>1
  <2> QED
    BY <1>1, <2>1
<1>5. \A k \in 1..n : /\ rows[k].run = run_id /\ rows[k].job = job
                      /\ rows[k].outcome = trail[k]
  OBVIOUS
<1>6. sink' = sink \o rows
  OBVIOUS
<1> HIDE DEF rows
<1>7. /\ sink' \in Seq(CallRecord) /\ Len(sink') = Len(sink) + n
      /\ \A k \in 1..Len(sink) : sink'[k] = sink[k]
      /\ \A k \in 1..n : sink'[Len(sink) + k] = rows[k]
  <2>1. /\ sink \o rows \in Seq(CallRecord) /\ Len(sink \o rows) = Len(sink) + Len(rows)
        /\ \A k \in 1..Len(sink) : (sink \o rows)[k] = sink[k]
        /\ \A k \in 1..Len(rows) : (sink \o rows)[Len(sink) + k] = rows[k]
    BY <1>1, <1>3, Appended
  <2> QED
    BY <1>3, <1>6, <2>1
<1>8. OutcomesAfter(sink', Len(sink), n) = trail
  BY <1>5, <1>7 DEF OutcomesAfter
<1> QED
  BY <1>1, <1>4, <1>5, <1>7, <1>8

(* The invariant of the execution under way.                                *)
LEMMA ExecutionStep ==
  ASSUME TypeOK, ExecutionInv, [Next]_vars
  PROVE  ExecutionInv'
<1>0. N \in Nat /\ sink \in Seq(CallRecord) /\ Len(sink) \in Nat /\ failed \subseteq Jobs
  BY JobAssumption DEF TypeOK
<1>c. ASSUME Close PROVE ExecutionInv'
  BY <1>c DEF Close, ExecutionInv
<1>1. ASSUME NEW id \in RunIds, Execute(id) PROVE ExecutionInv'
  <2>1. Persisted' = Persisted /\ failed' = {} /\ sink' = <<>> /\ run_id' = id
    BY <1>1 DEF Execute, tables, Persisted, ExecutionInv, ClearSink
  <2>2. CASE Exists(id)
    <3>1. pc' = "commit" /\ session' = NoopSession'
      BY <1>1, <2>1, <2>2 DEF Execute, Exists, NoopSession, EmptySession, Log
    <3> QED
      BY <2>1, <2>2, <3>1 DEF ExecutionInv, Exists
  <2>3. CASE ~Exists(id)
    <3>1. pc' = "sentiment" /\ session' = StartSession'
      BY <1>1, <2>1, <2>3 DEF Execute, Exists, StartSession, EmptySession, Log, StartType
    <3> QED
      BY <2>1, <2>3, <3>1 DEF ExecutionInv, Exists
  <2> QED
    BY <2>2, <2>3
<1>2. CASE Sentiment
  <2>1. /\ run_id \in RunIds /\ run_id \notin Persisted /\ session = StartSession
        /\ sink = <<>> /\ failed = {}
    BY <1>2 DEF Sentiment, ExecutionInv
  <2>2. CASE Reason("sentiment", "synthesis") /\ pc' # "idle"
    <3>1. PICK trail \in Trails, outcome \in JobOutcomes :
             /\ JobKept(trail, outcome)
             /\ sink' = sink \o [k \in DOMAIN trail |->
                           [run |-> run_id, job |-> "sentiment", outcome |-> trail[k]]]
             /\ outcome # "raised"
             /\ failed' = IF outcome = "degraded" THEN failed \cup {"sentiment"} ELSE failed
             /\ pc' = "synthesis"
             /\ UNCHANGED <<session, run_id, tables>>
      BY <2>2 DEF Reason, Close
    <3>n. PICK n \in 0..N : trail \in [1..n -> Outcomes]
      BY DEF Trails
    <3>2. /\ sink' \in Seq(CallRecord) /\ Len(sink') = n /\ Len(sink) = 0
          /\ \A k \in 1..n : sink'[k].run = run_id /\ sink'[k].job = "sentiment"
          /\ OutcomesAfter(sink', 0, n) = trail
      <4>1. "sentiment" \in Jobs
        BY DEF Jobs
      <4> QED
        BY <2>1, <3>1, <3>n, <4>1, JobAppends
    <3>3. SentimentKept(sink', 0, Len(sink'), failed')
      BY <2>1, <3>1, <3>2 DEF SentimentKept, Recorded, JobOutcomes
    <3>4. /\ Persisted' = Persisted /\ StartSession' = StartSession
      BY <3>1 DEF tables, Persisted, StartSession, Log
    <3> QED
      BY <2>1, <3>1, <3>2, <3>3, <3>4 DEF ExecutionInv
  <2>3. CASE pc' = "synthesis" /\ UNCHANGED <<tables, session, sink, run_id, failed>>
    <3>1. /\ Persisted' = Persisted /\ StartSession' = StartSession
      BY <2>3 DEF tables, Persisted, StartSession, Log
    <3>2. SentimentKept(sink', 0, Len(sink'), failed')
      BY <2>1, <2>3 DEF SentimentKept
    <3> QED
      BY <1>0, <2>1, <2>3, <3>1, <3>2 DEF ExecutionInv
  <2> QED
    BY <1>2, <1>c, <2>2, <2>3 DEF Sentiment, Reason
<1>3. CASE Synthesis
  <2>1. /\ run_id \in RunIds /\ run_id \notin Persisted /\ session = StartSession
        /\ failed \subseteq {"sentiment"} /\ Len(sink) <= N
        /\ \A k \in DOMAIN sink : sink[k].job = "sentiment" /\ sink[k].run = run_id
        /\ SentimentKept(sink, 0, Len(sink), failed)
    BY <1>3 DEF Synthesis, ExecutionInv
  <2>2. CASE pc' # "idle"
    <3>1. PICK trail \in Trails, outcome \in JobOutcomes :
             /\ JobKept(trail, outcome)
             /\ sink' = sink \o [k \in DOMAIN trail |->
                           [run |-> run_id, job |-> "synthesis", outcome |-> trail[k]]]
             /\ outcome # "raised"
             /\ failed' = IF outcome = "degraded" THEN failed \cup {"synthesis"} ELSE failed
             /\ pc' = "persist"
             /\ UNCHANGED <<session, run_id, tables>>
      BY <1>3, <2>2 DEF Synthesis, Reason, Close
    <3>n. PICK n \in 0..N : trail \in [1..n -> Outcomes]
      BY DEF Trails
    <3>2. /\ sink' \in Seq(CallRecord) /\ Len(sink') = Len(sink) + n
          /\ \A k \in 1..Len(sink) : sink'[k] = sink[k]
          /\ \A k \in 1..n : /\ sink'[Len(sink) + k].run = run_id
                             /\ sink'[Len(sink) + k].job = "synthesis"
          /\ OutcomesAfter(sink', Len(sink), n) = trail
      <4>1. "synthesis" \in Jobs
        BY DEF Jobs
      <4>2. run_id \in RunIds
        BY <2>1
      <4> QED
        BY <3>1, <3>n, <4>1, <4>2, JobAppends
    <3>3. DOMAIN sink = 1..Len(sink) /\ DOMAIN sink' = 1..(Len(sink) + n) /\ n \in Nat
      BY <1>0, <3>2
    <3>4. SynthesisKept(sink', Len(sink), n, failed')
      BY <2>1, <3>1, <3>2 DEF SynthesisKept, Recorded, JobOutcomes
    <3>5. SentimentKept(sink', 0, Len(sink), failed')
      <4>1. "sentiment" \in failed' <=> "sentiment" \in failed
        BY <3>1
      <4>2. Recorded(sink, 0, Len(sink), "sentiment" \in failed)
               => Recorded(sink', 0, Len(sink), "sentiment" \in failed)
        BY <1>0, <3>2, SameRecords
      <4> QED
        BY <2>1, <4>1, <4>2 DEF SentimentKept
    <3>6. SinkKept'
      <4>1. PICK s \in 0..N : s = Len(sink)
        BY <1>0, <2>1
      <4>2. \A k \in 1..s : sink'[k].job = "sentiment"
        BY <2>1, <3>2, <3>3, <4>1
      <4>3. /\ Len(sink') = s + n
            /\ SentimentKept(sink', 0, s, failed')
            /\ SynthesisKept(sink', s, n, failed')
            /\ \A k \in 1..n : sink'[s + k].job = "synthesis"
        BY <3>2, <3>4, <3>5, <4>1
      <4> QED
        BY <4>2, <4>3 DEF SinkKept
    <3>7. \A k \in DOMAIN sink' : sink'[k].run = run_id
      <4> SUFFICES ASSUME NEW k \in DOMAIN sink' PROVE sink'[k].run = run_id
        OBVIOUS
      <4>1. CASE k <= Len(sink)
        BY <1>0, <2>1, <3>2, <3>3, <4>1
      <4>2. CASE k > Len(sink)
        <5>1. PICK j \in 1..n : k = Len(sink) + j
          <6>1. k - Len(sink) \in 1..n /\ k = Len(sink) + (k - Len(sink))
            BY <1>0, <3>3, <4>2
          <6> QED
            BY <6>1
        <5> QED
          BY <3>2, <5>1
      <4> QED
        BY <1>0, <3>3, <4>1, <4>2
    <3>8. /\ Persisted' = Persisted /\ StartSession' = StartSession
      BY <3>1 DEF tables, Persisted, StartSession, Log
    <3> QED
      BY <2>1, <3>1, <3>6, <3>7, <3>8 DEF ExecutionInv
  <2> QED
    BY <1>3, <1>c, <2>2 DEF Synthesis, Reason
<1>4. CASE Persist
  <2>1. run_id \notin Persisted /\ session = StartSession /\ SinkKept /\ run_id \in RunIds
        /\ \A k \in DOMAIN sink : sink[k].run = run_id
    BY <1>4 DEF Persist, ExecutionInv
  <2>2. /\ Persisted' = Persisted /\ SinkKept' = SinkKept /\ FinishedSession' = FinishedSession
        /\ UNCHANGED <<sink, run_id>> /\ pc' = "commit"
    BY <1>4 DEF Persist, tables, Persisted, SinkKept, FinishedSession, Status, IsDegraded,
                Log, FinishRows
  <2>3. session' = FinishedSession
    BY <1>4, <2>1 DEF Persist, StartSession, FinishedSession, EmptySession
  <2> QED
    BY <2>1, <2>2, <2>3 DEF ExecutionInv
<1>5. CASE StageFails \/ Commit \/ DatabaseError \/ Crash
  BY <1>5, <1>c DEF StageFails, Commit, DatabaseError, Crash, Rollback
<1>6. CASE UNCHANGED vars
  <2>1. /\ Persisted' = Persisted /\ StartSession' = StartSession
        /\ NoopSession' = NoopSession /\ FinishedSession' = FinishedSession
        /\ SinkKept' = SinkKept
    BY <1>6 DEF vars, tables, Persisted, StartSession, NoopSession,
                FinishedSession, FinishRows, SinkKept, Status, IsDegraded, Log
  <2> QED
    BY <1>6, <2>1 DEF vars, ExecutionInv
<1> QED
  BY <1>1, <1>2, <1>3, <1>4, <1>5, <1>6 DEF Next

-----------------------------------------------------------------------------
(* The rows a finished run adds to the log: its start, a provider_call row   *)
(* for each record of the sink, a degraded row if it is, its finish.         *)
LEMMA FinishedLog ==
  ASSUME sink \in Seq(CallRecord), run_id \in RunIds
  PROVE  LET log == FinishedSession.log
             calls == Len(sink)
             last == 2 + calls + (IF IsDegraded THEN 1 ELSE 0)
         IN  /\ log \in Seq(LogRow) /\ Len(log) = last /\ calls \in Nat
             /\ log[1] = Log(StartType)
             /\ \A k \in 1..calls : log[1 + k] = Log("provider_call")
             /\ IsDegraded => log[2 + calls] = Log("degraded")
             /\ log[last] = Log("run_finish")
             /\ FinishRows \in Seq(LogRow)
<1> DEFINE calls == Len(sink)
           start == <<Log(StartType)>>
           middle == IF IsDegraded THEN <<Log("degraded")>> ELSE <<>>
           finish == <<Log("run_finish")>>
           provider == [k \in DOMAIN sink |-> Log("provider_call")]
<1>1. \A type \in EventTypes : Log(type) \in LogRow
  BY DEF Log, LogRow
<1>2. StartType \in EventTypes /\ {"provider_call", "degraded", "run_finish"} \subseteq EventTypes
  BY DEF StartType, EventTypes
<1>3. calls \in Nat /\ DOMAIN sink = 1..calls
  OBVIOUS
<1>4. /\ provider \in Seq(LogRow) /\ Len(provider) = calls
      /\ \A k \in 1..calls : provider[k] = Log("provider_call")
  <2>1. provider \in [1..calls -> LogRow]
    BY <1>1, <1>2, <1>3
  <2> QED
    BY <1>3, <2>1
<1>5. /\ start \in Seq(LogRow) /\ Len(start) = 1 /\ start[1] = Log(StartType)
      /\ finish \in Seq(LogRow) /\ Len(finish) = 1 /\ finish[1] = Log("run_finish")
  BY <1>1, <1>2
<1>6. /\ middle \in Seq(LogRow) /\ Len(middle) = IF IsDegraded THEN 1 ELSE 0
      /\ IsDegraded => middle[1] = Log("degraded")
  BY <1>1, <1>2
<1>7. FinishedSession.log = start \o ((provider \o middle) \o finish)
      /\ FinishRows = (provider \o middle) \o finish
  BY DEF FinishedSession, FinishRows
<1> HIDE DEF start, middle, finish, provider, calls
<1>8. /\ provider \o middle \in Seq(LogRow)
      /\ Len(provider \o middle) = calls + (IF IsDegraded THEN 1 ELSE 0)
      /\ \A k \in 1..calls : (provider \o middle)[k] = Log("provider_call")
      /\ IsDegraded => (provider \o middle)[calls + 1] = Log("degraded")
  <2>0. provider \in Seq(LogRow) /\ middle \in Seq(LogRow)
    BY <1>4, <1>6
  <2>1. /\ provider \o middle \in Seq(LogRow)
        /\ Len(provider \o middle) = Len(provider) + Len(middle)
        /\ \A k \in 1..Len(provider) : (provider \o middle)[k] = provider[k]
        /\ \A k \in 1..Len(middle) : (provider \o middle)[Len(provider) + k] = middle[k]
    BY <2>0, Appended
  <2>2. IsDegraded => 1 \in 1..Len(middle)
    BY <1>6
  <2> QED
    BY <1>4, <1>6, <2>1, <2>2
<1> DEFINE most == (provider \o middle) \o finish
<1>9. /\ most \in Seq(LogRow)
      /\ Len(most) = calls + (IF IsDegraded THEN 1 ELSE 0) + 1
      /\ \A k \in 1..calls : most[k] = Log("provider_call")
      /\ IsDegraded => most[calls + 1] = Log("degraded")
      /\ most[calls + (IF IsDegraded THEN 1 ELSE 0) + 1] = Log("run_finish")
  <2> DEFINE pre == provider \o middle
  <2>0. pre \in Seq(LogRow) /\ finish \in Seq(LogRow)
    BY <1>5, <1>8
  <2>1. /\ pre \o finish \in Seq(LogRow) /\ Len(pre) \in Nat
        /\ Len(pre \o finish) = Len(pre) + Len(finish)
        /\ \A k \in 1..Len(pre) : (pre \o finish)[k] = pre[k]
        /\ \A k \in 1..Len(finish) : (pre \o finish)[Len(pre) + k] = finish[k]
    BY <2>0, Appended
  <2> HIDE DEF pre
  <2>2. /\ Len(pre) = calls + (IF IsDegraded THEN 1 ELSE 0)
        /\ \A k \in 1..calls : pre[k] = Log("provider_call")
        /\ IsDegraded => pre[calls + 1] = Log("degraded")
        /\ most = pre \o finish
    BY <1>8 DEF pre
  <2> HIDE DEF most
  <2>3. \A k \in 1..calls : k \in 1..Len(pre)
    BY <1>3, <2>2
  <2>4. IsDegraded => calls + 1 \in 1..Len(pre)
    BY <1>3, <2>2
  <2>5. 1 \in 1..Len(finish)
    BY <1>5
  <2> QED
    BY <1>5, <2>1, <2>2, <2>3, <2>4, <2>5
<1> HIDE DEF most
<1>10. /\ start \o most \in Seq(LogRow)
       /\ Len(start \o most) = 1 + Len(most)
       /\ (start \o most)[1] = Log(StartType)
       /\ \A k \in 1..Len(most) : (start \o most)[1 + k] = most[k]
  <2>0. start \in Seq(LogRow) /\ most \in Seq(LogRow)
    BY <1>5, <1>9
  <2>1. /\ start \o most \in Seq(LogRow)
        /\ Len(start \o most) = Len(start) + Len(most)
        /\ \A k \in 1..Len(start) : (start \o most)[k] = start[k]
        /\ \A k \in 1..Len(most) : (start \o most)[Len(start) + k] = most[k]
    BY <2>0, Appended
  <2>2. 1 \in 1..Len(start)
    BY <1>5
  <2> QED
    BY <1>5, <2>1, <2>2
<1>11. FinishedSession.log = start \o most /\ FinishRows = most
  BY <1>7 DEF most
<1> DEFINE last == 2 + calls + (IF IsDegraded THEN 1 ELSE 0)
<1>12. /\ \A k \in 1..calls : k \in 1..Len(most)
       /\ IsDegraded => calls + 1 \in 1..Len(most) /\ 1 + (calls + 1) = 2 + calls
       /\ calls + (IF IsDegraded THEN 1 ELSE 0) + 1 \in 1..Len(most)
       /\ 1 + (calls + (IF IsDegraded THEN 1 ELSE 0) + 1) = last
       /\ 1 + Len(most) = last
  BY <1>3, <1>9
<1> HIDE DEF last
<1>13. /\ (start \o most)[last] = Log("run_finish")
       /\ IsDegraded => (start \o most)[2 + calls] = Log("degraded")
       /\ \A k \in 1..calls : (start \o most)[1 + k] = Log("provider_call")
  BY <1>9, <1>10, <1>12
<1> QED
  BY <1>3, <1>9, <1>10, <1>11, <1>12, <1>13 DEF calls, last

(* Types, given what the session holds.                                     *)
LEMMA TypeStep ==
  ASSUME TypeOK, ExecutionInv, [Next]_vars
  PROVE  TypeOK'
<1> USE JobAssumption, RunServiceAssumption DEF TypeOK
<1>0. ASSUME NEW how \in Raised, run_id \in RunIds
      PROVE  Append(answers, [run |-> run_id, how |-> how]) \in Seq(Answer)
  <2>1. [run |-> run_id, how |-> how] \in Answer
    BY <1>0 DEF Answer
  <2> QED
    BY <2>1
<1>e. /\ EmptySession.runs = {} /\ EmptySession.calls = <<>> /\ EmptySession.log = <<>>
  BY DEF EmptySession
<1>c. ASSUME NEW how \in Raised, run_id \in RunIds, Rollback(how) PROVE TypeOK'
  BY <1>0, <1>c, <1>e DEF Rollback, Close, tables
<1>1. ASSUME NEW id \in RunIds, Execute(id) PROVE TypeOK'
  <2>1. PICK type \in EventTypes :
           session' = [EmptySession EXCEPT !.log = <<[run |-> id, type |-> type]>>]
    <3>1. StartType \in EventTypes /\ "scheduler" \in EventTypes
      BY DEF StartType, EventTypes
    <3> QED
      BY <1>1, <3>1 DEF Execute
  <2>2. [run |-> id, type |-> type] \in LogRow
    BY DEF LogRow
  <2>3. session'.log \in Seq(LogRow) /\ session'.runs = {} /\ session'.calls = <<>>
    BY <2>1, <2>2 DEF EmptySession
  <2>4. executions' \in 0..MaxExecutions
    BY <1>1 DEF Execute
  <2> QED
    BY <1>1, <2>3, <2>4 DEF Execute, ClearSink, tables
<1>2. ASSUME NEW job \in Jobs, NEW next \in {"synthesis", "persist"}, Reason(job, next),
             run_id \in RunIds, Len(sink) <= N
      PROVE  TypeOK'
  <2>1. PICK trail \in Trails, outcome \in JobOutcomes :
           /\ sink' = sink \o [k \in DOMAIN trail |->
                         [run |-> run_id, job |-> job, outcome |-> trail[k]]]
           /\ \/ /\ Close
                 /\ answers' = Append(answers, [run |-> run_id, how |-> "provider_error"])
              \/ /\ failed' = IF outcome = "degraded" THEN failed \cup {job} ELSE failed
                 /\ pc' = next
                 /\ UNCHANGED <<session, run_id, answers>>
           /\ UNCHANGED <<tables, executions>>
    BY <1>2 DEF Reason
  <2>2. PICK n \in 0..N : trail \in [1..n -> Outcomes]
    BY DEF Trails
  <2>3. sink' \in Seq(CallRecord) /\ Len(sink') = Len(sink) + n /\ Len(sink) \in Nat
    BY <1>2, <2>1, <2>2, JobAppends
  <2>4. Len(sink') <= 2 * N
    BY <1>2, <2>3
  <2>5. CASE Close /\ answers' = Append(answers, [run |-> run_id, how |-> "provider_error"])
    <3>1. "provider_error" \in Raised
      BY DEF Raised
    <3>2. answers' \in Seq(Answer)
      BY <1>0, <1>2, <2>5, <3>1
    <3>3. /\ session'.runs = {} /\ session'.calls = <<>> /\ session'.log = <<>>
          /\ pc' = "idle" /\ run_id' = NoRun /\ failed' = {}
      BY <1>e, <2>5 DEF Close
    <3>4. /\ UNCHANGED tables /\ executions' = executions
      BY <2>1
    <3> QED
      BY <2>3, <2>4, <3>2, <3>3, <3>4 DEF tables
  <2>6. CASE /\ failed' = IF outcome = "degraded" THEN failed \cup {job} ELSE failed
             /\ pc' = next
             /\ UNCHANGED <<session, run_id, answers>>
    BY <1>2, <2>1, <2>3, <2>4, <2>6 DEF tables
  <2> QED
    BY <2>1, <2>5, <2>6
<1>3. CASE Sentiment
  <2>1. run_id \in RunIds /\ Len(sink) <= N /\ "sentiment" \in Jobs
    BY <1>3 DEF Sentiment, ExecutionInv, Jobs
  <2>2. CASE Reason("sentiment", "synthesis")
    BY <1>2, <2>1, <2>2
  <2>3. CASE ~Reason("sentiment", "synthesis")
    BY <1>3, <2>3 DEF Sentiment, tables
  <2> QED
    BY <2>2, <2>3
<1>4. CASE Synthesis
  <2>1. run_id \in RunIds /\ Len(sink) <= N /\ "synthesis" \in Jobs
    BY <1>4 DEF Synthesis, ExecutionInv, Jobs
  <2> QED
    BY <1>2, <1>4, <2>1 DEF Synthesis
<1>5. CASE StageFails \/ DatabaseError
  <2>1. run_id \in RunIds /\ {"pipeline_error", "database_error"} \subseteq Raised
    BY <1>5 DEF StageFails, DatabaseError, ExecutionInv, Raised
  <2> QED
    BY <1>5, <1>c, <2>1 DEF StageFails, DatabaseError
<1>6. CASE Persist
  <2>1. run_id \in RunIds /\ session = StartSession
    BY <1>6 DEF Persist, ExecutionInv
  <2>2. session' = FinishedSession
    BY <1>6, <2>1 DEF Persist, StartSession, FinishedSession, EmptySession
  <2>3. FinishedSession.log \in Seq(LogRow)
    BY <2>1, FinishedLog
  <2>4. FinishedSession.runs \subseteq RunRow /\ FinishedSession.calls = sink
    BY <2>1 DEF FinishedSession, RunRow, Status, Statuses
  <2> QED
    BY <1>6, <2>2, <2>3, <2>4 DEF Persist, tables
<1>7. CASE Commit
  <2>1. run_id \in RunIds /\ session.inputs \subseteq {run_id} /\ session.outputs \subseteq {run_id}
    <3>1. run_id \in RunIds /\ (session = NoopSession \/ session = FinishedSession)
      BY <1>7 DEF Commit, ExecutionInv
    <3>2. NoopSession.inputs = {} /\ NoopSession.outputs = {}
      BY DEF NoopSession, EmptySession
    <3>3. FinishedSession.inputs = {run_id} /\ FinishedSession.outputs = {run_id}
      BY DEF FinishedSession
    <3> QED
      BY <3>1, <3>2, <3>3
  <2>2. [run |-> run_id, how |-> IF session.runs = {} THEN "exists" ELSE Status] \in Answer
    BY <2>1 DEF Answer, Status, Statuses
  <2>3. answers' \in Seq(Answer)
    BY <1>7, <2>2 DEF Commit
  <2>4. call_records' \in Seq(CallRecord) /\ event_log' \in Seq(LogRow)
    BY <1>7 DEF Commit
  <2> QED
    BY <1>7, <1>e, <2>1, <2>3, <2>4 DEF Commit, Close
<1>8. CASE Crash
  BY <1>8, <1>e DEF Crash, Close, tables
<1>9. CASE UNCHANGED vars
  BY <1>9 DEF vars, tables
<1> QED
  BY <1>1, <1>3, <1>4, <1>5, <1>6, <1>7, <1>8, <1>9 DEF Next

-----------------------------------------------------------------------------
(* The tables.  A commit appends to two of them; what it appends is of one  *)
(* run.                                                                     *)
LEMMA CallsAppended ==
  ASSUME call_records \in Seq(CallRecord), NEW new \in Seq(CallRecord),
         call_records' = call_records \o new
  PROVE  LET L == Len(call_records) IN
         /\ L \in Nat /\ Len(new) \in Nat /\ Len(call_records') = L + Len(new)
         /\ DOMAIN call_records = 1..L /\ DOMAIN call_records' = 1..(L + Len(new))
         /\ \A k \in DOMAIN call_records :
               k \in DOMAIN call_records' /\ call_records'[k] = call_records[k]
         /\ \A k \in 1..Len(new) : call_records'[L + k] = new[k]
         /\ \A i \in DOMAIN call_records' :
               i \in DOMAIN call_records \/ \E k \in 1..Len(new) : i = L + k
<1> DEFINE L == Len(call_records)
<1>1. /\ L \in Nat /\ Len(new) \in Nat
      /\ Len(call_records \o new) = L + Len(new)
      /\ DOMAIN (call_records \o new) = 1..(L + Len(new))
      /\ \A k \in 1..L : (call_records \o new)[k] = call_records[k]
      /\ \A k \in 1..Len(new) : (call_records \o new)[L + k] = new[k]
  BY Appended
<1>2. DOMAIN call_records = 1..L
  OBVIOUS
<1> HIDE DEF L
<1>3. ASSUME NEW i \in 1..(L + Len(new)), i \notin 1..L
      PROVE  \E k \in 1..Len(new) : i = L + k
  <2>1. i - L \in 1..Len(new) /\ i = L + (i - L)
    BY <1>1, <1>3
  <2> QED
    BY <2>1
<1>4. /\ DOMAIN call_records' = 1..(L + Len(new)) /\ Len(call_records') = L + Len(new)
      /\ \A k \in 1..L : k \in 1..(L + Len(new)) /\ call_records'[k] = call_records[k]
      /\ \A k \in 1..Len(new) : call_records'[L + k] = new[k]
  BY <1>1
<1> QED
  BY <1>1, <1>2, <1>3, <1>4 DEF L

LEMMA RowsAppended ==
  ASSUME event_log \in Seq(LogRow), NEW new \in Seq(LogRow),
         event_log' = event_log \o new
  PROVE  LET L == Len(event_log) IN
         /\ L \in Nat /\ Len(new) \in Nat /\ Len(event_log') = L + Len(new)
         /\ DOMAIN event_log = 1..L /\ DOMAIN event_log' = 1..(L + Len(new))
         /\ \A k \in DOMAIN event_log :
               k \in DOMAIN event_log' /\ event_log'[k] = event_log[k]
         /\ \A k \in 1..Len(new) : event_log'[L + k] = new[k]
         /\ \A i \in DOMAIN event_log' :
               i \in DOMAIN event_log \/ \E k \in 1..Len(new) : i = L + k
<1> DEFINE L == Len(event_log)
<1>1. /\ L \in Nat /\ Len(new) \in Nat
      /\ Len(event_log \o new) = L + Len(new)
      /\ DOMAIN (event_log \o new) = 1..(L + Len(new))
      /\ \A k \in 1..L : (event_log \o new)[k] = event_log[k]
      /\ \A k \in 1..Len(new) : (event_log \o new)[L + k] = new[k]
  BY Appended
<1>2. DOMAIN event_log = 1..L
  OBVIOUS
<1> HIDE DEF L
<1>3. ASSUME NEW i \in 1..(L + Len(new)), i \notin 1..L
      PROVE  \E k \in 1..Len(new) : i = L + k
  <2>1. i - L \in 1..Len(new) /\ i = L + (i - L)
    BY <1>1, <1>3
  <2> QED
    BY <2>1
<1>4. /\ DOMAIN event_log' = 1..(L + Len(new)) /\ Len(event_log') = L + Len(new)
      /\ \A k \in 1..L : k \in 1..(L + Len(new)) /\ event_log'[k] = event_log[k]
      /\ \A k \in 1..Len(new) : event_log'[L + k] = new[k]
  BY <1>1
<1> QED
  BY <1>1, <1>2, <1>3, <1>4 DEF L

(* A run keeps what the tables hold of it while others are added.           *)
LEMMA OldRowKept ==
  ASSUME TypeOK, NEW row, RowKept(row),
         \A job \in Jobs : CallsOf(row.run, job)' = CallsOf(row.run, job),
         \A types : "scheduler" \notin types =>
                       RowsOf(row.run, types)' = RowsOf(row.run, types),
         \A k \in DOMAIN call_records : call_records'[k] = call_records[k],
         Len(call_records') \in Nat, Len(call_records') >= Len(call_records),
         Len(event_log') \in Nat, Len(event_log') >= Len(event_log)
  PROVE  RowKept(row)'
<1>0. /\ Len(call_records) \in Nat /\ DOMAIN call_records = 1..Len(call_records)
      /\ Len(event_log) \in Nat /\ N \in Nat
  BY JobAssumption DEF TypeOK
<1>1. PICK calls \in 0..Len(call_records), rows \in 0..Len(event_log), s \in 0..N, n \in 0..N,
           jobs \in SUBSET Jobs :
         /\ row.status = "degraded" <=> jobs # {}
         /\ CallsKept(row.run, calls, s, n, jobs)
         /\ LogKept(row.run, rows, s + n, jobs # {})
  BY DEF RowKept
<1>2. calls \in 0..Len(call_records') /\ rows \in 0..Len(event_log')
  BY <1>0
<1>3. LogKept(row.run, rows, s + n, jobs # {})'
  BY <1>1 DEF LogKept
<1>4. \A job \in Jobs : CallsOf(row.run, job) \subseteq DOMAIN call_records
  BY DEF CallsOf
<1>5. "sentiment" \in Jobs /\ "synthesis" \in Jobs
  BY DEF Jobs
<1>6. \A k \in 1..s : call_records[calls + k] = call_records'[calls + k]
  <2>1. \A k \in 1..s : calls + k \in (calls + 1)..(calls + s)
    BY <1>0
  <2>2. \A k \in 1..s : calls + k \in DOMAIN call_records
    BY <1>1, <1>4, <1>5, <2>1 DEF CallsKept
  <2> QED
    BY <2>2
<1>7. \A k \in 1..n : call_records[calls + s + k] = call_records'[calls + s + k]
  <2>1. \A k \in 1..n : calls + s + k \in (calls + s + 1)..(calls + s + n)
    BY <1>0
  <2>2. \A k \in 1..n : calls + s + k \in DOMAIN call_records
    BY <1>1, <1>4, <1>5, <2>1 DEF CallsKept
  <2> QED
    BY <2>2
<1>8. s \in Nat /\ n \in Nat
  BY <1>0
<1>9. CallsKept(row.run, calls, s, n, jobs)'
  <2>1. SentimentKept(call_records, calls, s, jobs)'
    BY <1>1, <1>6, <1>8, SameRecords DEF CallsKept, SentimentKept
  <2>2. SynthesisKept(call_records, calls + s, n, jobs)'
    BY <1>1, <1>7, <1>8, SameRecords DEF CallsKept, SynthesisKept
  <2> QED
    BY <1>1, <1>5, <2>1, <2>2 DEF CallsKept
<1> QED
  BY <1>1, <1>2, <1>3, <1>9 DEF RowKept

(* The run just committed, whose rows come after all that was there.        *)
LEMMA NewCallsKept ==
  ASSUME TypeOK, NEW id, NEW first, first = Len(call_records),
         \A k \in DOMAIN sink : sink[k].run = id,
         \A job \in Jobs : CallsOf(id, job) = {},
         call_records' = call_records \o sink,
         NEW s \in 0..N, NEW n \in 0..N, NEW jobs, Len(sink) = s + n,
         \A k \in 1..s : sink[k].job = "sentiment",
         \A k \in 1..n : sink[s + k].job = "synthesis",
         SentimentKept(sink, 0, s, jobs), SynthesisKept(sink, s, n, jobs)
  PROVE  CallsKept(id, first, s, n, jobs)'
<1>0. /\ s \in Nat /\ n \in Nat /\ sink \in Seq(CallRecord) /\ DOMAIN sink = 1..(s + n)
      /\ call_records \in Seq(CallRecord)
  BY JobAssumption DEF TypeOK
<1>1. /\ first \in Nat
      /\ DOMAIN call_records = 1..first
      /\ DOMAIN call_records' = 1..(first + (s + n))
      /\ \A k \in DOMAIN call_records : call_records'[k] = call_records[k]
      /\ \A k \in 1..(s + n) : call_records'[first + k] = sink[k]
      /\ \A i \in DOMAIN call_records' :
            i \in DOMAIN call_records \/ \E k \in 1..(s + n) : i = first + k
  <2>1. LET L == Len(call_records) IN
        /\ L \in Nat
        /\ DOMAIN call_records = 1..L /\ DOMAIN call_records' = 1..(L + Len(sink))
        /\ \A k \in DOMAIN call_records : call_records'[k] = call_records[k]
        /\ \A k \in 1..Len(sink) : call_records'[L + k] = sink[k]
        /\ \A i \in DOMAIN call_records' :
              i \in DOMAIN call_records \/ \E k \in 1..Len(sink) : i = L + k
    BY <1>0, CallsAppended
  <2> QED
    BY <2>1
<1>2. \A i \in DOMAIN call_records, job \in Jobs :
         ~(call_records'[i].run = id /\ call_records'[i].job = job)
  BY <1>1 DEF CallsOf
<1>3. \A k \in 1..(s + n) :
         /\ sink[k].run = id
         /\ k <= s => sink[k].job = "sentiment"
         /\ k > s => sink[k].job = "synthesis"
  <2>1. ASSUME NEW k \in 1..(s + n), k > s PROVE sink[k].job = "synthesis"
    <3>1. k - s \in 1..n /\ s + (k - s) = k
      BY <1>0, <2>1
    <3> QED
      BY <3>1
  <2>2. ASSUME NEW k \in 1..(s + n), k <= s PROVE sink[k].job = "sentiment"
    BY <1>0, <2>2
  <2>3. \A k \in 1..(s + n) : sink[k].run = id
    BY <1>0
  <2> QED
    BY <2>1, <2>2, <2>3
<1>4. CallsOf(id, "sentiment")' = (first + 1)..(first + s)
  <2>1. ASSUME NEW i \in CallsOf(id, "sentiment")' PROVE i \in (first + 1)..(first + s)
    <3>1. i \in DOMAIN call_records' /\ call_records'[i].run = id /\ call_records'[i].job = "sentiment"
      BY <2>1 DEF CallsOf
    <3>2. PICK k \in 1..(s + n) : i = first + k
      BY <1>1, <1>2, <3>1 DEF Jobs
    <3>3. k <= s
      <4>1. sink[k].job = "sentiment"
        BY <1>1, <3>1, <3>2
      <4>2. ~(k > s)
        BY <1>3, <4>1
      <4> QED
        BY <1>0, <4>2
    <3> QED
      BY <1>0, <1>1, <3>2, <3>3
  <2>2. ASSUME NEW i \in (first + 1)..(first + s) PROVE i \in CallsOf(id, "sentiment")'
    <3>1. PICK k \in 1..(s + n) : k <= s /\ i = first + k
      <4>1. i - first \in 1..(s + n) /\ i - first <= s /\ i = first + (i - first)
        BY <1>0, <1>1
      <4> QED
        BY <4>1
    <3>2. first + k \in 1..(first + (s + n))
      BY <1>0, <1>1
    <3> QED
      BY <1>1, <1>3, <3>1, <3>2 DEF CallsOf
  <2> QED
    BY <2>1, <2>2
<1>5. CallsOf(id, "synthesis")' = (first + s + 1)..(first + s + n)
  <2>1. ASSUME NEW i \in CallsOf(id, "synthesis")' PROVE i \in (first + s + 1)..(first + s + n)
    <3>1. i \in DOMAIN call_records' /\ call_records'[i].run = id /\ call_records'[i].job = "synthesis"
      BY <2>1 DEF CallsOf
    <3>2. PICK k \in 1..(s + n) : i = first + k
      BY <1>1, <1>2, <3>1 DEF Jobs
    <3>3. k > s
      <4>1. sink[k].job = "synthesis"
        BY <1>1, <3>1, <3>2
      <4>2. ~(k <= s)
        BY <1>3, <4>1
      <4> QED
        BY <1>0, <4>2
    <3> QED
      BY <1>0, <1>1, <3>2, <3>3
  <2>2. ASSUME NEW i \in (first + s + 1)..(first + s + n) PROVE i \in CallsOf(id, "synthesis")'
    <3>1. PICK k \in 1..(s + n) : k > s /\ i = first + k
      <4>1. i - first \in 1..(s + n) /\ i - first > s /\ i = first + (i - first)
        BY <1>0, <1>1
      <4> QED
        BY <4>1
    <3>2. first + k \in 1..(first + (s + n))
      BY <1>0, <1>1
    <3> QED
      BY <1>1, <1>3, <3>1, <3>2 DEF CallsOf
  <2> QED
    BY <2>1, <2>2
<1>6. SentimentKept(call_records, first, s, jobs)'
  <2>1. \A k \in 1..s : sink[0 + k] = call_records'[first + k]
    BY <1>0, <1>1
  <2>2. ASSUME NEW isFailed, Recorded(sink, 0, s, isFailed)
        PROVE  Recorded(call_records, first, s, isFailed)'
    BY <1>0, <2>1, <2>2, SameRecords
  <2> QED
    BY <2>2 DEF SentimentKept
<1>7. SynthesisKept(call_records, first + s, n, jobs)'
  <2>1. \A k \in 1..n : sink[s + k] = call_records'[first + s + k]
    <3> SUFFICES ASSUME NEW k \in 1..n PROVE sink[s + k] = call_records'[first + s + k]
      OBVIOUS
    <3>1. s + k \in 1..(s + n) /\ first + (s + k) = first + s + k
      BY <1>0, <1>1
    <3> QED
      BY <1>1, <3>1
  <2>2. ASSUME NEW isFailed, Recorded(sink, s, n, isFailed)
        PROVE  Recorded(call_records, first + s, n, isFailed)'
    BY <1>0, <2>1, <2>2, SameRecords
  <2> QED
    BY <2>2 DEF SynthesisKept
<1> QED
  BY <1>4, <1>5, <1>6, <1>7 DEF CallsKept

LEMMA NewLogKept ==
  ASSUME TypeOK, run_id \in RunIds, NEW id, id = run_id, NEW first, first = Len(event_log),
         RowsOf(id, EventTypes) = {},
         event_log' = event_log \o FinishedSession.log,
         NEW calls, calls = Len(sink), NEW isDegraded, isDegraded = IsDegraded
  PROVE  LogKept(id, first, calls, isDegraded)'
<1> DEFINE log == FinishedSession.log
           last == 2 + calls + (IF isDegraded THEN 1 ELSE 0)
<1>0. event_log \in Seq(LogRow) /\ sink \in Seq(CallRecord)
  BY DEF TypeOK
<1>1. /\ log \in Seq(LogRow) /\ Len(log) = last /\ calls \in Nat
      /\ log[1] = Log(StartType)
      /\ \A k \in 1..calls : log[1 + k] = Log("provider_call")
      /\ isDegraded => log[2 + calls] = Log("degraded")
      /\ log[last] = Log("run_finish")
  BY <1>0, FinishedLog
<1> HIDE DEF log
<1>2. /\ first \in Nat
      /\ DOMAIN event_log = 1..first
      /\ DOMAIN event_log' = 1..(first + last)
      /\ \A k \in DOMAIN event_log : event_log'[k] = event_log[k]
      /\ \A k \in 1..last : event_log'[first + k] = log[k]
      /\ \A i \in DOMAIN event_log' :
            i \in DOMAIN event_log \/ \E k \in 1..last : i = first + k
  <2>1. event_log' = event_log \o log
    BY DEF log
  <2>2. LET L == Len(event_log) IN
        /\ L \in Nat
        /\ DOMAIN event_log = 1..L /\ DOMAIN event_log' = 1..(L + Len(log))
        /\ \A k \in DOMAIN event_log : event_log'[k] = event_log[k]
        /\ \A k \in 1..Len(log) : event_log'[L + k] = log[k]
        /\ \A i \in DOMAIN event_log' :
              i \in DOMAIN event_log \/ \E k \in 1..Len(log) : i = L + k
    BY <1>0, <1>1, <2>1, RowsAppended
  <2>3. Len(log) = last
    BY <1>1
  <2> HIDE DEF last
  <2> QED
    BY <2>2, <2>3
<1>3. \A i \in DOMAIN event_log : event_log'[i].run # id
  <2>1. \A i \in DOMAIN event_log : event_log[i].type \in EventTypes
    <3>1. \A i \in DOMAIN event_log : event_log[i] \in LogRow
      BY <1>0
    <3> QED
      BY <3>1 DEF LogRow
  <2> QED
    BY <1>2, <2>1 DEF RowsOf
<1>4. last \in Nat /\ last >= 2 + calls
      /\ (isDegraded => last = 3 + calls) /\ (~isDegraded => last = 2 + calls)
  BY <1>1
<1> HIDE DEF last
\* The types of the new rows, by their places.
<1> DEFINE TypeAt(k) == IF k = 1 THEN StartType
                        ELSE IF k <= 1 + calls THEN "provider_call"
                        ELSE IF k < last THEN "degraded" ELSE "run_finish"
<1>t. \A k \in 1..last : log[k] = Log(TypeAt(k))
  <2> SUFFICES ASSUME NEW k \in 1..last PROVE log[k] = Log(TypeAt(k))
    OBVIOUS
  <2>1. CASE k = 1
    BY <1>1, <2>1
  <2>2. CASE k # 1 /\ k <= 1 + calls
    <3>1. k - 1 \in 1..calls /\ 1 + (k - 1) = k
      BY <1>1, <1>4, <2>2
    <3> QED
      BY <1>1, <2>2, <3>1
  <2>3. CASE k > 1 + calls /\ k < last
    <3>1. isDegraded /\ k = 2 + calls /\ k # 1
      BY <1>1, <1>4, <2>3
    <3> QED
      BY <1>1, <1>4, <2>3, <3>1
  <2>4. CASE k > 1 + calls /\ ~(k < last)
    <3>1. k = last /\ k # 1
      BY <1>1, <1>4, <2>4
    <3> QED
      BY <1>1, <1>4, <2>4, <3>1
  <2> QED
    BY <1>1, <1>4, <2>1, <2>2, <2>3, <2>4
<1>5. \A k \in 1..last : log[k].run = id /\ log[k].type = TypeAt(k)
  <2> SUFFICES ASSUME NEW k \in 1..last PROVE log[k].run = id /\ log[k].type = TypeAt(k)
    OBVIOUS
  <2>1. PICK type : type = TypeAt(k)
    OBVIOUS
  <2>2. log[k] = Log(type)
    BY <1>t, <2>1
  <2> HIDE DEF TypeAt
  <2> QED
    BY <2>1, <2>2 DEF Log
<1> HIDE DEF TypeAt
<1>6. ASSUME NEW i, NEW types
      PROVE  i \in RowsOf(id, types)' <=>
                \E k \in 1..last : i = first + k /\ log[k].type \in types
  <2>1. \A k \in 1..last : first + k \in DOMAIN event_log'
    BY <1>2, <1>4
  <2>2. ASSUME i \in RowsOf(id, types)'
        PROVE  \E k \in 1..last : i = first + k /\ log[k].type \in types
    <3>1. /\ i \in DOMAIN event_log' /\ event_log'[i].run = id
          /\ event_log'[i].type \in types
      BY <2>2 DEF RowsOf
    <3> QED
      BY <1>2, <1>3, <3>1
  <2>3. ASSUME NEW k \in 1..last, i = first + k, log[k].type \in types
        PROVE  i \in RowsOf(id, types)'
    <3>1. /\ i \in DOMAIN event_log' /\ event_log'[i].run = id
          /\ event_log'[i].type \in types
      BY <1>2, <1>5, <2>1, <2>3
    <3> QED
      BY <3>1 DEF RowsOf
  <2> QED
    BY <2>2, <2>3
<1>7. StartType \in {"run_start", "replay"}
  BY DEF StartType
<1>8. RowsOf(id, {"run_start", "replay"})' = {first + 1}
  <2>1. \A k \in 1..last : log[k].type \in {"run_start", "replay"} <=> k = 1
    BY <1>5, <1>7 DEF TypeAt
  <2>2. 1 \in 1..last
    BY <1>1, <1>4
  <2> QED
    BY <1>6, <2>1, <2>2
<1>9. RowsOf(id, {"provider_call"})' = (first + 2)..(first + 1 + calls)
  <2>1. \A k \in 1..last : log[k].type \in {"provider_call"} <=> k # 1 /\ k <= 1 + calls
    BY <1>5, <1>7 DEF TypeAt
  <2>2. ASSUME NEW i PROVE (\E k \in 1..last : i = first + k /\ k # 1 /\ k <= 1 + calls)
                              <=> i \in (first + 2)..(first + 1 + calls)
    <3>1. ASSUME i \in (first + 2)..(first + 1 + calls)
          PROVE  \E k \in 1..last : i = first + k /\ k # 1 /\ k <= 1 + calls
      <4>1. i - first \in 1..last /\ i = first + (i - first) /\ i - first # 1
            /\ i - first <= 1 + calls
        BY <1>1, <1>2, <1>4, <3>1
      <4> QED
        BY <4>1
    <3>2. ASSUME NEW k \in 1..last, i = first + k /\ k # 1 /\ k <= 1 + calls
          PROVE  i \in (first + 2)..(first + 1 + calls)
      BY <1>1, <1>2, <1>4, <3>2
    <3> QED
      BY <3>1, <3>2
  <2>3. ASSUME NEW i
        PROVE  i \in RowsOf(id, {"provider_call"})' <=> i \in (first + 2)..(first + 1 + calls)
    <3>1. i \in RowsOf(id, {"provider_call"})' <=>
             \E k \in 1..last : i = first + k /\ log[k].type \in {"provider_call"}
      BY <1>6
    <3> QED
      BY <2>1, <2>2, <3>1
  <2> QED
    BY <2>3
<1>10. RowsOf(id, {"degraded"})' = IF isDegraded THEN {first + 2 + calls} ELSE {}
  <2>1. \A k \in 1..last : log[k].type \in {"degraded"} <=> k > 1 + calls /\ k < last
    BY <1>1, <1>4, <1>5, <1>7 DEF TypeAt
  <2>2. \A k \in 1..last : k > 1 + calls /\ k < last <=> isDegraded /\ k = 2 + calls
    BY <1>1, <1>4
  <2>3. isDegraded => 2 + calls \in 1..last /\ first + 2 + calls = first + (2 + calls)
    BY <1>1, <1>2, <1>4
  <2>4. ASSUME NEW i
        PROVE  i \in RowsOf(id, {"degraded"})' <=> isDegraded /\ i = first + 2 + calls
    <3>1. i \in RowsOf(id, {"degraded"})' <=>
             \E k \in 1..last : i = first + k /\ log[k].type \in {"degraded"}
      BY <1>6
    <3> QED
      BY <2>1, <2>2, <2>3, <3>1
  <2> QED
    BY <2>4
<1>11. RowsOf(id, {"run_finish"})' = {first + 2 + calls + (IF isDegraded THEN 1 ELSE 0)}
  <2>1. \A k \in 1..last : log[k].type \in {"run_finish"} <=> k = last
    BY <1>1, <1>4, <1>5, <1>7 DEF TypeAt
  <2>2. last \in 1..last /\ first + last = first + 2 + calls + (IF isDegraded THEN 1 ELSE 0)
    BY <1>1, <1>2, <1>4 DEF last
  <2>3. ASSUME NEW i
        PROVE  i \in RowsOf(id, {"run_finish"})' <=> i = first + last
    <3>1. i \in RowsOf(id, {"run_finish"})' <=>
             \E k \in 1..last : i = first + k /\ log[k].type \in {"run_finish"}
      BY <1>6
    <3> QED
      BY <2>1, <2>2, <3>1
  <2> QED
    BY <2>2, <2>3
<1> QED
  BY <1>8, <1>9, <1>10, <1>11 DEF LogKept

LEMMA LogIsOfRun ==
  ASSUME sink \in Seq(CallRecord), run_id \in RunIds
  PROVE  \A k \in 1..Len(FinishedSession.log) : FinishedSession.log[k].run = run_id
<1> DEFINE log == FinishedSession.log
           calls == Len(sink)
           last == 2 + calls + (IF IsDegraded THEN 1 ELSE 0)
<1>1. /\ Len(log) = last /\ calls \in Nat
      /\ log[1] = Log(StartType)
      /\ \A k \in 1..calls : log[1 + k] = Log("provider_call")
      /\ IsDegraded => log[2 + calls] = Log("degraded")
      /\ log[last] = Log("run_finish")
  BY FinishedLog
<1>2. \A type : Log(type).run = run_id
  BY DEF Log
<1> HIDE DEF log
<1>3. ASSUME NEW k \in 1..last PROVE log[k].run = run_id
  <2>1. CASE k = 1 \/ k = last
    BY <1>1, <1>2, <2>1
  <2>2. CASE k # 1 /\ k # last /\ k <= 1 + calls
    <3>1. k - 1 \in 1..calls /\ 1 + (k - 1) = k
      BY <1>1, <2>2
    <3> QED
      BY <1>1, <1>2, <3>1
  <2>3. CASE k # 1 /\ k # last /\ k > 1 + calls
    <3>1. IsDegraded /\ k = 2 + calls
      BY <1>1, <2>3
    <3> QED
      BY <1>1, <1>2, <3>1
  <2> QED
    BY <1>1, <2>1, <2>2, <2>3
<1> QED
  BY <1>1, <1>3 DEF log

LEMMA TablesStep ==
  ASSUME TypeOK, ExecutionInv, TablesInv, [Next]_vars
  PROVE  TablesInv'
<1>0. /\ call_records \in Seq(CallRecord) /\ event_log \in Seq(LogRow)
      /\ sink \in Seq(CallRecord) /\ runs \subseteq RunRow
      /\ Len(call_records) \in Nat /\ Len(event_log) \in Nat
  BY DEF TypeOK
<1>k. ASSUME UNCHANGED tables PROVE TablesInv'
  <2>1. /\ UNCHANGED <<call_records, event_log, runs, run_inputs, run_outputs>>
        /\ Persisted' = Persisted
    BY <1>k DEF tables, Persisted
  <2>2. ASSUME NEW id PROVE /\ \A job : CallsOf(id, job)' = CallsOf(id, job)
                            /\ \A types : RowsOf(id, types)' = RowsOf(id, types)
    BY <2>1 DEF CallsOf, RowsOf
  <2>3. ASSUME NEW row \in runs PROVE RowKept(row)'
    <3>1. /\ \A job \in Jobs : CallsOf(row.run, job)' = CallsOf(row.run, job)
          /\ \A types : "scheduler" \notin types =>
                           RowsOf(row.run, types)' = RowsOf(row.run, types)
      BY <2>2
    <3>2. RowKept(row)
      BY DEF TablesInv
    <3> QED
      BY <1>0, <2>1, <3>1, <3>2, OldRowKept
  <2> QED
    BY <2>1, <2>2, <2>3 DEF TablesInv
<1>1. CASE Commit
  <2>1. /\ pc = "commit" /\ run_id \in RunIds
        /\ runs' = runs \cup session.runs
        /\ run_inputs' = run_inputs \cup session.inputs
        /\ run_outputs' = run_outputs \cup session.outputs
        /\ call_records' = call_records \o session.calls
        /\ event_log' = event_log \o session.log
    BY <1>1 DEF Commit, ExecutionInv
  <2>2. CASE run_id \in Persisted /\ session = NoopSession
    <3>1. /\ session.runs = {} /\ session.inputs = {} /\ session.outputs = {}
          /\ session.calls = <<>> /\ session.log = <<Log("scheduler")>>
      BY <2>2 DEF NoopSession, EmptySession
    <3>2. /\ runs' = runs /\ run_inputs' = run_inputs /\ run_outputs' = run_outputs
          /\ call_records' = call_records /\ Persisted' = Persisted
      BY <1>0, <2>1, <3>1 DEF Persisted
    <3> DEFINE new == <<Log("scheduler")>>
    <3>3. new \in Seq(LogRow) /\ Len(new) = 1 /\ new[1] = Log("scheduler")
      BY <2>1 DEF Log, LogRow, EventTypes
    <3>4. event_log' = event_log \o new
      BY <2>1, <3>1
    <3> HIDE DEF new
    <3>5. /\ Len(event_log') = Len(event_log) + Len(new)
          /\ \A k \in DOMAIN event_log : k \in DOMAIN event_log' /\ event_log'[k] = event_log[k]
          /\ \A k \in 1..Len(new) : event_log'[Len(event_log) + k] = new[k]
          /\ \A i \in DOMAIN event_log' :
                i \in DOMAIN event_log \/ \E k \in 1..Len(new) : i = Len(event_log) + k
      BY <1>0, <3>3, <3>4, RowsAppended
    <3>6. \A i \in DOMAIN event_log' :
             \/ i \in DOMAIN event_log
             \/ event_log'[i].run = run_id /\ event_log'[i].type = "scheduler"
      <4>1. new[1].run = run_id /\ new[1].type = "scheduler" /\ 1..Len(new) = {1}
        BY <3>3 DEF Log
      <4> QED
        BY <3>5, <4>1
    <3>7. ASSUME NEW id, NEW types, id # run_id \/ "scheduler" \notin types
          PROVE  RowsOf(id, types)' = RowsOf(id, types)
      BY <3>5, <3>6, <3>7 DEF RowsOf
    <3>8. ASSUME NEW id PROVE \A job : CallsOf(id, job)' = CallsOf(id, job)
      BY <3>2 DEF CallsOf
    <3>9. Len(event_log') \in Nat /\ Len(event_log') >= Len(event_log)
      BY <1>0, <3>3, <3>5
    <3>10. ASSUME NEW row \in runs PROVE RowKept(row)'
      <4>1. /\ \A job \in Jobs : CallsOf(row.run, job)' = CallsOf(row.run, job)
            /\ \A types : "scheduler" \notin types =>
                             RowsOf(row.run, types)' = RowsOf(row.run, types)
        BY <3>7, <3>8
      <4>2. RowKept(row)
        BY DEF TablesInv
      <4> QED
        BY <1>0, <3>2, <3>9, <4>1, <4>2, OldRowKept
    <3>11. \A id \in RunIds \ Persisted :
              /\ RowsOf(id, EventTypes)' = {}
              /\ \A job \in Jobs : CallsOf(id, job)' = {}
      BY <2>2, <3>7, <3>8 DEF TablesInv
    <3>12. EventTypes' = EventTypes /\ Jobs' = Jobs
      OBVIOUS
    <3> QED
      BY <3>2, <3>10, <3>11 DEF TablesInv
  <2>3. CASE run_id \notin Persisted /\ session = FinishedSession
    <3>1. SinkKept /\ \A k \in DOMAIN sink : sink[k].run = run_id
      <4>1. session # NoopSession
        BY <2>3 DEF FinishedSession, NoopSession, EmptySession
      <4> QED
        BY <2>1, <2>3, <4>1 DEF ExecutionInv
    <3>n. PICK id \in RunIds \ Persisted : id = run_id
      BY <2>1, <2>3
    <3>r. PICK row : row = [run |-> id, status |-> Status]
      OBVIOUS
    <3>2. /\ runs' = runs \cup {row}
          /\ run_inputs' = run_inputs \cup {id}
          /\ run_outputs' = run_outputs \cup {id}
          /\ call_records' = call_records \o sink
          /\ event_log' = event_log \o FinishedSession.log
      BY <2>1, <2>3, <3>n, <3>r DEF FinishedSession
    <3>3. row.run = id /\ row.status = Status /\ row \notin runs
      BY <3>n, <3>r DEF Persisted
    <3>4. Persisted' = Persisted \cup {id}
      BY <3>2, <3>3 DEF Persisted
    <3>5. /\ IsFiniteSet(runs') /\ IsFiniteSet(Persisted')
          /\ Cardinality(runs') = Cardinality(Persisted')
      <4>1. /\ IsFiniteSet(runs) /\ IsFiniteSet(Persisted) /\ id \notin Persisted
            /\ Cardinality(runs) = Cardinality(Persisted)
        BY <3>n DEF TablesInv
      <4>2. IsFiniteSet(runs \cup {row}) /\ Cardinality(runs \cup {row}) = Cardinality(runs) + 1
        BY <3>3, <4>1, FS_AddElement
      <4>3. /\ IsFiniteSet(Persisted \cup {id})
            /\ Cardinality(Persisted \cup {id}) = Cardinality(Persisted) + 1
        BY <4>1, FS_AddElement
      <4> QED
        BY <3>2, <3>4, <4>1, <4>2, <4>3
    <3>6. FinishedSession.log \in Seq(LogRow) /\ Len(sink) \in Nat
          /\ Len(FinishedSession.log) \in Nat
      BY <1>0, <2>1, FinishedLog
    <3>7. /\ Len(call_records') = Len(call_records) + Len(sink)
          /\ \A k \in DOMAIN call_records :
                k \in DOMAIN call_records' /\ call_records'[k] = call_records[k]
          /\ \A k \in 1..Len(sink) : call_records'[Len(call_records) + k] = sink[k]
          /\ \A i \in DOMAIN call_records' :
                i \in DOMAIN call_records \/ \E k \in 1..Len(sink) : i = Len(call_records) + k
      BY <1>0, <3>2, CallsAppended
    <3>8. \A i \in DOMAIN call_records' : i \in DOMAIN call_records \/ call_records'[i].run = id
      BY <1>0, <3>1, <3>7, <3>n
    <3>9. ASSUME NEW other, other # id
          PROVE  \A job : CallsOf(other, job)' = CallsOf(other, job)
      BY <3>7, <3>8, <3>9 DEF CallsOf
    <3>10. /\ Len(event_log') = Len(event_log) + Len(FinishedSession.log)
           /\ \A k \in DOMAIN event_log :
                 k \in DOMAIN event_log' /\ event_log'[k] = event_log[k]
           /\ \A i \in DOMAIN event_log' :
                 i \in DOMAIN event_log \/ event_log'[i].run = id
      <4> DEFINE new == FinishedSession.log
      <4>1. \A k \in 1..Len(new) : new[k].run = id
        BY <1>0, <2>1, <3>n, LogIsOfRun
      <4> HIDE DEF new
      <4>2. new \in Seq(LogRow) /\ event_log' = event_log \o new
        BY <3>2, <3>6 DEF new
      <4>3. /\ Len(event_log') = Len(event_log) + Len(new)
            /\ \A k \in DOMAIN event_log :
                  k \in DOMAIN event_log' /\ event_log'[k] = event_log[k]
            /\ \A k \in 1..Len(new) : event_log'[Len(event_log) + k] = new[k]
            /\ \A i \in DOMAIN event_log' :
                  i \in DOMAIN event_log \/ \E k \in 1..Len(new) : i = Len(event_log) + k
        BY <1>0, <4>2, RowsAppended
      <4>4. \A i \in DOMAIN event_log' : i \in DOMAIN event_log \/ event_log'[i].run = id
        BY <4>1, <4>3
      <4> QED
        BY <4>3, <4>4 DEF new
    <3>11. ASSUME NEW other, other # id
           PROVE  \A types : RowsOf(other, types)' = RowsOf(other, types)
      BY <3>10, <3>11 DEF RowsOf
    <3>12. /\ Len(event_log') \in Nat /\ Len(event_log') >= Len(event_log)
           /\ Len(call_records') \in Nat /\ Len(call_records') >= Len(call_records)
      BY <1>0, <3>6, <3>7, <3>10
    <3>13. ASSUME NEW old \in runs PROVE RowKept(old)'
      <4>1. old.run # id /\ RowKept(old)
        BY <3>n DEF Persisted, TablesInv
      <4>2. /\ \A job \in Jobs : CallsOf(old.run, job)' = CallsOf(old.run, job)
            /\ \A types : "scheduler" \notin types =>
                             RowsOf(old.run, types)' = RowsOf(old.run, types)
        BY <3>9, <3>11, <4>1
      <4> QED
        BY <1>0, <3>7, <3>12, <4>1, <4>2, OldRowKept
    <3>14. RowKept(row)'
      <4>1. PICK s \in 0..N, n \in 0..N :
               /\ Len(sink) = s + n
               /\ \A k \in 1..s : sink[k].job = "sentiment"
               /\ \A k \in 1..n : sink[s + k].job = "synthesis"
               /\ SentimentKept(sink, 0, s, failed)
               /\ SynthesisKept(sink, s, n, failed)
        BY <3>1 DEF SinkKept
      <4>2. PICK jobs : jobs = failed
        OBVIOUS
      <4>3. jobs \in SUBSET Jobs /\ (row.status = "degraded" <=> jobs # {})
        BY <3>3, <4>2 DEF TypeOK, Status, IsDegraded
      <4>4. PICK calls \in 0..Len(call_records) : calls = Len(call_records)
        BY <1>0
      <4>5. PICK rows \in 0..Len(event_log) : rows = Len(event_log)
        BY <1>0
      <4>6. RowsOf(id, EventTypes) = {} /\ \A job \in Jobs : CallsOf(id, job) = {}
        BY DEF TablesInv
      <4>7. CallsKept(id, calls, s, n, jobs)'
        <5>1. SentimentKept(sink, 0, s, jobs) /\ SynthesisKept(sink, s, n, jobs)
          BY <4>1, <4>2
        <5>2. \A k \in DOMAIN sink : sink[k].run = id
          BY <3>1, <3>n
        <5> QED
          BY <3>2, <4>1, <4>4, <4>6, <5>1, <5>2, NewCallsKept
      <4>8. LogKept(id, rows, s + n, jobs # {})'
        <5>1. PICK sum : sum = s + n
          OBVIOUS
        <5>2. PICK isDegraded : isDegraded = (jobs # {})
          OBVIOUS
        <5>3. LogKept(id, rows, sum, isDegraded)'
          BY <2>1, <3>2, <3>n, <4>1, <4>2, <4>5, <4>6, <5>1, <5>2, NewLogKept DEF IsDegraded
        <5> QED
          BY <5>1, <5>2, <5>3
      <4>9. calls \in 0..Len(call_records') /\ rows \in 0..Len(event_log')
        BY <1>0, <3>12
      <4> QED
        BY <3>3, <4>3, <4>7, <4>8, <4>9 DEF RowKept
    <3>15. \A other \in RunIds \ Persisted' :
              /\ RowsOf(other, EventTypes)' = {}
              /\ \A job \in Jobs : CallsOf(other, job)' = {}
      BY <3>4, <3>9, <3>11 DEF TablesInv
    <3>16. run_inputs' = Persisted' /\ run_outputs' = Persisted'
      BY <3>2, <3>4 DEF TablesInv
    <3> QED
      BY <3>2, <3>5, <3>13, <3>14, <3>15, <3>16 DEF TablesInv
  <2> QED
    BY <2>1, <2>2, <2>3 DEF ExecutionInv
<1>2. CASE ~Commit
  <2>1. UNCHANGED tables
    BY <1>2 DEF Next, Execute, Sentiment, Synthesis, Reason, StageFails, Persist,
                DatabaseError, Crash, Rollback, vars
  <2> QED
    BY <1>k, <2>1
<1> QED
  BY <1>1, <1>2

-----------------------------------------------------------------------------
(* The invariant in every reachable state, and what follows from it.        *)
LEMMA RunServiceInvInit ==
  ASSUME Init
  PROVE  RunServiceInv
<1> USE JobAssumption, RunServiceAssumption DEF Init
<1>1. TypeOK
  BY DEF TypeOK, EmptySession
<1>2. ExecutionInv
  BY DEF ExecutionInv
<1>3. TablesInv
  <2>1. Persisted = {}
    BY DEF Persisted
  <2>2. \A id, types, job : RowsOf(id, types) = {} /\ CallsOf(id, job) = {}
    BY DEF RowsOf, CallsOf
  <2>3. IsFiniteSet({})
    BY FS_EmptySet
  <2> QED
    BY <2>1, <2>2, <2>3 DEF TablesInv
<1> QED
  BY <1>1, <1>2, <1>3 DEF RunServiceInv

(* RunServiceInv holds throughout: the session holds what its execution has *)
(* done, and the tables hold each run whole or not at all.                  *)
THEOREM RunServiceInvariant == Spec => []RunServiceInv
<1>1. Init => RunServiceInv
  BY RunServiceInvInit
<1>2. RunServiceInv /\ [Next]_vars => RunServiceInv'
  BY TypeStep, ExecutionStep, TablesStep DEF RunServiceInv
<1> QED
  BY <1>1, <1>2, PTL DEF Spec

(* Tables, session and sink keep their types; the sink never holds more     *)
(* than one execution's records.                                            *)
THEOREM TypeCorrect == Spec => []TypeOK
<1>1. RunServiceInv => TypeOK
  BY DEF RunServiceInv
<1> QED
  BY <1>1, RunServiceInvariant, PTL

(* A run is in all tables or in none, with one start and one finish.        *)
THEOREM RunsPersistedTogether == Spec => []PersistedTogether
<1>1. TypeOK /\ TablesInv => PersistedTogether
  <2> SUFFICES ASSUME TypeOK, TablesInv PROVE PersistedTogether
    OBVIOUS
  <2>1. ASSUME NEW id \in Persisted
        PROVE  \E i, j \in Nat : /\ RowsOf(id, {"run_start", "replay"}) = {i}
                                 /\ RowsOf(id, {"run_finish"}) = {j}
                                 /\ i < j
    <3>1. PICK row \in runs : row.run = id
      BY <2>1 DEF Persisted
    <3>2. RowKept(row)
      BY DEF TablesInv
    <3>3. PICK rows \in 0..Len(event_log), s \in 0..N, n \in 0..N, jobs \in SUBSET Jobs :
             LogKept(id, rows, s + n, jobs # {})
      BY <3>1, <3>2 DEF RowKept
    <3> DEFINE i == rows + 1
               j == rows + 2 + (s + n) + (IF jobs # {} THEN 1 ELSE 0)
    <3>4. i \in Nat /\ j \in Nat /\ i < j
      BY JobAssumption DEF TypeOK
    <3>5. RowsOf(id, {"run_start", "replay"}) = {i} /\ RowsOf(id, {"run_finish"}) = {j}
      BY <3>3 DEF LogKept
    <3> HIDE DEF i, j
    <3> QED
      BY <3>4, <3>5
  <2>2. \A x : Cardinality({x}) = 1
    BY FS_Singleton
  <2>3. Cardinality({}) = 0
    BY FS_EmptySet
  <2>4. ASSUME NEW id \in RunIds
        PROVE  LET starts == RowsOf(id, {"run_start", "replay"})
                   ends == RowsOf(id, {"run_finish"})
               IN  /\ Cardinality(starts) = IF id \in Persisted THEN 1 ELSE 0
                   /\ Cardinality(ends) = Cardinality(starts)
                   /\ \A i \in starts : \A j \in ends : i < j
                   /\ id \notin Persisted => RowsOf(id, EventTypes) = {}
    <3>1. CASE id \in Persisted
      <4>1. PICK i, j \in Nat : /\ RowsOf(id, {"run_start", "replay"}) = {i}
                                /\ RowsOf(id, {"run_finish"}) = {j}
                                /\ i < j
        BY <2>1, <3>1
      <4> QED
        BY <2>2, <3>1, <4>1
    <3>2. CASE id \notin Persisted
      <4>1. RowsOf(id, EventTypes) = {}
        BY <3>2 DEF TablesInv
      <4>2. RowsOf(id, {"run_start", "replay"}) = {} /\ RowsOf(id, {"run_finish"}) = {}
        BY <4>1 DEF RowsOf, EventTypes
      <4> QED
        BY <2>3, <3>2, <4>1, <4>2
    <3> QED
      BY <3>1, <3>2
  <2> QED
    BY <2>4 DEF PersistedTogether, TablesInv
<1>2. RunServiceInv => TypeOK /\ TablesInv
  BY DEF RunServiceInv
<1> QED
  BY <1>1, <1>2, RunServiceInvariant, PTL

(* A persisted run has the calls of the execution that persisted it, and no *)
(* failed execution of the same run id left any.                            *)
THEOREM CallsBelongToRuns == Spec => []CallsAreTheRuns
<1>1. TypeOK /\ TablesInv => CallsAreTheRuns
  <2> SUFFICES ASSUME TypeOK, TablesInv PROVE CallsAreTheRuns
    OBVIOUS
  <2>1. ASSUME NEW id \in Persisted
        PROVE  \E first \in 0..Len(call_records), s, n \in 0..N :
                  /\ CallsOf(id, "sentiment") = (first + 1)..(first + s)
                  /\ CallsOf(id, "synthesis") = (first + s + 1)..(first + s + n)
                  /\ s = 0 \/ \E isFailed \in BOOLEAN : Recorded(call_records, first, s, isFailed)
                  /\ \E isFailed \in BOOLEAN : Recorded(call_records, first + s, n, isFailed)
                  /\ Cardinality(RowsOf(id, {"provider_call"})) = s + n
    <3>1. PICK row \in runs : row.run = id
      BY <2>1 DEF Persisted
    <3>2. RowKept(row)
      BY DEF TablesInv
    <3>3. PICK first \in 0..Len(call_records), rows \in 0..Len(event_log), s \in 0..N,
               n \in 0..N, jobs \in SUBSET Jobs :
             /\ CallsKept(id, first, s, n, jobs)
             /\ LogKept(id, rows, s + n, jobs # {})
      BY <3>1, <3>2 DEF RowKept
    <3>4. s = 0 \/ \E isFailed \in BOOLEAN : Recorded(call_records, first, s, isFailed)
      <4>1. CASE "sentiment" \in jobs
        <5>1. ("sentiment" \in jobs) = TRUE
          BY <4>1
        <5>2. s = 0 \/ Recorded(call_records, first, s, TRUE)
          BY <3>3, <5>1 DEF CallsKept, SentimentKept
        <5> QED
          BY <5>2
      <4>2. CASE "sentiment" \notin jobs
        <5>1. ("sentiment" \in jobs) = FALSE
          BY <4>2
        <5>2. s = 0 \/ Recorded(call_records, first, s, FALSE)
          BY <3>3, <5>1 DEF CallsKept, SentimentKept
        <5> QED
          BY <5>2
      <4> QED
        BY <4>1, <4>2
    <3>5. \E isFailed \in BOOLEAN : Recorded(call_records, first + s, n, isFailed)
      <4>1. CASE "synthesis" \in jobs
        <5>1. ("synthesis" \in jobs) = TRUE
          BY <4>1
        <5>2. Recorded(call_records, first + s, n, TRUE)
          BY <3>3, <5>1 DEF CallsKept, SynthesisKept
        <5> QED
          BY <5>2
      <4>2. CASE "synthesis" \notin jobs
        <5>1. ("synthesis" \in jobs) = FALSE
          BY <4>2
        <5>2. Recorded(call_records, first + s, n, FALSE)
          BY <3>3, <5>1 DEF CallsKept, SynthesisKept
        <5> QED
          BY <5>2
      <4> QED
        BY <4>1, <4>2
    <3>6. Cardinality(RowsOf(id, {"provider_call"})) = s + n
      <4>1. RowsOf(id, {"provider_call"}) = (rows + 2)..(rows + 1 + (s + n))
        BY <3>3 DEF LogKept
      <4>2. rows \in Nat /\ s + n \in Nat
        BY JobAssumption DEF TypeOK
      <4>3. PICK a \in Int, b \in Int : a = rows + 2 /\ b = rows + 1 + (s + n)
        BY <4>2
      <4>4. Cardinality(a..b) = IF a > b THEN 0 ELSE b - a + 1
        BY FS_Interval
      <4> QED
        BY <4>1, <4>2, <4>3, <4>4
    <3> QED
      BY <3>3, <3>4, <3>5, <3>6 DEF CallsKept
  <2>2. ASSUME NEW id \in RunIds \ Persisted
        PROVE  CallsOf(id, "sentiment") = {} /\ CallsOf(id, "synthesis") = {}
    BY DEF TablesInv, Jobs
  <2> QED
    BY <2>1, <2>2 DEF CallsAreTheRuns
<1>2. RunServiceInv => TypeOK /\ TablesInv
  BY DEF RunServiceInv
<1> QED
  BY <1>1, <1>2, RunServiceInvariant, PTL

(* The status of a run and its degraded row follow from its calls.          *)
THEOREM StatusFollowsCalls == Spec => []StatusMatchesCalls
<1>1. TypeOK /\ TablesInv => StatusMatchesCalls
  <2> SUFFICES ASSUME TypeOK, TablesInv, NEW row \in runs
               PROVE  /\ row.status = "degraded" <=>
                            \/ ~Succeeded(row.run, "synthesis")
                            \/ /\ CallsOf(row.run, "sentiment") # {}
                               /\ ~Succeeded(row.run, "sentiment")
                      /\ row.status = "degraded" <=> RowsOf(row.run, {"degraded"}) # {}
    BY DEF StatusMatchesCalls
  <2>1. PICK id : id = row.run
    OBVIOUS
  <2>2. PICK first \in 0..Len(call_records), rows \in 0..Len(event_log), s \in 0..N,
             n \in 0..N, jobs \in SUBSET Jobs :
           /\ row.status = "degraded" <=> jobs # {}
           /\ CallsKept(id, first, s, n, jobs)
           /\ LogKept(id, rows, s + n, jobs # {})
    <3>1. RowKept(row)
      BY DEF TablesInv
    <3> QED
      BY <2>1, <3>1 DEF RowKept
  <2>3. first \in Nat /\ s \in Nat /\ n \in Nat /\ N \in Nat /\ first + s \in Nat
    BY JobAssumption DEF TypeOK
  <2>4. RowsOf(id, {"degraded"}) # {} <=> jobs # {}
    BY <2>2 DEF LogKept
  <2>5. /\ Succeeded(id, "sentiment") <=>
              \E k \in 1..s : call_records[first + k].outcome = "success"
        /\ Succeeded(id, "synthesis") <=>
              \E k \in 1..n : call_records[first + s + k].outcome = "success"
        /\ CallsOf(id, "sentiment") # {} <=> s > 0
    <3>1. /\ CallsOf(id, "sentiment") = (first + 1)..(first + s)
          /\ CallsOf(id, "synthesis") = (first + s + 1)..(first + s + n)
      BY <2>2 DEF CallsKept
    <3>2. ASSUME NEW f \in Nat, NEW m \in Nat, NEW i \in (f + 1)..(f + m)
          PROVE  \E k \in 1..m : i = f + k
      <4>1. i - f \in 1..m /\ i = f + (i - f)
        BY <3>2
      <4> QED
        BY <4>1
    <3>3. ASSUME NEW f \in Nat, NEW m \in Nat, NEW k \in 1..m
          PROVE  f + k \in (f + 1)..(f + m)
      BY <3>3
    <3>4. CallsOf(id, "sentiment") # {} <=> s > 0
      <4>1. CASE s > 0
        <5>1. 1 \in 1..s
          BY <2>3, <4>1
        <5>2. first + 1 \in (first + 1)..(first + s)
          BY <2>3, <3>3, <5>1
        <5> QED
          BY <3>1, <4>1, <5>2
      <4>2. CASE ~(s > 0)
        <5>1. \A k \in 1..s : FALSE
          BY <2>3, <4>2
        <5>2. \A i \in (first + 1)..(first + s) : FALSE
          BY <2>3, <3>2, <5>1
        <5> QED
          BY <3>1, <4>2, <5>2
      <4> QED
        BY <4>1, <4>2
    <3>5. ASSUME NEW f \in Nat, NEW m \in Nat
          PROVE  (\E i \in (f + 1)..(f + m) : call_records[i].outcome = "success")
                    <=> \E k \in 1..m : call_records[f + k].outcome = "success"
      <4>1. ASSUME NEW i \in (f + 1)..(f + m), call_records[i].outcome = "success"
            PROVE  \E k \in 1..m : call_records[f + k].outcome = "success"
        <5>1. PICK k \in 1..m : i = f + k
          BY <3>2
        <5> QED
          BY <4>1, <5>1
      <4>2. ASSUME NEW k \in 1..m, call_records[f + k].outcome = "success"
            PROVE  \E i \in (f + 1)..(f + m) : call_records[i].outcome = "success"
        <5>1. f + k \in (f + 1)..(f + m)
          BY <3>3
        <5> QED
          BY <4>2, <5>1
      <4> QED
        BY <4>1, <4>2
    <3>6. Succeeded(id, "sentiment") <=>
             \E k \in 1..s : call_records[first + k].outcome = "success"
      BY <2>3, <3>1, <3>5 DEF Succeeded
    <3>7. Succeeded(id, "synthesis") <=>
             \E k \in 1..n : call_records[first + s + k].outcome = "success"
      BY <2>3, <3>1, <3>5 DEF Succeeded
    <3> QED
      BY <3>4, <3>6, <3>7
  <2>6. "success" \notin Failures
    BY DEF Failures
  <2>7. "synthesis" \in jobs <=> ~Succeeded(id, "synthesis")
    <3>1. CASE "synthesis" \in jobs
      <4>1. Recorded(call_records, first + s, n, TRUE)
        BY <2>2, <3>1 DEF CallsKept, SynthesisKept
      <4>2. \A k \in 1..n : call_records[first + s + k].outcome \in Failures
        BY <2>3, <4>1, RecordedMeans
      <4> QED
        BY <2>5, <2>6, <3>1, <4>2
    <3>2. CASE "synthesis" \notin jobs
      <4>1. ("synthesis" \in jobs) = FALSE
        BY <3>2
      <4>2. Recorded(call_records, first + s, n, FALSE)
        BY <2>2, <4>1 DEF CallsKept, SynthesisKept
      <4>3. PICK f \in Nat : f = first + s
        BY <2>3
      <4>4. n \in 1..n /\ call_records[f + n].outcome = "success"
        BY <2>3, <4>2, <4>3, AnsweredLast
      <4>5. call_records[first + s + n].outcome = "success"
        BY <4>3, <4>4
      <4> QED
        BY <2>5, <3>2, <4>4, <4>5
    <3> QED
      BY <3>1, <3>2
  <2>8. /\ "sentiment" \in jobs => ~Succeeded(id, "sentiment") /\ (s > 0 \/ N = 0)
        /\ "sentiment" \notin jobs => s = 0 \/ Succeeded(id, "sentiment")
    <3>1. CASE "sentiment" \in jobs
      <4>1. Recorded(call_records, first, s, TRUE)
        BY <2>2, <3>1 DEF CallsKept, SentimentKept
      <4>2. s = N /\ \A k \in 1..s : call_records[first + k].outcome \in Failures
        BY <2>3, <4>1, RecordedMeans
      <4>3. ~Succeeded(id, "sentiment")
        BY <2>5, <2>6, <4>2
      <4>4. s > 0 \/ N = 0
        BY <2>3, <4>2
      <4> QED
        BY <3>1, <4>3, <4>4
    <3>2. CASE "sentiment" \notin jobs
      <4>1. ("sentiment" \in jobs) = FALSE
        BY <3>2
      <4>2. s = 0 \/ Recorded(call_records, first, s, FALSE)
        BY <2>2, <4>1 DEF CallsKept, SentimentKept
      <4>3. ASSUME Recorded(call_records, first, s, FALSE)
            PROVE  Succeeded(id, "sentiment")
        <5>1. s \in 1..s /\ call_records[first + s].outcome = "success"
          BY <2>3, <4>3, AnsweredLast
        <5> QED
          BY <2>5, <5>1
      <4> QED
        BY <3>2, <4>2, <4>3
    <3> QED
      BY <3>1, <3>2
  <2>9. N = 0 => ~Succeeded(id, "synthesis")
    BY <2>3, <2>5
  <2>10. jobs # {} <=> "sentiment" \in jobs \/ "synthesis" \in jobs
    BY DEF Jobs
  <2>11. row.status = "degraded" <=>
            \/ ~Succeeded(id, "synthesis")
            \/ CallsOf(id, "sentiment") # {} /\ ~Succeeded(id, "sentiment")
    <3>1. CallsOf(id, "sentiment") # {} <=> s > 0
      BY <2>5
    <3>2. s = 0 <=> ~(s > 0)
      BY <2>3
    <3> QED
      BY <2>2, <2>7, <2>8, <2>9, <2>10, <3>1, <3>2
  <2> QED
    BY <2>1, <2>2, <2>4, <2>11
<1>2. RunServiceInv => TypeOK /\ TablesInv
  BY DEF RunServiceInv
<1> QED
  BY <1>1, <1>2, RunServiceInvariant, PTL

(* Executing a persisted run id again leaves its run and its calls alone.   *)
THEOREM RetriggerChangesNothing == Spec => RetriggerIsNoop
<1>1. RunServiceInv /\ [Next]_vars =>
        [\A id \in Persisted :
          run_id = id /\ pc # "idle" =>
              /\ UNCHANGED <<runs, run_inputs, run_outputs, call_records>>
              /\ event_log' \in {event_log, Append(event_log, [run |-> id, type |-> "scheduler"])}
        ]_vars
  <2> SUFFICES ASSUME RunServiceInv, [Next]_vars, NEW id \in Persisted,
                      run_id = id, pc # "idle"
               PROVE  /\ UNCHANGED <<runs, run_inputs, run_outputs, call_records>>
                      /\ event_log' \in {event_log, Append(event_log, [run |-> id, type |-> "scheduler"])}
    OBVIOUS
  <2>1. TypeOK /\ ExecutionInv
    BY DEF RunServiceInv
  <2>2. CASE Commit
    <3>1. session = NoopSession
      BY <2>1, <2>2 DEF Commit, ExecutionInv
    <3>2. /\ session.runs = {} /\ session.inputs = {} /\ session.outputs = {}
          /\ session.calls = <<>> /\ session.log = <<[run |-> id, type |-> "scheduler"]>>
      BY <3>1 DEF NoopSession, EmptySession, Log
    <3>3. call_records \o <<>> = call_records
      BY <2>1 DEF TypeOK
    <3>4. event_log' = event_log \o <<[run |-> id, type |-> "scheduler"]>>
      BY <2>2, <3>2 DEF Commit
    <3>5. event_log' = Append(event_log, [run |-> id, type |-> "scheduler"])
      <4>1. event_log \in Seq(LogRow) /\ [run |-> id, type |-> "scheduler"] \in LogRow
        BY <2>1 DEF TypeOK, LogRow, EventTypes, ExecutionInv
      <4> QED
        BY <3>4, <4>1, AppendIsConcat
    <3> QED
      BY <2>2, <3>2, <3>3, <3>5 DEF Commit
  <2>3. CASE ~Commit
    BY <2>3 DEF Next, Execute, Sentiment, Synthesis, Reason, StageFails, Persist,
                DatabaseError, Crash, Rollback, vars, tables
  <2> QED
    BY <2>2, <2>3
<1> QED
  BY <1>1, RunServiceInvariant, PTL DEF Spec, RetriggerIsNoop

=============================================================================
