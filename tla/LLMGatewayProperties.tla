------------------------ MODULE LLMGatewayProperties ------------------------
(***************************************************************************)
(* What must hold of the failover chain and its breakers.  The breakers'   *)
(* memory is judged by the Call Records, which say all that happened.      *)
(***************************************************************************)
EXTENDS LLMGateway, FiniteSets

\* The shapes of the chain, the breakers and the records.  A deque never holds
\* as many failures as would have tripped the breaker.
TypeOK ==
    /\ clock \in 0..MaxClock
    /\ breakers \in [Providers -> Breaker]
    /\ \A p \in Providers : Len(breakers[p].failures) < FailureThreshold
    /\ pc \in {"idle", "chain", "call"}
    /\ first \in Providers \cup {0}
    /\ position \in 0..N
    /\ tries \in 0..Retries
    /\ since \in 0..MaxClock
    /\ started \in 0..MaxClock
    /\ records \in Seq(CallRecord)
    /\ outcomes \in Seq(JobOutcomes)

-----------------------------------------------------------------------------
(* The breaker as a function of the records. *)

\* The calls of provider p among the first n records: skips are not calls.
CallsOf(log, p, n) ==
    {i \in 1..n : log[i].provider = p /\ log[i].outcome # "circuit_open"}

\* Those after its last success.
Unanswered(log, p, n) ==
    {i \in CallsOf(log, p, n) :
        \A j \in CallsOf(log, p, n) : j >= i => log[j].outcome # "success"}

\* Call i and those that came after it within one window.
Burst(log, p, n, i) ==
    {j \in CallsOf(log, p, n) :
        j >= i /\ Read(log[j].at) <= Read(log[i].at) + WindowSeconds}

\* FailureThreshold calls of p failed within one window, none succeeded since.
FailedInWindow(log, p, n) ==
    \E i \in Unanswered(log, p, n) :
        Cardinality(Burst(log, p, n, i)) >= FailureThreshold

LastCalls(log, p, n) ==
    {i \in CallsOf(log, p, n) : \A j \in CallsOf(log, p, n) : j <= i}

\* The last call of p was less than the cool-down ago.
Cooling(log, p, n, instant) ==
    \E i \in LastCalls(log, p, n) : Read(instant) < Read(log[i].at) + HalfOpenAfter

\* A breaker is out of CLOSED exactly when its provider failed
\* FailureThreshold times within one window and has not succeeded since:
\* retries count once, old failures do not count, a success wipes them out,
\* and a failed probe changes nothing.
BreakerMatchesRecords ==
    \A p \in Providers :
        breakers[p].state # "closed" <=> FailedInWindow(records, p, Len(records))

\* A provider is skipped exactly while such a breaker cools down, counted
\* from its last failed call; a provider in order is never passed over, and
\* none is called before its cool-down is over.
SkipsFollowHistory ==
    \A i \in DOMAIN records :
        LET p == records[i].provider
        IN  records[i].outcome = "circuit_open" <=>
                /\ FailedInWindow(records, p, i - 1)
                /\ Cooling(records, p, i - 1, records[i].from)

-----------------------------------------------------------------------------
(* The chain *)

RecordsOf(log, job) == {i \in DOMAIN log : log[i].job = job}

OutcomesAfter(log, before, n) == [k \in 1..n |-> log[before + k].outcome]

\* The n records after the first ones walk the chain: in order, no provider
\* twice, and by priority after the first pick.
Walked(log, before, n) ==
    /\ \A k \in 1..n : log[before + k].index = k - 1
    /\ \A j, k \in 1..n :
          /\ j < k => log[before + j].provider # log[before + k].provider
          /\ 1 < j /\ j < k => log[before + j].provider < log[before + k].provider

\* A job keeps the promise of ReasoningJob by walking the chain, and its
\* records lie together.
ChainFollowed ==
    \A job \in DOMAIN outcomes :
        \E before \in 0..Len(records), n \in 0..N :
            /\ RecordsOf(records, job) = (before + 1)..(before + n)
            /\ JobKept(OutcomesAfter(records, before, n), outcomes[job])
            /\ Walked(records, before, n)

-----------------------------------------------------------------------------
(* Liveness *)

\* A job comes to an end whatever its providers do.
JobsEnd == pc # "idle" ~> pc = "idle"

-----------------------------------------------------------------------------
(* What the documents say and the code does not do. *)

\* circuit_breaker.py: calls are skipped "until half_open_after_seconds
\* elapses since it opened"; a skip is never later than that.
SkippedOnlyWhileCooling ==
    \A i \in DOMAIN records :
        records[i].outcome = "circuit_open" =>
            \E j \in LastCalls(records, records[i].provider, i - 1) :
                records[i].at < records[j].at + HalfOpenAfter

-----------------------------------------------------------------------------
(* The inductive invariant behind the safety properties. *)

\* Instants of the records and of the call under way never run backwards.
TimeInv ==
    /\ \A i, j \in DOMAIN records : i <= j => records[i].at <= records[j].at
    /\ \A i \in DOMAIN records : records[i].at <= clock
    /\ started <= clock

\* A deque is the readings of unanswered calls, in order, and the unanswered
\* calls it does not have are too old to share a window with a new one.
DequeKept(failures, log, p, n, now) ==
    \E call \in [DOMAIN failures -> Unanswered(log, p, n)] :
        /\ \A j, k \in DOMAIN failures : j < k => call[j] < call[k]
        /\ \A k \in DOMAIN failures : failures[k] = Read(log[call[k]].at)
        /\ \A i \in Unanswered(log, p, n) :
              \/ \E k \in DOMAIN failures : call[k] = i
              \/ Read(log[i].at) + WindowSeconds < now

ClosedInv(p) ==
    /\ ~FailedInWindow(records, p, Len(records))
    /\ DequeKept(breakers[p].failures, records, p, Len(records), Reading)

TrippedInv(p) ==
    /\ FailedInWindow(records, p, Len(records))
    /\ \E i \in LastCalls(records, p, Len(records)) :
          breakers[p].opened_at = Read(records[i].at)
    /\ breakers[p].state = "half_open" =>
          Reading >= breakers[p].opened_at + HalfOpenAfter

BreakersInv ==
    \A p \in Providers :
        IF breakers[p].state = "closed" THEN ClosedInv(p) ELSE TrippedInv(p)

\* The breaker of the provider under call let it through, and did so when the
\* turn began.
CallInv ==
    pc = "call" =>
        /\ breakers[Current].state # "open"
        /\ breakers[Current].state = "half_open" =>
              Read(started) >= breakers[Current].opened_at + HalfOpenAfter

\* The job under way has the last records, one per provider behind it, and
\* they are failures; all others are of earlier jobs.
JobInv ==
    LET before == Len(records) - position
    IN  /\ pc = "idle" => position = 0
        /\ pc # "idle" /\ N > 0 => first \in Providers
        /\ pc = "call" => position < N
        /\ position <= Len(records)
        /\ \A i \in 1..before : records[i].job \in 1..Len(outcomes)
        /\ \A k \in 1..position :
              /\ records[before + k].job = Len(outcomes) + 1
              /\ records[before + k].index = k - 1
              /\ records[before + k].provider = ChainAt(k - 1)
              /\ records[before + k].outcome \in Failures

GatewayInv ==
    /\ TypeOK
    /\ TimeInv
    /\ BreakersInv
    /\ CallInv
    /\ SkipsFollowHistory
    /\ JobInv
    /\ ChainFollowed

=============================================================================
