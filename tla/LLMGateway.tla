----------------------------- MODULE LLMGateway -----------------------------
(***************************************************************************)
(* LLMGateway._run: one reasoning job walks the failover chain.  Jobs come *)
(* one at a time (every run holds the Scheduler lock), breakers live as    *)
(* long as the process, and time passes while a provider is called.        *)
(*                                                                         *)
(* Providers are numbered by (priority, name).  Of the price, the prompt   *)
(* and the response only this is kept: a response passes the structured    *)
(* output check or it does not.                                            *)
(*                                                                         *)
(* A definition commented "Seeded fault" is a plausible bug in the one     *)
(* after it; no specification uses it.                                     *)
(***************************************************************************)
EXTENDS CircuitBreaker, ReasoningJob

CONSTANTS
    FirstPicks,      \* those Router.order may put first
    Retries,         \* defaults.retries: further attempts at one provider
    TimeoutSeconds,  \* timeout_seconds of the call
    MonotonicWired,  \* is a monotonic clock injected, or `_zero_ms`?
    MaxClock,        \* bound: last instant of the clock
    MaxJobs          \* bound: reasoning jobs

Providers == 1..N

\* Priority routing starts with provider 1; weighted routing with any provider
\* of positive weight, as the run id's hash has it.
ASSUME GatewayAssumption ==
    /\ FirstPicks \subseteq Providers
    /\ N > 0 => FirstPicks # {}
    /\ Retries \in Nat
    /\ TimeoutSeconds \in Nat
    /\ MonotonicWired \in BOOLEAN
    /\ MaxClock \in Nat
    /\ MaxJobs \in Nat

VARIABLES
    clock,     \* time, in seconds
    breakers,  \* CircuitBreakerRegistry
    pc,        \* "idle", "chain" (between providers), or "call" (at one)
    first,     \* the provider this chain starts with
    position,  \* attempt_index
    tries,     \* RetryPolicy.run: attempts made at this provider
    since,     \* TimeoutPolicy.run: the reading before this attempt
    started,   \* when the current provider was first asked (history)
    records,   \* the Call Records emitted, in order
    outcomes   \* what each job returned

vars == <<clock, breakers, pc, first, position, tries, since, started, records,
          outcomes>>

\* `from` is not a field of the code's record: it tells when the first attempt
\* began, `at` (created_at) when the record was made.
CallRecord == [job : Nat, index : Nat, provider : Nat, outcome : Outcomes,
               from : Nat, at : Nat]

\* What `monotonic_s` (and `monotonic_ms`) read at an instant, and now.
Read(instant) == IF MonotonicWired THEN instant ELSE 0
Reading == Read(clock)

\* Seeded fault: the first pick is not taken out of the others.
ChainRepeatsFirst(k) == IF k = 0 THEN first ELSE k

\* Router.order: the first pick, then the others by priority.
ChainAt(k) ==
    IF k = 0 THEN first
    ELSE IF k < first THEN k
    ELSE k + 1

Current == ChainAt(position)

-----------------------------------------------------------------------------
Init ==
    /\ clock = 0
    /\ breakers = [p \in Providers |-> NewBreaker]
    /\ pc = "idle"
    /\ first = 0
    /\ position = 0
    /\ tries = 0
    /\ since = 0
    /\ started = 0
    /\ records = <<>>
    /\ outcomes = <<>>

\* _record and _emit
Emit(outcome, from) ==
    records' = Append(records,
        [job |-> Len(outcomes) + 1, index |-> position, provider |-> Current,
         outcome |-> outcome, from |-> from, at |-> clock])

\* The job is over and its locals are gone.
Return(outcome) ==
    /\ outcomes' = Append(outcomes, outcome)
    /\ pc' = "idle"
    /\ first' = 0
    /\ position' = 0
    /\ tries' = 0
    /\ since' = 0
    /\ started' = 0

\* The loop of _run goes on to the next provider.
NextProvider ==
    /\ pc' = "chain"
    /\ position' = position + 1
    /\ tries' = 0
    /\ since' = 0
    /\ started' = 0
    /\ UNCHANGED <<first, outcomes>>

\* analyze_sentiment or synthesize is called.
Ask ==
    /\ pc = "idle"
    /\ Len(outcomes) < MaxJobs
    /\ pc' = "chain"
    /\ first' \in IF N = 0 THEN {0} ELSE FirstPicks
    /\ UNCHANGED <<clock, breakers, position, tries, since, started, records,
                   outcomes>>

\* Seeded fault: the loop looks for one provider more than there are.
DegradeTooLate ==
    /\ pc = "chain"
    /\ position > N
    /\ Return("degraded")
    /\ UNCHANGED <<clock, breakers, records>>

\* The chain is exhausted, or empty: DegradedMarker.
Degrade ==
    /\ pc = "chain"
    /\ position = N
    /\ Return("degraded")
    /\ UNCHANGED <<clock, breakers, records>>

\* An open breaker: a record and the next provider, without a call.
SkipOpen ==
    /\ pc = "chain"
    /\ position < N
    /\ ~Allows(breakers[Current], Reading)
    /\ Emit("circuit_open", clock)
    /\ NextProvider
    /\ UNCHANGED <<clock, breakers>>

\* breaker.allows() also moves an open breaker whose cool-down is over.
Call ==
    /\ pc = "chain"
    /\ position < N
    /\ Allows(breakers[Current], Reading)
    /\ breakers' = [breakers EXCEPT ![Current] = Resolve(@, Reading)]
    /\ pc' = "call"
    /\ since' = Reading
    /\ started' = clock
    /\ UNCHANGED <<clock, first, position, tries, records, outcomes>>

\* The provider's turn ends without a valid response.
Fail(outcome) ==
    /\ Emit(outcome, started)
    /\ breakers' = [breakers EXCEPT ![Current] = RecordFailure(@, Reading)]
    /\ NextProvider

\* RetryPolicy.run after a ProviderCallError: once more, or give up with the
\* last error.
RetryOrFail(outcome) ==
    \/ /\ tries < Retries
       /\ tries' = tries + 1
       /\ since' = Reading
       /\ UNCHANGED <<breakers, pc, first, position, started, records, outcomes>>
    \/ /\ tries = Retries
       /\ Fail(outcome)

TooLate == Reading > since + TimeoutSeconds

\* The adapter returns in time, and the response validates.
CallSucceeds ==
    /\ pc = "call"
    /\ ~TooLate
    /\ Emit("success", started)
    /\ breakers' = [breakers EXCEPT ![Current] = RecordSuccess(@)]
    /\ Return("answered")
    /\ UNCHANGED clock

\* It returns in time and does not validate: the check stands outside the
\* retries, so the provider is not asked again.
CallInvalid ==
    /\ pc = "call"
    /\ ~TooLate
    /\ Fail("error")
    /\ UNCHANGED clock

\* It returns past the deadline: the response is thrown away.
CallTimesOut ==
    /\ pc = "call"
    /\ TooLate
    /\ RetryOrFail("timeout")
    /\ UNCHANGED clock

\* The adapter raises ProviderCallError, at any time.
CallRaises ==
    /\ pc = "call"
    /\ RetryOrFail("error")
    /\ UNCHANGED clock

\* The adapter raises something else: _map_response is outside the `try` that
\* maps vendor errors.  Nothing up to the caller of _run catches it: no
\* record, and the breaker hears nothing.
CallEscapes ==
    /\ pc = "call"
    /\ Return("raised")
    /\ UNCHANGED <<clock, breakers, records>>

Tick ==
    /\ clock < MaxClock
    /\ clock' = clock + 1
    /\ UNCHANGED <<breakers, pc, first, position, tries, since, started, records,
                   outcomes>>

Proceed ==
    \/ Degrade
    \/ SkipOpen
    \/ Call
    \/ CallSucceeds
    \/ CallInvalid
    \/ CallTimesOut
    \/ CallRaises
    \/ CallEscapes

Next ==
    \/ Ask
    \/ Proceed
    \/ Tick

Spec == Init /\ [][Next]_vars

\* A job under way goes on: an adapter call returns or raises some time, as
\* the vendor clients' own timeouts have it.
FairSpec == Spec /\ WF_vars(Proceed)

=============================================================================
