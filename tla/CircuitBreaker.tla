--------------------------- MODULE CircuitBreaker ---------------------------
(***************************************************************************)
(* One provider's circuit breaker (reliability/circuit_breaker.py): the    *)
(* object's fields as a record, its methods as operators on that record.   *)
(* "Seeded fault" marks a plausible bug in the definition after it.        *)
(***************************************************************************)
EXTENDS Naturals, Sequences

CONSTANTS
    FailureThreshold,  \* circuit_breaker.failure_threshold
    WindowSeconds,     \* circuit_breaker.window_seconds
    HalfOpenAfter      \* circuit_breaker.half_open_after_seconds

ASSUME BreakerAssumption ==
    /\ FailureThreshold \in Nat \ {0}
    /\ WindowSeconds \in Nat
    /\ HalfOpenAfter \in Nat

BreakerStates == {"closed", "open", "half_open"}

\* `opened_at` is read only while the breaker is open; 0 stands for None.
Breaker == [state : BreakerStates, failures : Seq(Nat), opened_at : Nat]

NewBreaker == [state |-> "closed", failures |-> <<>>, opened_at |-> 0]

\* _maybe_half_open: the move out of OPEN is made by whoever looks next.
Resolve(b, now) ==
    IF b.state = "open" /\ now >= b.opened_at + HalfOpenAfter
    THEN [b EXCEPT !.state = "half_open"]
    ELSE b

Allows(b, now) == Resolve(b, now).state # "open"

RecordSuccess(b) == NewBreaker

\* Seeded fault: a failed probe does not restart the cool-down.
TripKeepsTimer(b, now) ==
    [state |-> "open", failures |-> <<>>,
     opened_at |-> IF b.state = "half_open" THEN b.opened_at ELSE now]

Trip(b, now) == [state |-> "open", failures |-> <<>>, opened_at |-> now]

\* Seeded fault: failures never grow old.
KeepAll(failures, now) == failures

\* Old failures are taken off the left end up to the first that is not old.
Prune(failures, now) ==
    LET Old(k) == failures[k] + WindowSeconds < now
        kept == CHOOSE k \in 1..Len(failures) + 1 :
                    /\ \A j \in 1..k - 1 : Old(j)
                    /\ k <= Len(failures) => ~Old(k)
    IN  SubSeq(failures, kept, Len(failures))

\* Seeded fault: one failure more than the threshold.
RecordFailureLate(b, now) ==
    LET r == Resolve(b, now)
        failures == Prune(Append(r.failures, now), now)
    IN  IF r.state = "half_open" \/ Len(failures) > FailureThreshold
        THEN Trip(r, now)
        ELSE [r EXCEPT !.failures = failures]

RecordFailure(b, now) ==
    LET r == Resolve(b, now)
        failures == Prune(Append(r.failures, now), now)
    IN  IF r.state = "half_open" \/ Len(failures) >= FailureThreshold
        THEN Trip(r, now)
        ELSE [r EXCEPT !.failures = failures]

=============================================================================
