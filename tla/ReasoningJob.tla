---------------------------- MODULE ReasoningJob ----------------------------
(***************************************************************************)
(* What one reasoning job promises its caller, whatever providers do: an   *)
(* outcome, and a trail of Call Records, one per provider it came to.      *)
(* LLMGateway keeps this promise; RunService is built on nothing more.     *)
(***************************************************************************)
EXTENDS Naturals, Sequences

CONSTANT N  \* enabled providers

ASSUME JobAssumption == N \in Nat

\* Outcome: the outcome of a Call Record.
Outcomes == {"success", "error", "timeout", "circuit_open"}
Failures == Outcomes \ {"success"}

\* A response, a DegradedMarker, or an exception nobody catches.
JobOutcomes == {"answered", "degraded", "raised"}

\* The job is answered by the last provider of its trail, degraded only when
\* every provider failed or was skipped, and raised only at a provider that
\* leaves no record.
JobKept(trail, outcome) ==
    \/ /\ outcome = "answered"
       /\ trail # <<>>
       /\ Len(trail) <= N
       /\ \A k \in DOMAIN trail : trail[k] = "success" <=> k = Len(trail)
    \/ /\ outcome = "degraded"
       /\ Len(trail) = N
       /\ \A k \in DOMAIN trail : trail[k] \in Failures
    \/ /\ outcome = "raised"
       /\ Len(trail) < N
       /\ \A k \in DOMAIN trail : trail[k] \in Failures

=============================================================================
