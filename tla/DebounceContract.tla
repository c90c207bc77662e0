-------------------------- MODULE DebounceContract --------------------------
(***************************************************************************)
(* What the event trigger promises, without threads, locks or tables:      *)
(* complete events accumulate; a batch takes every one of them that no     *)
(* batch has taken, and no batch comes less than Cooldown after another.   *)
(***************************************************************************)
EXTENDS Naturals

CONSTANTS CompleteEvents, Cooldown, MaxClock

VARIABLES
    clock,
    accepted,  \* the complete events the engine has taken charge of
    batches    \* the batches recorded as triggered: [events, at]

contractVars == <<clock, accepted, batches>>

Waiting == accepted \ UNION {b.events : b \in batches}

ContractInit ==
    /\ clock = 0
    /\ accepted = {}
    /\ batches = {}

Accept(e) ==
    /\ e \notin accepted
    /\ accepted' = accepted \cup {e}
    /\ UNCHANGED <<clock, batches>>

TakeBatch ==
    /\ Waiting # {}
    /\ \A b \in batches : clock >= b.at + Cooldown
    /\ batches' = batches \cup {[events |-> Waiting, at |-> clock]}
    /\ UNCHANGED <<clock, accepted>>

PassTime ==
    /\ clock < MaxClock
    /\ clock' = clock + 1
    /\ UNCHANGED <<accepted, batches>>

ContractNext ==
    \/ \E e \in CompleteEvents : Accept(e)
    \/ TakeBatch
    \/ PassTime

ContractSpec == ContractInit /\ [][ContractNext]_contractVars

=============================================================================
