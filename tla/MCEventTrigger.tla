--------------------------- MODULE MCEventTrigger ---------------------------
(* A small instance of the trigger path for TLC. *)
EXTENDS EventTriggerProperties, TLC

TriggerSymmetry ==
    Permutations(Threads) \cup Permutations(CompleteEvents)
=============================================================================
