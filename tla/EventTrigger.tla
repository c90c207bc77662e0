---------------------------- MODULE EventTrigger ----------------------------
(***************************************************************************)
(* The trigger path of the Market State Engine: the API's worker threads   *)
(* call EventTrigger.submit (POST /v1/events), Scheduler.run_manual        *)
(* (POST /v1/runs:trigger) or Scheduler.run_scheduled.  The two classes    *)
(* share one Scheduler lock; submissions also share the EventTrigger lock. *)
(*                                                                         *)
(* Each action is one transaction (one `with database.session()` block),   *)
(* one lock operation, or one read of the clock, in the order of the code; *)
(* between two of them any other thread may move, a transaction may raise, *)
(* and the process may die.  Only the tables survive a restart.            *)
(*                                                                         *)
(* A pipeline run is one transaction here: RunService.execute commits a    *)
(* run with all its rows or, when it raises, nothing.                      *)
(*                                                                         *)
(* A definition commented "Seeded fault" is a plausible bug in the one     *)
(* after it; no specification uses it.                                     *)
(***************************************************************************)
EXTENDS Naturals, Sequences, FiniteSets

CONSTANTS
    Threads,         \* threads of the API server's pool
    Events,          \* MacroEvent identities
    CompleteEvents,  \* the events that carry an `actual` figure
    NoThread,        \* a free lock
    NoEvent,         \* a thread that is not serving a submission
    Cooldown,        \* scheduler.event_cooldown_minutes, in clock units
    OtherCallers,    \* who else asks the scheduler for runs
    MaxClock,        \* bound: last instant of the clock
    MaxOtherRuns,    \* bound: committed manual and scheduled runs
    MaxFaults        \* bound: database errors and process crashes

ASSUME TriggerAssumption ==
    /\ CompleteEvents \subseteq Events
    /\ NoThread \notin Threads
    /\ NoEvent \notin Events
    /\ Cooldown \in Nat \ {0}
    /\ OtherCallers \subseteq {"manual", "scheduled"}
    /\ MaxClock \in Nat
    /\ MaxOtherRuns \in Nat
    /\ MaxFaults \in Nat

VARIABLES
    clock,           \* the injected clock: one for the trigger and the log
    macro_events,    \* table macro_events: the event ids it holds
    event_log,       \* table event_log: the EVENT_* rows in event_seq order
    runs,            \* tables runs/run_inputs/run_outputs in commit order
    trigger_lock,    \* EventTrigger._lock
    scheduler_lock,  \* Scheduler._lock
    pc,              \* where each thread stands
    req,             \* submit: the event being submitted
    now,             \* submit: the instant read on entry
    pending,         \* submit: the batch selected for this submission
    ctx,             \* trigger: the RunContext
    run_id,          \* submit: the committed run, as an index of `runs`
    faults           \* database errors and crashes so far

tables == <<macro_events, event_log, runs>>
locals == <<req, now, pending, ctx, run_id>>
vars == <<clock, macro_events, event_log, runs, trigger_lock, scheduler_lock,
          pc, req, now, pending, ctx, run_id, faults>>

-----------------------------------------------------------------------------
(* Rows and thread states. *)

\* Who asked for a run.  run_manual has no trigger_type of its own: the
\* scheduler files both it and an event run under TriggerType.EVENT.
Callers == {"event_trigger", "manual", "scheduled"}
TriggerType(by) == IF by = "scheduled" THEN "scheduled" ELSE "event"

RunContext == [by : Callers, seq : Nat, at : Nat, events : SUBSET Events]
NoContext == [by |-> "none", seq |-> 0, at |-> 0, events |-> {}]

EventTypes == {"event_accepted", "event_debounced", "event_triggered",
               "event_failed"}
LogRow == [type : EventTypes, events : SUBSET Events, run : Nat, at : Nat]

SubmitSteps == {"submit", "persist", "accept", "decide", "debounce",
                "run_event", "triggered", "failed"}
RunSteps == {"context", "execute"}

\* A submission holds the EventTrigger lock from its first read of the clock
\* to its answer, the run it asks for included.
InSubmit(t) == req[t] # NoEvent /\ pc[t] # "submit"
InRun(t) == pc[t] \in RunSteps

-----------------------------------------------------------------------------
(* What a submission reads back from the tables. *)

Triggered == {i \in DOMAIN event_log : event_log[i].type = "event_triggered"}

TriggeredEvents == UNION {event_log[i].events : i \in Triggered}

\* Seeded fault: the triggered rows are not subtracted.
PendingForgetsTriggered == macro_events \cap CompleteEvents

\* Seeded fault: a debounced event counts as handled.
PendingForgetsDebounced ==
    {e \in macro_events :
        /\ e \in CompleteEvents \ TriggeredEvents
        /\ \A i \in DOMAIN event_log :
              event_log[i].type = "event_debounced" => e \notin event_log[i].events}

\* _pending_complete_events
PendingCompleteEvents ==
    {e \in macro_events : e \in CompleteEvents /\ e \notin TriggeredEvents}

\* Seeded fault: the window closes one unit early.
CoolingDownTooShort(instant) ==
    \E i \in Triggered :
        /\ \A j \in Triggered : j <= i
        /\ instant + 1 < event_log[i].at + Cooldown

\* Seeded fault: no window.
NeverCoolingDown(instant) == FALSE

\* now < _last_triggered_at() + cooldown, when any event run was recorded
CoolingDown(instant) ==
    \E i \in Triggered :
        /\ \A j \in Triggered : j <= i
        /\ instant < event_log[i].at + Cooldown

\* RunRepository.next_sequence: the highest number of a committed run, plus 1
UsedSequences == {runs[i].seq : i \in DOMAIN runs}

NextSequence ==
    IF UsedSequences = {} THEN 1
    ELSE 1 + CHOOSE s \in UsedSequences : \A r \in UsedSequences : r <= s

\* Seeded fault: of the runs of one instant, the lowest number comes first.
LowestFirst(i, j) ==
    \/ runs[i].at > runs[j].at
    \/ runs[i].at = runs[j].at /\ runs[i].seq <= runs[j].seq

\* RunRepository.latest: newest persisted_at, then highest run_sequence.  It
\* is read when the run executes, behind the lock its context was made under,
\* so it orders the runs as the instant of the context does.
ListedBefore(i, j) ==
    \/ runs[i].at > runs[j].at
    \/ runs[i].at = runs[j].at /\ runs[i].seq >= runs[j].seq

Latest == {i \in DOMAIN runs : \A j \in DOMAIN runs : ListedBefore(i, j)}

-----------------------------------------------------------------------------
Init ==
    /\ clock = 0
    /\ macro_events = {}
    /\ event_log = <<>>
    /\ runs = <<>>
    /\ trigger_lock = NoThread
    /\ scheduler_lock = NoThread
    /\ pc = [t \in Threads |-> "idle"]
    /\ req = [t \in Threads |-> NoEvent]
    /\ now = [t \in Threads |-> 0]
    /\ pending = [t \in Threads |-> {}]
    /\ ctx = [t \in Threads |-> NoContext]
    /\ run_id = [t \in Threads |-> 0]
    /\ faults = 0

Goto(t, step) == pc' = [pc EXCEPT ![t] = step]

\* The handler returns or raises: its frame is gone, and the `with` block of
\* submit, if it was in one, releases the trigger lock.
Leave(t) ==
    /\ Goto(t, "idle")
    /\ req' = [req EXCEPT ![t] = NoEvent]
    /\ now' = [now EXCEPT ![t] = 0]
    /\ pending' = [pending EXCEPT ![t] = {}]
    /\ ctx' = [ctx EXCEPT ![t] = NoContext]
    /\ run_id' = [run_id EXCEPT ![t] = 0]
    /\ trigger_lock' = IF trigger_lock = t THEN NoThread ELSE trigger_lock

\* Seeded faults: no lock at all; a run that never gives the lock back.
Unguarded == TRUE
KeepScheduler == UNCHANGED scheduler_lock

\* `with self._lock`, `self._lock.acquire(blocking=False)`, and its release
TriggerFree == trigger_lock = NoThread
SchedulerFree == scheduler_lock = NoThread
ReleaseScheduler == scheduler_lock' = NoThread

\* Seeded fault: acceptance is not logged.
RecordDecisionsOnly(type, events, run) ==
    IF type = "event_accepted"
    THEN UNCHANGED event_log
    ELSE event_log' = Append(event_log,
            [type |-> type, events |-> events, run |-> run,
             at |-> IF type = "event_triggered" THEN clock ELSE 0])

\* Seeded fault: the row names the latest run instead of its own.
RecordLatestRun(type, events, run) ==
    event_log' = Append(event_log,
        [type |-> type, events |-> events, run |-> Len(runs),
         at |-> IF type = "event_triggered" THEN clock ELSE 0])

\* EventTrigger._record: one row in a transaction of its own, stamped with
\* the clock of that moment.  Only the stamp of an EVENT_TRIGGERED row is ever
\* read back, so it alone is kept.
Record(type, events, run) ==
    event_log' = Append(event_log,
        [type |-> type, events |-> events, run |-> run,
         at |-> IF type = "event_triggered" THEN clock ELSE 0])

-----------------------------------------------------------------------------
(* EventTrigger.submit *)

\* POST /v1/events reaches submit; the thread blocks on the trigger lock.
Submit(t, e) ==
    /\ pc[t] = "idle"
    /\ Goto(t, "submit")
    /\ req' = [req EXCEPT ![t] = e]
    /\ UNCHANGED <<clock, tables, trigger_lock, scheduler_lock, now, pending,
                   ctx, run_id, faults>>

EnterTrigger(t) ==
    /\ pc[t] = "submit"
    /\ TriggerFree
    /\ trigger_lock' = t
    /\ now' = [now EXCEPT ![t] = clock]
    /\ Goto(t, "persist")
    /\ UNCHANGED <<clock, tables, scheduler_lock, req, pending, ctx, run_id,
                   faults>>

\* add_if_absent: a known event id is answered at once, whatever became of it.
PersistEvent(t) ==
    /\ pc[t] = "persist"
    /\ \/ /\ req[t] \in macro_events
          /\ Leave(t)
          /\ UNCHANGED macro_events
       \/ /\ req[t] \notin macro_events
          /\ macro_events' = macro_events \cup {req[t]}
          /\ Goto(t, "accept")
          /\ UNCHANGED <<locals, trigger_lock>>
    /\ UNCHANGED <<clock, event_log, runs, scheduler_lock, faults>>

\* A consensus-only event is recorded and answered; it starts nothing.
RecordAccepted(t) ==
    /\ pc[t] = "accept"
    /\ Record("event_accepted", {req[t]}, 0)
    /\ \/ /\ req[t] \notin CompleteEvents
          /\ Leave(t)
       \/ /\ req[t] \in CompleteEvents
          /\ Goto(t, "decide")
          /\ UNCHANGED <<locals, trigger_lock>>
    /\ UNCHANGED <<clock, macro_events, runs, scheduler_lock, faults>>

\* The two reads that decide (nobody else writes what they read while the
\* trigger lock is held).  The batch is never empty here: it holds req[t].
Decide(t) ==
    /\ pc[t] = "decide"
    /\ pending' = [pending EXCEPT ![t] = PendingCompleteEvents]
    /\ Goto(t, IF CoolingDown(now[t]) THEN "debounce" ELSE "run_event")
    /\ UNCHANGED <<clock, tables, trigger_lock, scheduler_lock, req, now, ctx,
                   run_id, faults>>

\* Inside the window, or refused by the scheduler: the events stay pending.
RecordDebounced(t) ==
    /\ pc[t] = "debounce"
    /\ Record("event_debounced", {req[t]}, 0)
    /\ Leave(t)
    /\ UNCHANGED <<clock, macro_events, runs, scheduler_lock, faults>>

\* scheduler.run_event: the non-blocking acquire, and OverlapError.
RunEvent(t) ==
    /\ pc[t] = "run_event"
    /\ \/ /\ SchedulerFree
          /\ scheduler_lock' = t
          /\ ctx' = [ctx EXCEPT ![t].by = "event_trigger"]
          /\ Goto(t, "context")
       \/ /\ ~SchedulerFree
          /\ Goto(t, "debounce")
          /\ UNCHANGED <<scheduler_lock, ctx>>
    /\ UNCHANGED <<clock, tables, trigger_lock, req, now, pending, run_id,
                   faults>>

\* Seeded fault: the row consumes the submitted event, not its batch.
RecordSubmittedOnly(t) ==
    /\ pc[t] = "triggered"
    /\ Record("event_triggered", {req[t]}, run_id[t])
    /\ Leave(t)
    /\ UNCHANGED <<clock, macro_events, runs, scheduler_lock, faults>>

\* The run is committed; the row that consumes its events comes only now.
RecordTriggered(t) ==
    /\ pc[t] = "triggered"
    /\ Record("event_triggered", pending[t], run_id[t])
    /\ Leave(t)
    /\ UNCHANGED <<clock, macro_events, runs, scheduler_lock, faults>>

RecordFailed(t) ==
    /\ pc[t] = "failed"
    /\ Record("event_failed", pending[t], 0)
    /\ Leave(t)
    /\ UNCHANGED <<clock, macro_events, runs, scheduler_lock, faults>>

-----------------------------------------------------------------------------
(* Scheduler.trigger and RunService.execute *)

\* Seeded fault: the caller is not written into the context.
TriggerRunAnonymously(t, by) ==
    /\ pc[t] = "idle"
    /\ SchedulerFree
    /\ Cardinality({i \in DOMAIN runs : runs[i].by # "event_trigger"}) < MaxOtherRuns
    /\ scheduler_lock' = t
    /\ Goto(t, "context")
    /\ UNCHANGED <<clock, tables, trigger_lock, req, now, pending, ctx, run_id,
                   faults>>

\* run_manual and run_scheduled take no part in the debounce; a busy
\* scheduler refuses them and the thread is free again.
TriggerRun(t, by) ==
    /\ pc[t] = "idle"
    /\ SchedulerFree
    /\ Cardinality({i \in DOMAIN runs : runs[i].by # "event_trigger"}) < MaxOtherRuns
    /\ scheduler_lock' = t
    /\ ctx' = [ctx EXCEPT ![t].by = by]
    /\ Goto(t, "context")
    /\ UNCHANGED <<clock, tables, trigger_lock, req, now, pending, run_id,
                   faults>>

\* The sequence is read in a transaction of its own, long before the run
\* that uses it commits.
MakeContext(t) ==
    /\ pc[t] = "context"
    /\ ctx' = [ctx EXCEPT ![t].seq = NextSequence,
                          ![t].at = clock,
                          ![t].events = pending[t]]
    /\ Goto(t, "execute")
    /\ UNCHANGED <<clock, tables, trigger_lock, scheduler_lock, req, now,
                   pending, run_id, faults>>

\* execute commits, the scheduler lock is released, and the caller goes on:
\* a submission with its record, the others with their answer.
CommitRun(t) ==
    /\ pc[t] = "execute"
    /\ runs' = Append(runs, ctx[t])
    /\ ReleaseScheduler
    /\ \/ /\ ctx[t].by = "event_trigger"
          /\ Goto(t, "triggered")
          /\ run_id' = [run_id EXCEPT ![t] = Len(runs) + 1]
          /\ ctx' = [ctx EXCEPT ![t] = NoContext]
          /\ UNCHANGED <<trigger_lock, req, now, pending>>
       \/ /\ ctx[t].by # "event_trigger"
          /\ Leave(t)
    /\ UNCHANGED <<clock, macro_events, event_log, faults>>

\* The sequence read, the ingestion, the orchestrator or the commit raises:
\* the run's transaction is rolled back and the lock released; submit turns
\* the exception into an EVENT_FAILED row, the other callers let it out.
FailRun(t) ==
    /\ InRun(t)
    /\ ReleaseScheduler
    /\ \/ /\ ctx[t].by = "event_trigger"
          /\ Goto(t, "failed")
          /\ ctx' = [ctx EXCEPT ![t] = NoContext]
          /\ UNCHANGED <<trigger_lock, req, now, pending, run_id>>
       \/ /\ ctx[t].by # "event_trigger"
          /\ Leave(t)
    /\ UNCHANGED <<clock, tables, faults>>

-----------------------------------------------------------------------------
(* The environment *)

Tick ==
    /\ clock < MaxClock
    /\ clock' = clock + 1
    /\ UNCHANGED <<tables, trigger_lock, scheduler_lock, pc, locals, faults>>

\* A transaction of submit raises: it is rolled back, the exception leaves
\* submit and the trigger lock is released.
DatabaseError(t) ==
    /\ faults < MaxFaults
    /\ pc[t] \in SubmitSteps \ {"submit", "run_event"}
    /\ faults' = faults + 1
    /\ Leave(t)
    /\ UNCHANGED <<clock, tables, scheduler_lock>>

\* The process dies and starts again: threads and locks are gone, an open
\* transaction is rolled back, the committed rows are read again.
Crash ==
    /\ faults < MaxFaults
    /\ \E t \in Threads : pc[t] # "idle"
    /\ faults' = faults + 1
    /\ trigger_lock' = NoThread
    /\ scheduler_lock' = NoThread
    /\ pc' = [t \in Threads |-> "idle"]
    /\ req' = [t \in Threads |-> NoEvent]
    /\ now' = [t \in Threads |-> 0]
    /\ pending' = [t \in Threads |-> {}]
    /\ ctx' = [t \in Threads |-> NoContext]
    /\ run_id' = [t \in Threads |-> 0]
    /\ UNCHANGED <<clock, tables>>

\* The steps a thread takes by itself once it holds what it waits for.
Proceed(t) ==
    \/ PersistEvent(t)
    \/ RecordAccepted(t)
    \/ Decide(t)
    \/ RecordDebounced(t)
    \/ RunEvent(t)
    \/ RecordTriggered(t)
    \/ RecordFailed(t)
    \/ MakeContext(t)
    \/ CommitRun(t)
    \/ FailRun(t)

Next ==
    \/ \E t \in Threads, e \in Events : Submit(t, e)
    \/ \E t \in Threads, by \in OtherCallers : TriggerRun(t, by)
    \/ \E t \in Threads : EnterTrigger(t)
    \/ \E t \in Threads : Proceed(t)
    \/ \E t \in Threads : DatabaseError(t)
    \/ Crash
    \/ Tick

Spec == Init /\ [][Next]_vars

\* A thread that holds a lock keeps running; a free trigger lock is taken by
\* one of those that wait for it.  Nothing obliges anyone to call, time to
\* pass, or anything to fail, and no waiting thread is promised its turn.
Fairness ==
    /\ \A t \in Threads : WF_vars(Proceed(t))
    /\ WF_vars(\E t \in Threads : EnterTrigger(t))

FairSpec == Spec /\ Fairness

=============================================================================
