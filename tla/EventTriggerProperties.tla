----------------------- MODULE EventTriggerProperties -----------------------
(***************************************************************************)
(* What must hold of the trigger path, and the contract it implements.     *)
(***************************************************************************)
EXTENDS EventTrigger

\* The shapes of the tables, the locks and the threads' frames.
TablesTyped ==
    /\ macro_events \subseteq Events
    /\ event_log \in Seq(LogRow)
    /\ runs \in Seq(RunContext)

Frame == [by : Callers \cup {"none"}, seq : Nat, at : Nat, events : SUBSET Events]

FramesTyped ==
    /\ pc \in [Threads -> {"idle"} \cup SubmitSteps \cup RunSteps]
    /\ req \in [Threads -> Events \cup {NoEvent}]
    /\ now \in [Threads -> Nat]
    /\ pending \in [Threads -> SUBSET Events]
    /\ ctx \in [Threads -> Frame]
    /\ run_id \in [Threads -> Nat]

TypeOK ==
    /\ clock \in 0..MaxClock
    /\ faults \in 0..MaxFaults
    /\ trigger_lock \in Threads \cup {NoThread}
    /\ scheduler_lock \in Threads \cup {NoThread}
    /\ TablesTyped
    /\ FramesTyped

-----------------------------------------------------------------------------
(* Safety *)

\* Stale read: the batch a submission selects is used long after the read
\* (the run in between calls language models).  It is still exactly what is
\* pending, and the window it was found outside of is still over, when the
\* run is committed and when the batch is recorded.
BatchFresh ==
    \A t \in Threads :
        InSubmit(t) /\ pc[t] \in {"run_event", "triggered", "failed"} \cup RunSteps =>
            /\ req[t] \in pending[t]
            /\ pending[t] = PendingCompleteEvents
            /\ ~CoolingDown(now[t])

\* Every EVENT_TRIGGERED row names a committed event run over exactly the
\* events it consumes, and no event is consumed twice.
TriggeredNamesItsRun ==
    \A i \in Triggered :
        /\ event_log[i].run \in DOMAIN runs
        /\ runs[event_log[i].run].by = "event_trigger"
        /\ runs[event_log[i].run].events = event_log[i].events
        /\ \A j \in Triggered :
              i # j => event_log[i].events \cap event_log[j].events = {}

\* Two event runs are recorded at least a cooldown apart (the row of the
\* first starts the window, however long its run took).
TriggeredSpaced ==
    \A i, j \in Triggered :
        i < j => event_log[j].at >= event_log[i].at + Cooldown

\* Aggregation leaves nobody behind: an event run consumes every complete
\* event accepted before it, the debounced ones included.
BatchTakesAllBefore ==
    \A k \in Triggered : \A i \in 1..k :
        event_log[i].type = "event_accepted" =>
            (event_log[i].events \cap CompleteEvents) \subseteq
                UNION {event_log[j].events : j \in Triggered \cap 1..k}

\* run_sequence, read before a run and written after it, numbers the
\* committed runs 1, 2, 3, ... without a gap or a repetition: failed runs,
\* refused triggers and crashes do not use one up.
SequenceDense == \A i \in DOMAIN runs : runs[i].seq = i

EventRunsOf(e) ==
    {i \in DOMAIN runs : runs[i].by = "event_trigger" /\ e \in runs[i].events}

\* An event is in one event run; each further one takes a fault between the
\* commit of the run and the row that consumes its events.
RunsPerEventBounded ==
    \A e \in Events : Cardinality(EventRunsOf(e)) <= 1 + faults

\* Without faults event runs are a cooldown apart by their own clock, too:
\* the instant a run works with, not only the row written after it.
EventRunsSpaced ==
    faults = 0 =>
        \A i, j \in DOMAIN runs :
            i < j /\ runs[i].by = "event_trigger" /\ runs[j].by = "event_trigger"
                => runs[j].at >= runs[i].at + Cooldown

\* The state the API serves as the latest is that of the run committed last,
\* whoever asked for it, also when several runs share an instant.
LatestIsLastCommitted ==
    runs # <<>> => Latest = {Len(runs)}

-----------------------------------------------------------------------------
(* The inductive invariant behind the safety properties. *)

\* A thread holds the trigger lock exactly while it is inside submit, and
\* the scheduler lock exactly while it is inside a run.
LockInv ==
    \A t \in Threads :
        /\ (trigger_lock = t) <=> InSubmit(t)
        /\ (scheduler_lock = t) <=> InRun(t)

\* What a frame holds at each step.
FrameOK(t) ==
    /\ pc[t] = "idle" => req[t] = NoEvent
    /\ pc[t] \in SubmitSteps => req[t] \in Events
    /\ req[t] = NoEvent => pending[t] = {}
    /\ InRun(t) => ctx[t].by \in Callers
    /\ InRun(t) => (ctx[t].by = "event_trigger" <=> req[t] # NoEvent)
    /\ pc[t] = "execute" => ctx[t].events = pending[t]
    /\ now[t] <= clock

FrameInv == \A t \in Threads : FrameOK(t)

\* The submitted event on its way into the batch.
SubmittedInv ==
    /\ TriggeredEvents \subseteq macro_events
    /\ \A t \in Threads :
          /\ pc[t] \in {"accept", "decide"} => req[t] \in macro_events \ TriggeredEvents
          /\ pc[t] = "decide" => req[t] \in CompleteEvents

\* Between its read and its commit a sequence number stays the next one.
SequenceInv ==
    /\ SequenceDense
    /\ \A t \in Threads : pc[t] = "execute" => ctx[t].seq = Len(runs) + 1

\* A committed run waits for its row.
CommittedInv ==
    \A t \in Threads :
        pc[t] = "triggered" =>
            /\ run_id[t] \in DOMAIN runs
            /\ runs[run_id[t]].by = "event_trigger"
            /\ runs[run_id[t]].events = pending[t]

\* There is a last EVENT_TRIGGERED row (the one the code reads), and no row
\* is stamped in the future.
LastTriggeredInv ==
    /\ Triggered # {} => \E i \in Triggered : \A j \in Triggered : j <= i
    /\ \A i \in Triggered : event_log[i].at <= clock

TriggerInv ==
    /\ TypeOK
    /\ LockInv
    /\ FrameInv
    /\ SequenceInv
    /\ SubmittedInv
    /\ BatchFresh
    /\ CommittedInv
    /\ LastTriggeredInv
    /\ TriggeredNamesItsRun
    /\ TriggeredSpaced

-----------------------------------------------------------------------------
(* What runs and rows keep, on top of TriggerInv. *)

\* The instants of runs never go back: a run under way has read the clock
\* later than its submission, and later than every committed run.
RunClockInv ==
    /\ \A i, j \in DOMAIN runs : i <= j => runs[i].at <= runs[j].at
    /\ \A i \in DOMAIN runs : runs[i].at <= clock
    /\ \A t \in Threads :
          pc[t] = "execute" =>
              /\ now[t] <= ctx[t].at /\ ctx[t].at <= clock
              /\ \A i \in DOMAIN runs : runs[i].at <= ctx[t].at

LoggedAs(e, types) ==
    \E i \in DOMAIN event_log :
        event_log[i].type \in types /\ e \in event_log[i].events

\* A submission past its acceptance.
Accepted(t) ==
    InSubmit(t) /\ pc[t] \notin {"persist", "accept"}

\* Accepted events are stored, and their submissions logged.
AcceptedInv ==
    /\ \A i \in DOMAIN event_log :
          event_log[i].type = "event_accepted" => event_log[i].events \subseteq macro_events
    /\ \A t \in Threads :
          Accepted(t) =>
              req[t] \in macro_events /\ LoggedAs(req[t], {"event_accepted"})

\* An event run leaves its events consumed by a row, or about to be.
Settled(e) ==
    \/ e \in TriggeredEvents
    \/ \E t \in Threads : pc[t] = "triggered" /\ e \in pending[t]

RunsPerEventInv ==
    \A e \in Events :
        Cardinality(EventRunsOf(e)) <= faults + (IF Settled(e) THEN 1 ELSE 0)

\* A row is written after its run began; and without faults each event run
\* has its row, or its submission is on the way to write it.
RunRowsInv ==
    /\ \A i \in Triggered : event_log[i].at >= runs[event_log[i].run].at
    /\ faults = 0 =>
          \A i \in DOMAIN runs :
              runs[i].by = "event_trigger" =>
                  \/ \E k \in Triggered : event_log[k].run = i
                  \/ \E t \in Threads : pc[t] = "triggered" /\ run_id[t] = i

HistoryInv ==
    /\ RunClockInv
    /\ AcceptedInv
    /\ RunsPerEventInv
    /\ RunRowsInv
    /\ EventRunsSpaced
    /\ BatchTakesAllBefore

-----------------------------------------------------------------------------
(* Action properties *)

\* A submission that gets its answer (no error, no crash) leaves its event
\* stored. If it is this submission that stored it, the log names it as
\* accepted and, when complete, as triggered, debounced or failed, too.
AnsweredIsDurable ==
    [][\A t \in Threads, e \in Events :
          InSubmit(t) /\ req[t] = e /\ pc'[t] = "idle" /\ faults' = faults =>
              /\ e \in macro_events'
              /\ pc[t] # "persist" => LoggedAs(e, {"event_accepted"})'
              /\ pc[t] # "persist" /\ e \in CompleteEvents =>
                    LoggedAs(e, EventTypes \ {"event_accepted"})']_vars

-----------------------------------------------------------------------------
(* Liveness *)

\* The two locks are taken in one order and the inner one is never waited
\* for: whoever holds one lets it go.
LocksReleased ==
    /\ (trigger_lock # NoThread) ~> (trigger_lock = NoThread)
    /\ \A t \in Threads : (scheduler_lock = t) ~> (scheduler_lock # t)

-----------------------------------------------------------------------------
(* The contract *)

\* Complete stored events are the accepted ones, EVENT_TRIGGERED rows the
\* batches; threads, locks, runs, errors and crashes are its stuttering.
Contract == INSTANCE DebounceContract WITH
    accepted <- macro_events \cap CompleteEvents,
    batches <- {[events |-> event_log[i].events, at |-> event_log[i].at] :
                   i \in Triggered}

ImplementsContract == Contract!ContractSpec

-----------------------------------------------------------------------------
(* What the documents say and the code does not do. *)

\* architecture/pipelines.md section 1: "max one event run per 30 minutes".
\* Here an event run is a run persisted with trigger type "event".
OneEventRunPerCooldown ==
    \A i, j \in DOMAIN runs :
        i < j /\ TriggerType(runs[i].by) = "event"
              /\ TriggerType(runs[j].by) = "event"
            => runs[j].at >= runs[i].at + Cooldown

=============================================================================
