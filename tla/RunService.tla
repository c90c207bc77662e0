----------------------------- MODULE RunService -----------------------------
(***************************************************************************)
(* RunService.execute around PipelineOrchestrator.run: one run is one      *)
(* session, opened before the idempotency check and committed after the    *)
(* last row, with the two reasoning jobs in between.  Call Records reach   *)
(* the service through a list it shares with the gateway, outside the      *)
(* session.  Executions come one at a time: the Scheduler lock is held.    *)
(*                                                                         *)
(* The deterministic stages are kept only as what can raise.  A reasoning  *)
(* job is any that keeps the promise of ReasoningJob.                      *)
(*                                                                         *)
(* "Seeded fault" marks a plausible bug in the definition after it.        *)
(***************************************************************************)
EXTENDS ReasoningJob

CONSTANTS
    RunIds,        \* run identities the callers use, repeated ones included
    NoRun,         \* no execution under way
    Replay,        \* is this the service of a replay container?
    MaxExecutions  \* bound: executions begun

ASSUME RunServiceAssumption ==
    /\ NoRun \notin RunIds
    /\ Replay \in BOOLEAN
    /\ MaxExecutions \in Nat

VARIABLES
    runs,          \* table runs: run_id and status
    run_inputs,    \* table run_inputs: its run ids
    run_outputs,   \* table run_outputs: its run ids (the rows of
                   \* rule_activations are a projection of it)
    call_records,  \* table call_records, in insertion order
    event_log,     \* table event_log: the rows of runs, in order
    session,       \* the rows added to the open session, by table
    sink,          \* call_record_sink: what the gateway recorded
    pc,            \* where execute stands
    run_id,        \* ctx.run_id
    failed,        \* the jobs of this run that came back degraded
    executions,    \* executions begun
    answers        \* what execute returned or raised, in order

tables == <<runs, run_inputs, run_outputs, call_records, event_log>>
vars == <<tables, session, sink, pc, run_id, failed, executions, answers>>

Jobs == {"sentiment", "synthesis"}
Statuses == {"published", "degraded"}
EventTypes == {"run_start", "replay", "run_finish", "degraded", "provider_call",
               "scheduler", "run_failure"}
StartType == IF Replay THEN "replay" ELSE "run_start"

RunRow == [run : RunIds, status : Statuses]
CallRecord == [run : RunIds, job : Jobs, outcome : Outcomes]
LogRow == [run : RunIds, type : EventTypes]
Raised == {"provider_error", "pipeline_error", "database_error"}
Answer == [run : RunIds, how : Statuses \cup {"exists"} \cup Raised]

EmptySession ==
    [runs |-> {}, inputs |-> {}, outputs |-> {}, calls |-> <<>>, log |-> <<>>]

\* What a job may leave behind and return.
Trails == UNION {[1..n -> Outcomes] : n \in 0..N}

Persisted == {row.run : row \in runs}

-----------------------------------------------------------------------------
Init ==
    /\ runs = {}
    /\ run_inputs = {}
    /\ run_outputs = {}
    /\ call_records = <<>>
    /\ event_log = <<>>
    /\ session = EmptySession
    /\ sink = <<>>
    /\ pc = "idle"
    /\ run_id = NoRun
    /\ failed = {}
    /\ executions = 0
    /\ answers = <<>>

Log(type) == [run |-> run_id, type |-> type]

\* The `with` block is left: its rows are in the tables, or nowhere.
Close ==
    /\ session' = EmptySession
    /\ pc' = "idle"
    /\ run_id' = NoRun
    /\ failed' = {}

\* Seeded fault: the event log is written through a session of its own.
RollbackKeepsLog(how) ==
    /\ Close
    /\ answers' = Append(answers, [run |-> run_id, how |-> how])
    /\ event_log' = event_log \o session.log
    /\ UNCHANGED <<runs, run_inputs, run_outputs, call_records, sink, executions>>

Rollback(how) ==
    /\ Close
    /\ answers' = Append(answers, [run |-> run_id, how |-> how])
    /\ UNCHANGED <<tables, sink, executions>>

\* Seeded fault: the sink is left as the last execution left it.
KeepSink == UNCHANGED sink

ClearSink == sink' = <<>>

\* Seeded fault: no idempotency check.
NeverExists(id) == FALSE

Exists(id) == id \in Persisted

Execute(id) ==
    /\ pc = "idle"
    /\ executions < MaxExecutions
    /\ executions' = executions + 1
    /\ ClearSink
    /\ run_id' = id
    /\ \/ /\ Exists(id)
          /\ session' = [EmptySession EXCEPT !.log = <<[run |-> id, type |-> "scheduler"]>>]
          /\ pc' = "commit"
       \/ /\ ~Exists(id)
          /\ session' = [EmptySession EXCEPT !.log = <<[run |-> id, type |-> StartType]>>]
          /\ pc' = "sentiment"
    /\ UNCHANGED <<tables, failed, answers>>

\* A job runs and its records are in the sink, whatever comes of it.  An
\* exception of the gateway leaves orchestrator.run as any other would: the
\* RUN_FAILURE row joins a session that the same exception rolls back.
Reason(job, next) ==
    \E trail \in Trails, outcome \in JobOutcomes :
        /\ JobKept(trail, outcome)
        /\ sink' = sink \o [k \in DOMAIN trail |->
                               [run |-> run_id, job |-> job, outcome |-> trail[k]]]
        /\ \/ /\ outcome = "raised"
              /\ Close
              /\ answers' = Append(answers, [run |-> run_id, how |-> "provider_error"])
           \/ /\ outcome # "raised"
              /\ failed' = IF outcome = "degraded" THEN failed \cup {job} ELSE failed
              /\ pc' = next
              /\ UNCHANGED <<session, run_id, answers>>
        /\ UNCHANGED <<tables, executions>>

\* Call #1 is made only over eligible evidence; its absence is no failure.
Sentiment ==
    /\ pc = "sentiment"
    /\ \/ Reason("sentiment", "synthesis")
       \/ /\ pc' = "synthesis"
          /\ UNCHANGED <<tables, session, sink, run_id, failed, executions, answers>>

Synthesis ==
    /\ pc = "synthesis"
    /\ Reason("synthesis", "persist")

\* A deterministic stage of orchestrator.run raises.
StageFails ==
    /\ pc \in {"sentiment", "synthesis", "persist"}
    /\ Rollback("pipeline_error")

\* Seeded fault: only a failed synthesis degrades the run.
DegradedBySynthesis == "synthesis" \in failed

IsDegraded == failed # {}
Status == IF IsDegraded THEN "degraded" ELSE "published"

\* Seeded fault: one provider_call row for the run, not for each call.
FinishRowsOnce ==
    <<Log("provider_call"), Log("run_finish")>>

FinishRows ==
    [k \in DOMAIN sink |-> Log("provider_call")]
        \o (IF IsDegraded THEN <<Log("degraded")>> ELSE <<>>)
        \o <<Log("run_finish")>>

Persist ==
    /\ pc = "persist"
    /\ session' = [runs |-> {[run |-> run_id, status |-> Status]},
                   inputs |-> {run_id},
                   outputs |-> {run_id},
                   calls |-> sink,
                   log |-> session.log \o FinishRows]
    /\ pc' = "commit"
    /\ UNCHANGED <<tables, sink, run_id, failed, executions, answers>>

\* session.commit(): all rows at once.
Commit ==
    /\ pc = "commit"
    /\ runs' = runs \cup session.runs
    /\ run_inputs' = run_inputs \cup session.inputs
    /\ run_outputs' = run_outputs \cup session.outputs
    /\ call_records' = call_records \o session.calls
    /\ event_log' = event_log \o session.log
    /\ answers' = Append(answers,
          [run |-> run_id, how |-> IF session.runs = {} THEN "exists" ELSE Status])
    /\ Close
    /\ UNCHANGED <<sink, executions>>

\* The database refuses a row or the commit.
DatabaseError ==
    /\ pc \in {"persist", "commit"}
    /\ Rollback("database_error")

\* The process dies: the open session is never committed, the sink is gone.
Crash ==
    /\ pc # "idle"
    /\ Close
    /\ sink' = <<>>
    /\ UNCHANGED <<tables, executions, answers>>

Next ==
    \/ \E id \in RunIds : Execute(id)
    \/ Sentiment
    \/ Synthesis
    \/ StageFails
    \/ Persist
    \/ Commit
    \/ DatabaseError
    \/ Crash

Spec == Init /\ [][Next]_vars

=============================================================================
