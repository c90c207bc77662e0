------------------------ MODULE RunServiceProperties ------------------------
(***************************************************************************)
(* What the tables must say of the runs, whatever failed in between.       *)
(***************************************************************************)
EXTENDS RunService, FiniteSets

\* The shapes of the tables and of the open session; the sink has the records
\* of one execution at most.
TypeOK ==
    /\ runs \subseteq RunRow
    /\ run_inputs \subseteq RunIds
    /\ run_outputs \subseteq RunIds
    /\ call_records \in Seq(CallRecord)
    /\ event_log \in Seq(LogRow)
    /\ session.runs \subseteq RunRow
    /\ session.calls \in Seq(CallRecord)
    /\ session.log \in Seq(LogRow)
    /\ sink \in Seq(CallRecord)
    /\ Len(sink) <= 2 * N
    /\ pc \in {"idle", "sentiment", "synthesis", "persist", "commit"}
    /\ run_id \in RunIds \cup {NoRun}
    /\ failed \subseteq Jobs
    /\ executions \in 0..MaxExecutions
    /\ answers \in Seq(Answer)

RowsOf(id, types) ==
    {i \in DOMAIN event_log : event_log[i].run = id /\ event_log[i].type \in types}

CallsOf(id, job) ==
    {i \in DOMAIN call_records : call_records[i].run = id /\ call_records[i].job = job}

\* The outcomes of the n records of calls that come after the first ones.
OutcomesAfter(calls, first, n) == [k \in 1..n |-> calls[first + k].outcome]

\* Those n records are the calls of one job, which failed or did not.
Recorded(calls, first, n, isFailed) ==
    JobKept(OutcomesAfter(calls, first, n), IF isFailed THEN "degraded" ELSE "answered")

\* A run is in every table or in none: one row each in runs, run_inputs and
\* run_outputs, one start and one finish in the log, and the start first.
PersistedTogether ==
    /\ Cardinality(runs) = Cardinality(Persisted)
    /\ run_inputs = Persisted
    /\ run_outputs = Persisted
    /\ \A id \in RunIds :
          LET starts == RowsOf(id, {"run_start", "replay"})
              ends == RowsOf(id, {"run_finish"})
          IN  /\ Cardinality(starts) = IF id \in Persisted THEN 1 ELSE 0
              /\ Cardinality(ends) = Cardinality(starts)
              /\ \A i \in starts : \A j \in ends : i < j
              /\ id \notin Persisted => RowsOf(id, EventTypes) = {}

\* A persisted run has the calls of its own execution, all of them and no
\* others, in one piece: each job's records are those of exactly one job,
\* though the run id may have been executed before and have failed half way
\* through.
CallsAreTheRuns ==
    \A id \in RunIds :
        LET sentiment == CallsOf(id, "sentiment")
            synthesis == CallsOf(id, "synthesis")
        IN  IF id \in Persisted
            THEN \E first \in 0..Len(call_records), s, n \in 0..N :
                    /\ sentiment = (first + 1)..(first + s)
                    /\ synthesis = (first + s + 1)..(first + s + n)
                    /\ s = 0 \/ \E isFailed \in BOOLEAN : Recorded(call_records, first, s, isFailed)
                    /\ \E isFailed \in BOOLEAN : Recorded(call_records, first + s, n, isFailed)
                    /\ Cardinality(RowsOf(id, {"provider_call"})) = s + n
            ELSE sentiment = {} /\ synthesis = {}

Succeeded(id, job) == \E i \in CallsOf(id, job) : call_records[i].outcome = "success"

\* The status of a run can be told from its calls: degraded exactly when a
\* job that was tried has no successful call; and the log says so as well.
StatusMatchesCalls ==
    \A row \in runs :
        /\ row.status = "degraded" <=>
              \/ ~Succeeded(row.run, "synthesis")
              \/ CallsOf(row.run, "sentiment") # {} /\ ~Succeeded(row.run, "sentiment")
        /\ row.status = "degraded" <=> RowsOf(row.run, {"degraded"}) # {}

\* Executing a persisted run id again adds one scheduler row and nothing else,
\* whichever way it ends.
RetriggerIsNoop ==
    [][\A id \in Persisted :
          run_id = id /\ pc # "idle" =>
              /\ UNCHANGED <<runs, run_inputs, run_outputs, call_records>>
              /\ event_log' \in {event_log, Append(event_log, [run |-> id, type |-> "scheduler"])}
      ]_vars

-----------------------------------------------------------------------------
(* The inductive invariant behind them. *)

\* The records of one execution: sentiment's calls, if it was tried, before
\* those of the synthesis.
SentimentKept(calls, first, s, jobs) ==
    \/ s = 0 /\ "sentiment" \notin jobs
    \/ Recorded(calls, first, s, "sentiment" \in jobs)

SynthesisKept(calls, first, n, jobs) ==
    Recorded(calls, first, n, "synthesis" \in jobs)

\* The sink of an execution past both jobs.
SinkKept ==
    \E s \in 0..N, n \in 0..N :
        /\ Len(sink) = s + n
        /\ \A k \in 1..s : sink[k].job = "sentiment"
        /\ \A k \in 1..n : sink[s + k].job = "synthesis"
        /\ SentimentKept(sink, 0, s, failed)
        /\ SynthesisKept(sink, s, n, failed)

StartSession == [EmptySession EXCEPT !.log = <<Log(StartType)>>]
NoopSession == [EmptySession EXCEPT !.log = <<Log("scheduler")>>]
FinishedSession ==
    [runs |-> {[run |-> run_id, status |-> Status]},
     inputs |-> {run_id},
     outputs |-> {run_id},
     calls |-> sink,
     log |-> <<Log(StartType)>> \o FinishRows]

\* What the execution under way holds at each step: the run id is new unless
\* all there is to commit is a scheduler row, and the sink has its own calls.
ExecutionInv ==
    /\ pc = "idle" => run_id = NoRun /\ session = EmptySession /\ failed = {}
    /\ pc # "idle" => run_id \in RunIds
    /\ pc \in {"sentiment", "synthesis", "persist"} =>
          run_id \notin Persisted /\ session = StartSession
    /\ pc = "sentiment" => sink = <<>> /\ failed = {}
    /\ pc = "synthesis" =>
          /\ failed \subseteq {"sentiment"}
          /\ Len(sink) <= N
          /\ \A k \in DOMAIN sink : sink[k].job = "sentiment"
          /\ SentimentKept(sink, 0, Len(sink), failed)
    /\ pc = "persist" => SinkKept
    /\ pc = "commit" =>
          \/ run_id \in Persisted /\ session = NoopSession
          \/ run_id \notin Persisted /\ session = FinishedSession /\ SinkKept
    /\ pc # "idle" /\ run_id \notin Persisted =>
          \A k \in DOMAIN sink : sink[k].run = run_id

\* What the tables hold of a persisted run: its calls after the first ones of
\* the table, its rows after the first ones of the log.
CallsKept(id, first, s, n, jobs) ==
    /\ CallsOf(id, "sentiment") = (first + 1)..(first + s)
    /\ CallsOf(id, "synthesis") = (first + s + 1)..(first + s + n)
    /\ SentimentKept(call_records, first, s, jobs)
    /\ SynthesisKept(call_records, first + s, n, jobs)

LogKept(id, first, calls, isDegraded) ==
    /\ RowsOf(id, {"run_start", "replay"}) = {first + 1}
    /\ RowsOf(id, {"provider_call"}) = (first + 2)..(first + 1 + calls)
    /\ RowsOf(id, {"degraded"}) = IF isDegraded THEN {first + 2 + calls} ELSE {}
    /\ RowsOf(id, {"run_finish"}) =
          {first + 2 + calls + (IF isDegraded THEN 1 ELSE 0)}

RowKept(row) ==
    \E calls \in 0..Len(call_records), rows \in 0..Len(event_log), s, n \in 0..N,
       jobs \in SUBSET Jobs :
        /\ row.status = "degraded" <=> jobs # {}
        /\ CallsKept(row.run, calls, s, n, jobs)
        /\ LogKept(row.run, rows, s + n, jobs # {})

TablesInv ==
    /\ IsFiniteSet(runs) /\ IsFiniteSet(Persisted)
    /\ Cardinality(runs) = Cardinality(Persisted)
    /\ run_inputs = Persisted
    /\ run_outputs = Persisted
    /\ \A row \in runs : RowKept(row)
    /\ \A id \in RunIds \ Persisted :
          /\ RowsOf(id, EventTypes) = {}
          /\ \A job \in Jobs : CallsOf(id, job) = {}

RunServiceInv == TypeOK /\ ExecutionInv /\ TablesInv

=============================================================================
