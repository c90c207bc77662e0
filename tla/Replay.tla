------------------------------- MODULE Replay -------------------------------
(***************************************************************************)
(* Replaying a stored run.  The gateway first works live, through as many  *)
(* jobs as it likes; then the records of one run, one or two jobs of it,   *)
(* are taken from the database and a fresh gateway is run over them, each  *)
(* provider's adapter a ReplayProvider.                                    *)
(*                                                                         *)
(* The run under replay has its old run id, so its chain begins where it   *)
(* began; its jobs' prompts differ, so a recorded call answers only the    *)
(* job it was made for.                                                    *)
(*                                                                         *)
(* "Seeded fault" marks a plausible bug in the definition after it.        *)
(***************************************************************************)
EXTENDS LLMGateway, Listing, Functions

VARIABLES
    phase,   \* "live" or "replay"
    stored,  \* LoadedRun.call_records, jobs numbered from 1
    given,   \* what each stored job had returned
    queue    \* ReplayProvider._by_hash, by provider and job

replayVars == <<vars, phase, stored, given, queue>>

ReplayInit ==
    /\ Init
    /\ phase = "live"
    /\ stored = <<>>
    /\ given = <<>>
    /\ queue = [place \in Providers \X (1..2) |-> <<>>]

Live ==
    /\ phase = "live"
    /\ Next
    /\ UNCHANGED <<phase, stored, given, queue>>

\* Seeded fault: skipped providers are not stored with the run.
RunCalls(size) ==
    LET before == Len(outcomes) - size
        mine == Chosen(records, {k \in DOMAIN records :
                    records[k].job > before /\ records[k].outcome # "circuit_open"})
    IN  [k \in DOMAIN mine |-> [mine[k] EXCEPT !.job = @ - before]]

\* The records of the last `size` jobs, as those of jobs 1..size.
RunRecords(size) ==
    LET before == Len(outcomes) - size
        mine == Chosen(records, {k \in DOMAIN records : records[k].job > before})
    IN  [k \in DOMAIN mine |-> [mine[k] EXCEPT !.job = @ - before]]

\* CallRecordRepository.list_for_run orders by (created_at, attempt_index):
\* records of two jobs made at one instant come as the database has them.
Listings(run) ==
    LET Before(r, s) == r.at < s.at \/ (r.at = s.at /\ r.index <= s.index)
        Listing(order) == [k \in DOMAIN run |-> run[order[k]]]
    IN  {listed \in {Listing(order) : order \in Bijection(DOMAIN run, DOMAIN run)} :
            \A j, k \in DOMAIN run : j < k => Before(listed[j], listed[k])}

\* A run was stored if none of its jobs raised, and its jobs share a run id,
\* hence a first pick.
StoredRun(size) ==
    /\ size <= Len(outcomes)
    /\ \A job \in Len(outcomes) - size + 1 .. Len(outcomes) : outcomes[job] # "raised"
    /\ \A r, s \in {RunRecords(size)[k] : k \in DOMAIN RunRecords(size)} :
          r.index = 0 /\ s.index = 0 => r.provider = s.provider

\* Seeded fault: one queue per provider for all prompts.
QueueForAll(run, p, job) ==
    LET mine == Chosen(run, {k \in DOMAIN run : run[k].provider = p})
    IN  [k \in DOMAIN mine |-> mine[k].outcome]

QueueOf(run, p, job) ==
    LET mine == Chosen(run, {k \in DOMAIN run :
                    run[k].provider = p /\ run[k].job = job})
    IN  [k \in DOMAIN mine |-> mine[k].outcome]

\* ReplayHarness.load and the container it builds: new breakers, an empty
\* sink, and a clock that stands still.
Load(size) ==
    /\ phase = "live"
    /\ pc = "idle"
    /\ StoredRun(size)
    /\ phase' = "replay"
    /\ stored' \in Listings(RunRecords(size))
    /\ given' = SubSeq(outcomes, Len(outcomes) - size + 1, Len(outcomes))
    /\ queue' = [place \in Providers \X (1..2) |-> QueueOf(stored', place[1], place[2])]
    /\ clock' = 0
    /\ breakers' = [p \in Providers |-> NewBreaker]
    /\ records' = <<>>
    /\ outcomes' = <<>>
    /\ UNCHANGED <<pc, first, position, tries, since, started>>

\* The next job of the run under replay.
AskAgain ==
    /\ pc = "idle"
    /\ Len(outcomes) < Len(given)
    /\ pc' = "chain"
    /\ first' \in {stored[k].provider : k \in {j \in DOMAIN stored : stored[j].index = 0}}
    /\ UNCHANGED <<clock, breakers, position, tries, since, started, records,
                   outcomes, queue>>

Walk ==
    /\ \/ Degrade
       \/ SkipOpen
       \/ Call
    /\ UNCHANGED queue

\* ReplayProvider.complete: the recorded calls of this provider for this
\* prompt, first one first.
Recorded == queue[<<Current, Len(outcomes) + 1>>]

Pop == queue' = [queue EXCEPT ![<<Current, Len(outcomes) + 1>>] = Tail(@)]

\* Nothing (more) is recorded: ProviderCallError.
CompleteUnknown ==
    /\ pc = "call"
    /\ Recorded = <<>>
    /\ RetryOrFail("error")
    /\ UNCHANGED <<clock, queue>>

CompleteTimeout ==
    /\ pc = "call"
    /\ Recorded # <<>>
    /\ Head(Recorded) = "timeout"
    /\ RetryOrFail("timeout")
    /\ Pop
    /\ UNCHANGED clock

\* A skipped provider is replayed as one that failed.
CompleteError ==
    /\ pc = "call"
    /\ Recorded # <<>>
    /\ Head(Recorded) \in {"error", "circuit_open"}
    /\ RetryOrFail("error")
    /\ Pop
    /\ UNCHANGED clock

CompleteSuccess ==
    /\ pc = "call"
    /\ Recorded # <<>>
    /\ Head(Recorded) = "success"
    /\ CallSucceeds
    /\ Pop

Again ==
    /\ phase = "replay"
    /\ \/ AskAgain
       \/ Walk
       \/ CompleteUnknown
       \/ CompleteTimeout
       \/ CompleteError
       \/ CompleteSuccess
    /\ UNCHANGED <<phase, stored, given>>

ReplayNext ==
    \/ Live
    \/ \E size \in 1..2 : Load(size)
    \/ Again

ReplaySpec == ReplayInit /\ [][ReplayNext]_replayVars

-----------------------------------------------------------------------------
(* Properties *)

Replayed == phase = "replay" /\ pc = "idle" /\ Len(outcomes) = Len(given)

Compared(r) == <<r.job, r.index, r.provider, r.outcome>>

TrailIn(listing, job) ==
    Chosen(listing, {k \in DOMAIN listing : listing[k].job = job})

\* Every job of the replayed run takes the same way through the providers as
\* it did in the stored run and has the same end, by the same provider:
\* nothing that an open breaker, a retry or a timeout did live changes what is
\* reproduced.
ReplayAnswersAlike ==
    Replayed =>
        /\ outcomes = given
        /\ \A job \in DOMAIN given :
              LET then == TrailIn(stored, job)
                  now == TrailIn(records, job)
              IN  /\ Len(now) = Len(then)
                  /\ \A k \in DOMAIN then :
                        /\ now[k].index = then[k].index
                        /\ now[k].provider = then[k].provider
                        /\ now[k].outcome = "success" <=> then[k].outcome = "success"

\* verify_replay, which compares record by record, calls a replay matched
\* exactly when the stored run met no open breaker, when retries did not hide
\* the error after a recorded timeout, and when the database lists the calls
\* of the first job before those of the second.
VerifiedExactly ==
    Replayed =>
        ((Len(stored) = Len(records)
            /\ \A k \in DOMAIN stored : Compared(records[k]) = Compared(stored[k]))
            <=>
         (/\ \A k \in DOMAIN stored :
                /\ stored[k].outcome # "circuit_open"
                /\ stored[k].outcome = "timeout" => Retries = 0
          /\ \A j, k \in DOMAIN stored : j < k => stored[j].job <= stored[k].job))

=============================================================================
