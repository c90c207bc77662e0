------------------------- MODULE EventTriggerProofs -------------------------
(***************************************************************************)
(* Proofs about the trigger path, for every value of the constants.        *)
(***************************************************************************)
EXTENDS EventTriggerProperties, FiniteSetTheorems, TLAPS

USE DEF TriggerFree, SchedulerFree, ReleaseScheduler

(* The sequence number read back when the committed runs are numbered      *)
(* 1, 2, 3, ...: one more than their count.                                *)
LEMMA NextSequenceIsNext ==
  ASSUME TypeOK, SequenceDense
  PROVE  NextSequence = Len(runs) + 1
<1>1. Len(runs) \in Nat
  BY DEF TypeOK
<1>2. DOMAIN runs = 1..Len(runs)
  BY DEF TypeOK
<1>3. UsedSequences = 1..Len(runs)
  BY <1>1, <1>2 DEF SequenceDense, UsedSequences
<1>4. CASE Len(runs) = 0
  BY <1>3, <1>4 DEF NextSequence
<1>5. CASE Len(runs) # 0
  <2>1. /\ Len(runs) \in UsedSequences
        /\ \A r \in UsedSequences : r <= Len(runs)
    BY <1>1, <1>3, <1>5
  <2>2. \A s \in UsedSequences :
          (\A r \in UsedSequences : r <= s) => s = Len(runs)
    <3> SUFFICES ASSUME NEW s \in UsedSequences, \A r \in UsedSequences : r <= s
                 PROVE  s = Len(runs)
      OBVIOUS
    <3>1. Len(runs) <= s /\ s <= Len(runs)
      BY <2>1
    <3>2. s \in Nat
      BY <1>1, <1>3
    <3> QED
      BY <1>1, <3>1, <3>2
  <2>3. (CHOOSE s \in UsedSequences : \A r \in UsedSequences : r <= s) = Len(runs)
    BY <2>1, <2>2
  <2>4. UsedSequences # {}
    BY <2>1
  <2>5. NextSequence = 1 + Len(runs)
    BY <2>3, <2>4 DEF NextSequence
  <2> QED
    BY <2>5, <1>1
<1> QED
  BY <1>1, <1>4, <1>5

-----------------------------------------------------------------------------
(* Frames.  A step of one thread leaves the frames of the others alone, so *)
(* an invariant of frames is checked on the frame of the thread that moves.*)
SameFrame(u) ==
  /\ pc'[u] = pc[u] /\ req'[u] = req[u] /\ now'[u] = now[u]
  /\ pending'[u] = pending[u] /\ ctx'[u] = ctx[u] /\ run_id'[u] = run_id[u]

LeftFrame(t) ==
  /\ pc'[t] = "idle" /\ req'[t] = NoEvent /\ now'[t] = 0
  /\ pending'[t] = {} /\ ctx'[t] = NoContext /\ run_id'[t] = 0

ThreadStep(t) ==
  \/ \E e \in Events : Submit(t, e)
  \/ \E by \in OtherCallers : TriggerRun(t, by)
  \/ EnterTrigger(t)
  \/ Proceed(t)
  \/ DatabaseError(t)

LEMMA NextCases ==
  ASSUME [Next]_vars
  PROVE  (\E t \in Threads : ThreadStep(t)) \/ Crash \/ Tick \/ UNCHANGED vars
BY DEF Next, ThreadStep

(* Leaving a handler clears its frame and no other.                        *)
LEMMA LeaveFrame ==
  ASSUME FramesTyped, NEW t \in Threads, Leave(t)
  PROVE  /\ FramesTyped'
         /\ LeftFrame(t)
         /\ \A u \in Threads \ {t} : SameFrame(u)
<1>1. NoContext \in Frame
  BY DEF NoContext, Frame
<1>2. FramesTyped'
  BY <1>1 DEF FramesTyped, Leave, Goto
<1>3. LeftFrame(t)
  BY DEF FramesTyped, Leave, Goto, LeftFrame
<1>4. \A u \in Threads \ {t} : SameFrame(u)
  BY DEF FramesTyped, Leave, Goto, SameFrame
<1> QED
  BY <1>2, <1>3, <1>4

LEMMA OthersKeepFrames ==
  ASSUME FramesTyped, NEW t \in Threads, ThreadStep(t)
  PROVE  \A u \in Threads \ {t} : SameFrame(u)
<1>1. CASE Leave(t)
  BY <1>1, LeaveFrame
<1> USE DEF FramesTyped, SameFrame, Goto, locals
<1>2. ASSUME NEW e \in Events, Submit(t, e) PROVE \A u \in Threads \ {t} : SameFrame(u)
  BY <1>2 DEF Submit
<1>3. ASSUME NEW by \in OtherCallers, TriggerRun(t, by)
      PROVE  \A u \in Threads \ {t} : SameFrame(u)
  BY <1>3 DEF TriggerRun
<1>4. CASE EnterTrigger(t)
  BY <1>4 DEF EnterTrigger
<1>5. CASE PersistEvent(t) /\ ~Leave(t)
  BY <1>5 DEF PersistEvent
<1>6. CASE RecordAccepted(t) /\ ~Leave(t)
  BY <1>6 DEF RecordAccepted
<1>7. CASE Decide(t)
  BY <1>7 DEF Decide
<1>8. CASE RunEvent(t)
  BY <1>8 DEF RunEvent
<1>9. CASE MakeContext(t)
  BY <1>9 DEF MakeContext
<1>10. CASE CommitRun(t) /\ ~Leave(t)
  BY <1>10 DEF CommitRun
<1>11. CASE FailRun(t) /\ ~Leave(t)
  BY <1>11 DEF FailRun
<1> QED
  BY <1>1, <1>2, <1>3, <1>4, <1>5, <1>6, <1>7, <1>8, <1>9, <1>10, <1>11
     DEF ThreadStep, Proceed, RecordDebounced, RecordTriggered, RecordFailed, DatabaseError


LEMMA ClockKept ==
  ASSUME NEW t \in Threads, ThreadStep(t)
  PROVE  clock' = clock
BY DEF ThreadStep, Proceed, Submit, TriggerRun, EnterTrigger, PersistEvent,
       RecordAccepted, Decide, RecordDebounced, RunEvent, RecordTriggered,
       RecordFailed, MakeContext, CommitRun, FailRun, DatabaseError

(* What a frame holds at each step of its handler.                         *)
LEMMA FrameStep ==
  ASSUME TypeOK, FrameInv, [Next]_vars
  PROVE  FrameInv'
<1>1. ASSUME NEW t \in Threads, ThreadStep(t) PROVE FrameInv'
  <2>0. FramesTyped /\ clock' = clock /\ clock \in Nat
    BY <1>1, ClockKept, TriggerAssumption DEF TypeOK
  <2>1. \A u \in Threads \ {t} : FrameOK(u)'
    BY <1>1, <2>0, OthersKeepFrames DEF SameFrame, FrameOK, InRun, FrameInv
  <2>2. CASE Leave(t)
    BY <2>0, <2>1, <2>2, LeaveFrame
       DEF LeftFrame, FrameOK, FrameInv, InRun, SubmitSteps, RunSteps
  <2>3. FrameOK(t)
    BY DEF FrameInv
  <2> USE <2>0, <2>3, TriggerAssumption
      DEF FrameOK, FramesTyped, InRun, Goto, locals, SubmitSteps, RunSteps, Callers
  <2>4. ASSUME NEW e \in Events, Submit(t, e) PROVE FrameOK(t)'
    BY <2>4 DEF Submit
  <2>5. ASSUME NEW by \in OtherCallers, TriggerRun(t, by) PROVE FrameOK(t)'
    BY <2>5 DEF TriggerRun
  <2>6. CASE EnterTrigger(t)
    <3>1. FrameOK(t)'
      BY <2>6 DEF EnterTrigger
    <3> QED
      BY <2>1, <3>1 DEF FrameInv
  <2>7. CASE PersistEvent(t) /\ ~Leave(t)
    <3>1. FrameOK(t)'
      BY <2>7 DEF PersistEvent
    <3> QED
      BY <2>1, <3>1 DEF FrameInv
  <2>8. CASE RecordAccepted(t) /\ ~Leave(t)
    <3>1. FrameOK(t)'
      BY <2>8 DEF RecordAccepted
    <3> QED
      BY <2>1, <3>1 DEF FrameInv
  <2>9. CASE Decide(t)
    <3>1. FrameOK(t)'
      BY <2>9 DEF Decide
    <3> QED
      BY <2>1, <3>1 DEF FrameInv
  <2>10. CASE RunEvent(t)
    <3>1. FrameOK(t)'
      BY <2>10 DEF RunEvent, Frame
    <3> QED
      BY <2>1, <3>1 DEF FrameInv
  <2>11. CASE MakeContext(t)
    <3>1. FrameOK(t)'
      BY <2>11 DEF MakeContext
    <3> QED
      BY <2>1, <3>1 DEF FrameInv
  <2>12. CASE CommitRun(t) /\ ~Leave(t)
    <3>1. FrameOK(t)'
      BY <2>12 DEF CommitRun
    <3> QED
      BY <2>1, <3>1 DEF FrameInv
  <2>13. CASE FailRun(t) /\ ~Leave(t)
    <3>1. FrameOK(t)'
      BY <2>13 DEF FailRun
    <3> QED
      BY <2>1, <3>1 DEF FrameInv
  <2> HIDE <2>0, <2>3 DEF FrameOK, FramesTyped
  <2> QED
    BY <1>1, <2>1, <2>2, <2>4, <2>5, <2>6, <2>7, <2>8, <2>9, <2>10, <2>11, <2>12, <2>13
       DEF FrameInv, ThreadStep, Proceed, RecordDebounced, RecordTriggered,
           RecordFailed, DatabaseError
<1>2. CASE Crash
  BY <1>2, TriggerAssumption
     DEF Crash, FrameInv, FrameOK, InRun, TypeOK, SubmitSteps, RunSteps
<1>3. CASE Tick
  BY <1>3, TriggerAssumption
     DEF Tick, locals, FrameInv, FrameOK, InRun, TypeOK, FramesTyped
<1>4. CASE UNCHANGED vars
  BY <1>4 DEF vars, FrameInv, FrameOK, InRun
<1> QED
  BY <1>1, <1>2, <1>3, <1>4, NextCases

(* The locks are held exactly inside submit and inside a run.              *)
LEMMA LockStep ==
  ASSUME TypeOK, FrameInv, LockInv, [Next]_vars
  PROVE  LockInv'
<1>1. ASSUME NEW t \in Threads, ThreadStep(t) PROVE LockInv'
  <2>1. FramesTyped /\ \A u \in Threads \ {t} : SameFrame(u)
    BY <1>1, OthersKeepFrames DEF TypeOK
  <2>2. FrameOK(t)
    BY DEF FrameInv
  <2> SUFFICES ASSUME NEW u \in Threads
               PROVE  /\ (trigger_lock' = u) <=> InSubmit(u)'
                      /\ (scheduler_lock' = u) <=> InRun(u)'
    BY DEF LockInv
  <2> USE <2>1, <2>2, TriggerAssumption
      DEF LockInv, SameFrame, FrameOK, FramesTyped, InSubmit, InRun, Goto,
          SubmitSteps, RunSteps
  <2>3. ASSUME NEW e \in Events, Submit(t, e)
        PROVE  /\ (trigger_lock' = u) <=> InSubmit(u)'
               /\ (scheduler_lock' = u) <=> InRun(u)'
    BY <2>3 DEF Submit
  <2>4. ASSUME NEW by \in OtherCallers, TriggerRun(t, by)
        PROVE  /\ (trigger_lock' = u) <=> InSubmit(u)'
               /\ (scheduler_lock' = u) <=> InRun(u)'
    BY <2>4 DEF TriggerRun
  <2>5. CASE EnterTrigger(t)
    BY <2>5 DEF EnterTrigger
  <2>6. CASE Leave(t) /\ UNCHANGED scheduler_lock /\ ~InRun(t)
    BY <2>6, LeaveFrame DEF LeftFrame, Leave
  <2>7. CASE Leave(t) /\ scheduler_lock' = NoThread /\ InRun(t)
    BY <2>7, LeaveFrame DEF LeftFrame, Leave
  <2>8. CASE PersistEvent(t) /\ ~Leave(t)
    BY <2>8 DEF PersistEvent, locals
  <2>9. CASE RecordAccepted(t) /\ ~Leave(t)
    BY <2>9 DEF RecordAccepted, locals
  <2>10. CASE Decide(t)
    BY <2>10 DEF Decide
  <2>11. CASE RunEvent(t)
    BY <2>11 DEF RunEvent
  <2>12. CASE MakeContext(t)
    BY <2>12 DEF MakeContext
  <2>13. CASE CommitRun(t) /\ ~Leave(t)
    BY <2>13 DEF CommitRun
  <2>14. CASE FailRun(t) /\ ~Leave(t)
    BY <2>14 DEF FailRun
  <2> QED
    BY <1>1, <2>3, <2>4, <2>5, <2>6, <2>7, <2>8, <2>9, <2>10, <2>11, <2>12, <2>13, <2>14
       DEF ThreadStep, Proceed, PersistEvent, RecordAccepted, RecordDebounced,
           RecordTriggered, RecordFailed, CommitRun, FailRun, DatabaseError
<1>2. CASE Crash
  BY <1>2, TriggerAssumption DEF Crash, LockInv, InSubmit, InRun, RunSteps
<1>3. CASE Tick
  BY <1>3 DEF Tick, locals, LockInv, InSubmit, InRun
<1>4. CASE UNCHANGED vars
  BY <1>4 DEF vars, LockInv, InSubmit, InRun
<1> QED
  BY <1>1, <1>2, <1>3, <1>4, NextCases

(* Run numbers: while a run is under way nobody else commits one, so the   *)
(* number it read is still the next when it commits.                       *)
LEMMA SequenceStep ==
  ASSUME TypeOK, LockInv, SequenceInv, [Next]_vars
  PROVE  SequenceInv'
<1> USE DEF SequenceInv
<1>1. ASSUME NEW t \in Threads, ThreadStep(t) PROVE SequenceInv'
  <2>1. FramesTyped /\ \A u \in Threads \ {t} : SameFrame(u)
    BY <1>1, OthersKeepFrames DEF TypeOK
  <2>2. CASE CommitRun(t)
    <3>1. \A u \in Threads : pc'[u] # "execute"
      <4>1. pc'[t] # "execute"
        BY <2>1, <2>2 DEF CommitRun, Leave, Goto, FramesTyped
      <4>2. \A u \in Threads \ {t} : pc[u] # "execute"
        BY <2>2 DEF CommitRun, LockInv, InRun, RunSteps
      <4> QED
        BY <2>1, <4>1, <4>2 DEF SameFrame
    <3>2. SequenceDense'
      <4>1. runs \in Seq(RunContext) /\ runs' = Append(runs, ctx[t]) /\ ctx[t].seq = Len(runs) + 1
        BY <2>2 DEF CommitRun, TypeOK, TablesTyped
      <4> QED
        BY <4>1 DEF SequenceDense
    <3> QED
      BY <3>1, <3>2
  <2>3. CASE MakeContext(t)
    <3>1. ctx'[t].seq = Len(runs) + 1
      BY <2>1, <2>3, NextSequenceIsNext DEF MakeContext, FramesTyped, Frame
    <3>2. \A u \in Threads \ {t} : pc[u] # "execute"
      BY <2>3 DEF MakeContext, LockInv, InRun, RunSteps
    <3> QED
      BY <2>1, <2>3, <3>1, <3>2 DEF MakeContext, tables, SequenceDense, SameFrame
  <2>4. CASE ~CommitRun(t) /\ ~MakeContext(t)
    <3>1. runs' = runs /\ pc'[t] # "execute"
      BY <1>1, <2>1, <2>4
         DEF ThreadStep, Proceed, Submit, TriggerRun, EnterTrigger, PersistEvent,
             RecordAccepted, Decide, RecordDebounced, RunEvent, RecordTriggered,
             RecordFailed, FailRun, DatabaseError, Leave, Goto, tables, FramesTyped
    <3> QED
      BY <2>1, <3>1 DEF SequenceDense, SameFrame
  <2> QED
    BY <2>2, <2>3, <2>4
<1>2. CASE Crash
  BY <1>2 DEF Crash, tables, SequenceDense
<1>3. CASE Tick
  BY <1>3 DEF Tick, tables, locals, SequenceDense
<1>4. CASE UNCHANGED vars
  BY <1>4 DEF vars, SequenceDense
<1> QED
  BY <1>1, <1>2, <1>3, <1>4, NextCases

-----------------------------------------------------------------------------
(* Types.  What is read back from a frame goes into the tables, and a      *)
(* run's number comes from those already given, so types need the other    *)
(* two invariants.                                                         *)
LEMMA RecordTypes ==
  ASSUME event_log \in Seq(LogRow), clock \in Nat, NEW type \in EventTypes,
         NEW events \in SUBSET Events, NEW run \in Nat, Record(type, events, run)
  PROVE  event_log' \in Seq(LogRow)
<1>1. [type |-> type, events |-> events, run |-> run,
       at |-> IF type = "event_triggered" THEN clock ELSE 0] \in LogRow
  BY DEF LogRow
<1> QED
  BY <1>1 DEF Record

LEMMA TypeStep ==
  ASSUME TypeOK, FrameInv, SequenceInv, [Next]_vars
  PROVE  TypeOK'
<1>0. /\ FramesTyped /\ TablesTyped
      /\ clock \in Nat /\ clock \in 0..MaxClock /\ faults \in 0..MaxFaults
      /\ trigger_lock \in Threads \cup {NoThread}
      /\ scheduler_lock \in Threads \cup {NoThread}
  BY TriggerAssumption DEF TypeOK
<1>1. ASSUME NEW t \in Threads, ThreadStep(t) PROVE TypeOK'
  <2>1. FrameOK(t)
    BY DEF FrameInv
  <2>2. /\ clock' \in 0..MaxClock /\ faults' \in 0..MaxFaults
        /\ trigger_lock' \in Threads \cup {NoThread}
        /\ scheduler_lock' \in Threads \cup {NoThread}
    <3>1. CASE DatabaseError(t)
      BY <1>0, <3>1, TriggerAssumption DEF DatabaseError, Leave
    <3>2. CASE ~DatabaseError(t)
      <4>1. clock' = clock /\ faults' = faults
        BY <1>1, <3>2
           DEF ThreadStep, Proceed, Submit, TriggerRun, EnterTrigger, PersistEvent,
               RecordAccepted, Decide, RecordDebounced, RunEvent, RecordTriggered,
               RecordFailed, MakeContext, CommitRun, FailRun
      <4>2. /\ trigger_lock' \in Threads \cup {NoThread}
            /\ scheduler_lock' \in Threads \cup {NoThread}
        BY <1>0, <1>1, <3>2
           DEF ThreadStep, Proceed, Submit, TriggerRun, EnterTrigger, PersistEvent,
               RecordAccepted, Decide, RecordDebounced, RunEvent, RecordTriggered,
               RecordFailed, MakeContext, CommitRun, FailRun, Leave
      <4> QED
        BY <1>0, <4>1, <4>2
    <3> QED
      BY <3>1, <3>2
  <2>3. TablesTyped'
    <3>1. macro_events' \subseteq Events
      BY <1>0, <1>1, <2>1
         DEF TablesTyped, FrameOK, SubmitSteps, ThreadStep, Proceed, Submit, TriggerRun,
             EnterTrigger, PersistEvent, RecordAccepted, Decide, RecordDebounced, RunEvent,
             RecordTriggered, RecordFailed, MakeContext, CommitRun, FailRun,
             DatabaseError, tables
    <3>2. event_log' \in Seq(LogRow)
      <4>1. CASE UNCHANGED event_log
        BY <1>0, <4>1 DEF TablesTyped
      <4>2. CASE \E type \in EventTypes, events \in SUBSET Events, run \in Nat :
                    Record(type, events, run)
        BY <1>0, <4>2, RecordTypes DEF TablesTyped
      <4>3. CASE RecordAccepted(t)
        <5>1. {req[t]} \in SUBSET Events
          BY <2>1, <4>3 DEF RecordAccepted, FrameOK, SubmitSteps
        <5> QED
          BY <4>2, <4>3, <5>1 DEF RecordAccepted, EventTypes
      <4>4. CASE RecordDebounced(t)
        <5>1. {req[t]} \in SUBSET Events
          BY <2>1, <4>4 DEF RecordDebounced, FrameOK, SubmitSteps
        <5> QED
          BY <4>2, <4>4, <5>1 DEF RecordDebounced, EventTypes
      <4>5. CASE RecordTriggered(t) \/ RecordFailed(t)
        <5>1. pending[t] \in SUBSET Events /\ run_id[t] \in Nat
          BY <1>0 DEF FramesTyped
        <5> QED
          BY <4>2, <4>5, <5>1 DEF RecordTriggered, RecordFailed, EventTypes
      <4> QED
        BY <1>1, <4>1, <4>3, <4>4, <4>5
           DEF ThreadStep, Proceed, Submit, TriggerRun, EnterTrigger, PersistEvent,
               Decide, RunEvent, MakeContext, CommitRun, FailRun, DatabaseError, tables
    <3>3. runs' \in Seq(RunContext)
      <4>1. CASE CommitRun(t)
        <5>1. ctx[t] \in RunContext
          BY <1>0, <2>1, <4>1
             DEF CommitRun, FrameOK, InRun, RunSteps, FramesTyped, Frame, RunContext
        <5> QED
          BY <1>0, <4>1, <5>1 DEF CommitRun, TablesTyped
      <4> QED
        BY <1>0, <1>1, <4>1
           DEF TablesTyped, ThreadStep, Proceed, Submit, TriggerRun, EnterTrigger,
               PersistEvent, RecordAccepted, Decide, RecordDebounced, RunEvent,
               RecordTriggered, RecordFailed, MakeContext, FailRun, DatabaseError, tables
    <3> QED
      BY <3>1, <3>2, <3>3 DEF TablesTyped
  <2>4. FramesTyped'
    <3>1. CASE Leave(t)
      BY <1>0, <3>1, LeaveFrame
    <3> USE <1>0 DEF FramesTyped, Goto, locals, SubmitSteps, RunSteps
    <3>2. ASSUME NEW e \in Events, Submit(t, e) PROVE FramesTyped'
      BY <3>2 DEF Submit
    <3>3. ASSUME NEW by \in OtherCallers, TriggerRun(t, by) PROVE FramesTyped'
      BY <3>3, TriggerAssumption DEF TriggerRun, Frame, Callers
    <3>4. CASE EnterTrigger(t)
      BY <3>4 DEF EnterTrigger
    <3>5. CASE PersistEvent(t) /\ ~Leave(t)
      BY <3>5 DEF PersistEvent
    <3>6. CASE RecordAccepted(t) /\ ~Leave(t)
      BY <3>6 DEF RecordAccepted
    <3>7. CASE Decide(t)
      BY <3>7 DEF Decide, PendingCompleteEvents, TablesTyped
    <3>8. CASE RunEvent(t)
      <4>1. [ctx[t] EXCEPT !.by = "event_trigger"] \in Frame
        BY DEF Frame, Callers
      <4> QED
        BY <3>8, <4>1 DEF RunEvent
    <3>9. CASE MakeContext(t)
      <4>1. NextSequence \in Nat
        BY NextSequenceIsNext DEF SequenceInv, TablesTyped
      <4>2. ctx[t].by \in Callers \cup {"none"} /\ pending[t] \in SUBSET Events
        BY DEF Frame
      <4>3. [ctx[t] EXCEPT !.seq = NextSequence, !.at = clock, !.events = pending[t]]
               \in Frame
        BY <4>1, <4>2 DEF Frame
      <4> QED
        BY <3>9, <4>3 DEF MakeContext
    <3>10. CASE CommitRun(t) /\ ~Leave(t)
      <4>1. Len(runs) + 1 \in Nat
        BY DEF TablesTyped
      <4>2. NoContext \in Frame
        BY DEF NoContext, Frame
      <4> QED
        BY <3>10, <4>1, <4>2 DEF CommitRun
    <3>11. CASE FailRun(t) /\ ~Leave(t)
      BY <3>11 DEF FailRun, NoContext, Frame
    <3> HIDE DEF FramesTyped
    <3> QED
      BY <1>1, <3>1, <3>2, <3>3, <3>4, <3>5, <3>6, <3>7, <3>8, <3>9, <3>10, <3>11
         DEF ThreadStep, Proceed, RecordDebounced, RecordTriggered, RecordFailed,
             DatabaseError
  <2> QED
    BY <2>2, <2>3, <2>4 DEF TypeOK
<1>2. CASE Crash
  <2>1. FramesTyped'
    BY <1>2 DEF Crash, FramesTyped, NoContext, Frame
  <2> QED
    BY <1>0, <1>2, <2>1, TriggerAssumption DEF Crash, TypeOK, TablesTyped, tables
<1>3. CASE Tick
  BY <1>0, <1>3, TriggerAssumption
     DEF Tick, TypeOK, TablesTyped, FramesTyped, tables, locals
<1>4. CASE UNCHANGED vars
  BY <1>0, <1>4 DEF vars, TypeOK, TablesTyped, FramesTyped
<1> QED
  BY <1>1, <1>2, <1>3, <1>4, NextCases

-----------------------------------------------------------------------------
(* The log.  Only an EVENT_TRIGGERED row changes what is read back.         *)
SameTriggered ==
  /\ Triggered' = Triggered
  /\ \A i \in Triggered : event_log'[i] = event_log[i]

LEMMA OtherRecord ==
  ASSUME event_log \in Seq(LogRow), NEW type, NEW events, NEW run,
         type # "event_triggered", Record(type, events, run)
  PROVE  SameTriggered
<1>1. /\ Len(event_log') = Len(event_log) + 1
      /\ DOMAIN event_log = 1..Len(event_log)
      /\ DOMAIN event_log' = 1..(Len(event_log) + 1)
      /\ \A i \in 1..Len(event_log) : event_log'[i] = event_log[i]
      /\ event_log'[Len(event_log) + 1].type = type
      /\ Len(event_log) \in Nat
  BY DEF Record
<1>2. Triggered' = Triggered
  BY <1>1 DEF Triggered
<1> QED
  BY <1>1, <1>2 DEF SameTriggered, Triggered

LEMMA SameReads ==
  ASSUME SameTriggered
  PROVE  /\ TriggeredEvents' = TriggeredEvents
         /\ \A c \in Nat : CoolingDown(c)' <=> CoolingDown(c)
<1>1. TriggeredEvents' = TriggeredEvents
  BY DEF SameTriggered, TriggeredEvents
<1>2. \A c \in Nat : CoolingDown(c)' <=> CoolingDown(c)
  BY DEF SameTriggered, CoolingDown
<1> QED
  BY <1>1, <1>2

LEMMA TriggeredRecord ==
  ASSUME event_log \in Seq(LogRow), NEW events, NEW run,
         Record("event_triggered", events, run)
  PROVE  LET n == Len(event_log) + 1 IN
         /\ n \in Nat
         /\ Triggered' = Triggered \cup {n}
         /\ \A i \in Triggered : i \in Nat /\ i < n /\ event_log'[i] = event_log[i]
         /\ event_log'[n].events = events
         /\ event_log'[n].run = run
         /\ event_log'[n].at = clock
         /\ TriggeredEvents' = TriggeredEvents \cup events
<1> DEFINE n == Len(event_log) + 1
<1>1. /\ Len(event_log) \in Nat
      /\ DOMAIN event_log = 1..Len(event_log)
      /\ DOMAIN event_log' = 1..n
      /\ \A i \in 1..Len(event_log) : event_log'[i] = event_log[i]
      /\ event_log'[n] = [type |-> "event_triggered", events |-> events, run |-> run,
                          at |-> clock]
  BY DEF Record
<1>2. Triggered' = Triggered \cup {n}
  BY <1>1 DEF Triggered
<1>3. \A i \in Triggered : i \in Nat /\ i < n /\ event_log'[i] = event_log[i]
  BY <1>1 DEF Triggered
<1>4. TriggeredEvents' = TriggeredEvents \cup events
  <2>1. ASSUME NEW e PROVE e \in TriggeredEvents' <=> e \in TriggeredEvents \/ e \in events
    <3>1. e \in TriggeredEvents' <=> \E i \in Triggered \cup {n} : e \in event_log'[i].events
      BY <1>2 DEF TriggeredEvents
    <3>2. e \in TriggeredEvents <=> \E i \in Triggered : e \in event_log[i].events
      BY DEF TriggeredEvents
    <3>3. event_log'[n].events = events
      BY <1>1
    <3> QED
      BY <1>3, <3>1, <3>2, <3>3
  <2> QED
    BY <2>1
<1> QED
  BY <1>1, <1>2, <1>3, <1>4

(* What a step does to the tables, by who takes it.                         *)
LEMMA OnlySubmitWrites ==
  ASSUME FrameInv, NEW t \in Threads, ThreadStep(t), ~InSubmit(t)
  PROVE  UNCHANGED <<macro_events, event_log>>
<1>1. FrameOK(t)
  BY DEF FrameInv
<1> QED
  BY <1>1, TriggerAssumption
     DEF FrameOK, InSubmit, SubmitSteps, ThreadStep, Proceed, Submit, TriggerRun,
         EnterTrigger, PersistEvent, RecordAccepted, Decide, RecordDebounced, RunEvent,
         RecordTriggered, RecordFailed, MakeContext, CommitRun, FailRun, DatabaseError,
         tables

LEMMA TriggeredKept ==
  ASSUME TypeOK, NEW t \in Threads, ThreadStep(t), ~RecordTriggered(t)
  PROVE  SameTriggered
<1>1. event_log \in Seq(LogRow)
  BY DEF TypeOK, TablesTyped
<1>2. CASE UNCHANGED event_log
  BY <1>2 DEF SameTriggered, Triggered
<1>3. CASE RecordAccepted(t)
  BY <1>1, <1>3, OtherRecord DEF RecordAccepted
<1>4. CASE RecordDebounced(t)
  BY <1>1, <1>4, OtherRecord DEF RecordDebounced
<1>5. CASE RecordFailed(t)
  BY <1>1, <1>5, OtherRecord DEF RecordFailed
<1> QED
  BY <1>2, <1>3, <1>4, <1>5
     DEF ThreadStep, Proceed, Submit, TriggerRun, EnterTrigger, PersistEvent, Decide,
         RunEvent, MakeContext, CommitRun, FailRun, DatabaseError, tables

(* The submitted event, from its row in macro_events to its batch.          *)
LEMMA SubmittedStep ==
  ASSUME TypeOK, FrameInv, LockInv, SubmittedInv, BatchFresh, [Next]_vars
  PROVE  SubmittedInv'
<1>0. FramesTyped /\ event_log \in Seq(LogRow)
  BY DEF TypeOK, TablesTyped
<1>1. ASSUME NEW t \in Threads, ThreadStep(t) PROVE SubmittedInv'
  <2>1. \A u \in Threads \ {t} : SameFrame(u)
    BY <1>0, <1>1, OthersKeepFrames
  <2>2. FrameOK(t)
    BY DEF FrameInv
  <2>3. CASE RecordTriggered(t)
    <3>1. InSubmit(t) /\ req[t] # NoEvent
      BY <2>2, <2>3, TriggerAssumption
         DEF RecordTriggered, InSubmit, FrameOK, SubmitSteps
    <3>2. TriggeredEvents' = TriggeredEvents \cup pending[t]
      BY <1>0, <2>3, TriggeredRecord DEF RecordTriggered
    <3>3. pending[t] \subseteq macro_events
      BY <2>3, <3>1 DEF RecordTriggered, BatchFresh, PendingCompleteEvents
    <3>4. \A u \in Threads : pc'[u] \notin {"accept", "decide"}
      <4>1. pc'[t] = "idle"
        BY <1>0, <2>3, LeaveFrame DEF RecordTriggered, LeftFrame
      <4>2. \A u \in Threads \ {t} : ~InSubmit(u)
        BY <3>1 DEF LockInv
      <4>3. \A u \in Threads \ {t} : pc[u] \notin {"accept", "decide"}
        BY <4>2, TriggerAssumption DEF InSubmit, FrameInv, FrameOK, SubmitSteps
      <4> QED
        BY <2>1, <4>1, <4>3 DEF SameFrame
    <3> QED
      BY <2>3, <3>2, <3>3, <3>4 DEF RecordTriggered, SubmittedInv
  <2>4. CASE PersistEvent(t) /\ ~Leave(t)
    <3>1. /\ macro_events' = macro_events \cup {req[t]}
          /\ req[t] \notin macro_events
          /\ TriggeredEvents' = TriggeredEvents
          /\ pc'[t] = "accept" /\ req'[t] = req[t]
      BY <1>0, <1>1, <2>4, TriggeredKept, SameReads
         DEF PersistEvent, RecordTriggered, FramesTyped, Goto, locals
    <3> QED
      BY <2>1, <3>1 DEF SubmittedInv, SameFrame
  <2>5. CASE ~RecordTriggered(t) /\ ~(PersistEvent(t) /\ ~Leave(t))
    <3>1. TriggeredEvents' = TriggeredEvents
      BY <1>1, <2>5, TriggeredKept, SameReads
    <3>2. macro_events' = macro_events
      <4>1. PersistEvent(t) => macro_events' = macro_events
        BY <1>0, <2>5 DEF PersistEvent, Leave, Goto, FramesTyped, locals
      <4> QED
        BY <1>1, <4>1
           DEF ThreadStep, Proceed, Submit, TriggerRun, EnterTrigger, RecordAccepted,
               Decide, RecordDebounced, RunEvent, RecordTriggered, RecordFailed,
               MakeContext, CommitRun, FailRun, DatabaseError, tables
    <3>3. pc'[t] # "accept"
      BY <1>0, <1>1, <2>5
         DEF ThreadStep, Proceed, Submit, TriggerRun, EnterTrigger, PersistEvent,
             RecordAccepted, Decide, RecordDebounced, RunEvent, RecordTriggered,
             RecordFailed, MakeContext, CommitRun, FailRun, DatabaseError,
             Leave, Goto, FramesTyped
    <3>4. pc'[t] = "decide" => pc[t] = "accept" /\ req'[t] = req[t] /\ req[t] \in CompleteEvents
      BY <1>0, <1>1, <2>5
         DEF ThreadStep, Proceed, Submit, TriggerRun, EnterTrigger, PersistEvent,
             RecordAccepted, Decide, RecordDebounced, RunEvent, RecordTriggered,
             RecordFailed, MakeContext, CommitRun, FailRun, DatabaseError,
             Leave, Goto, FramesTyped, locals
    <3> QED
      BY <2>1, <3>1, <3>2, <3>3, <3>4 DEF SubmittedInv, SameFrame
  <2> QED
    BY <2>3, <2>4, <2>5
<1>2. CASE Crash
  <2>1. SameTriggered
    BY <1>2 DEF Crash, tables, SameTriggered, Triggered
  <2> QED
    BY <1>2, <2>1, SameReads DEF Crash, SubmittedInv, tables
<1>3. CASE Tick \/ UNCHANGED vars
  <2>1. SameTriggered
    BY <1>3 DEF Tick, vars, tables, SameTriggered, Triggered
  <2> QED
    BY <1>3, <2>1, SameReads DEF Tick, vars, SubmittedInv, tables, locals
<1> QED
  BY <1>1, <1>2, <1>3, NextCases

(* The batch: selected by Decide, and true ever after, because whoever      *)
(* could change what it was read from waits for the trigger lock.           *)
LEMMA SameBatch ==
  ASSUME TypeOK, UNCHANGED <<macro_events, event_log>>
  PROVE  /\ PendingCompleteEvents' = PendingCompleteEvents
         /\ \A u \in Threads : CoolingDown(now[u])' <=> CoolingDown(now'[u])
<1>1. SameTriggered
  BY DEF SameTriggered, Triggered
<1>2. PendingCompleteEvents' = PendingCompleteEvents
  BY <1>1, SameReads DEF PendingCompleteEvents
<1> QED
  BY <1>1, <1>2 DEF SameTriggered, CoolingDown

LEMMA BatchStep ==
  ASSUME TypeOK, FrameInv, LockInv, SubmittedInv, BatchFresh, [Next]_vars
  PROVE  BatchFresh'
<1> DEFINE Carrying(u) == InSubmit(u) /\ pc[u] \in {"run_event", "triggered", "failed"} \cup RunSteps
           Fresh(u) == /\ req[u] \in pending[u]
                       /\ pending[u] = PendingCompleteEvents
                       /\ ~CoolingDown(now[u])
<1>0. FramesTyped
  BY DEF TypeOK
<1>a. ASSUME NEW u \in Threads, Carrying(u), SameFrame(u),
             UNCHANGED <<macro_events, event_log>>
      PROVE  Fresh(u)'
  <2>1. Fresh(u)
    BY <1>a DEF BatchFresh
  <2> QED
    BY <1>a, <2>1, SameBatch DEF SameFrame
<1>1. ASSUME NEW t \in Threads, ThreadStep(t) PROVE BatchFresh'
  <2>1. \A u \in Threads \ {t} : SameFrame(u)
    BY <1>0, <1>1, OthersKeepFrames
  <2>2. FrameOK(t)
    BY DEF FrameInv
  <2>3. ASSUME NEW u \in Threads \ {t}, Carrying(u)' PROVE Fresh(u)'
    <3>1. Carrying(u)
      BY <2>1, <2>3 DEF SameFrame, InSubmit
    <3>2. ~InSubmit(t)
      BY <3>1 DEF LockInv
    <3> QED
      BY <1>1, <1>a, <2>1, <3>1, <3>2, OnlySubmitWrites
  <2>4. ASSUME Carrying(t)' PROVE Fresh(t)'
    <3>1. ~Leave(t)
      BY <1>0, <2>4, LeaveFrame DEF LeftFrame, InSubmit
    <3>2. CASE Decide(t)
      <4>1. /\ pending'[t] = PendingCompleteEvents /\ req'[t] = req[t] /\ now'[t] = now[t]
            /\ UNCHANGED <<macro_events, event_log>>
            /\ pc'[t] \in {"debounce", "run_event"}
            /\ pc'[t] = "run_event" => ~CoolingDown(now[t])
        BY <1>0, <3>2 DEF Decide, FramesTyped, Goto, tables
      <4>2. req[t] \in PendingCompleteEvents
        BY <3>2 DEF Decide, SubmittedInv, PendingCompleteEvents
      <4>3. pc'[t] = "run_event"
        BY <2>4, <4>1 DEF RunSteps
      <4> QED
        BY <4>1, <4>2, <4>3, SameBatch
    <3>3. CASE ~Decide(t)
      <4>1. /\ UNCHANGED <<macro_events, event_log>>
            /\ req'[t] = req[t] /\ now'[t] = now[t] /\ pending'[t] = pending[t]
            /\ pc[t] \in {"run_event"} \cup RunSteps
        <5> USE <1>0, <2>2, <2>4, <3>1, <3>3, TriggerAssumption
            DEF FrameOK, FramesTyped, InSubmit, InRun, RunSteps, SubmitSteps, Goto
        <5>1. ASSUME NEW e \in Events, Submit(t, e) PROVE FALSE
          BY <5>1 DEF Submit
        <5>2. ASSUME NEW by \in OtherCallers, TriggerRun(t, by) PROVE FALSE
          BY <5>2 DEF TriggerRun
        <5>3. ~(EnterTrigger(t) \/ PersistEvent(t) \/ RecordAccepted(t))
          BY DEF EnterTrigger, PersistEvent, RecordAccepted
        <5>4. CASE RunEvent(t)
          BY <5>4 DEF RunEvent, tables
        <5>5. CASE MakeContext(t)
          BY <5>5 DEF MakeContext, tables
        <5>6. CASE CommitRun(t)
          BY <5>6 DEF CommitRun
        <5>7. CASE FailRun(t)
          BY <5>7 DEF FailRun, tables
        <5> HIDE <1>0, <2>2, <2>4 DEF FrameOK, FramesTyped, InSubmit, InRun, Goto
        <5> QED
          BY <1>1, <5>1, <5>2, <5>3, <5>4, <5>5, <5>6, <5>7
             DEF ThreadStep, Proceed, RecordDebounced, RecordTriggered, RecordFailed,
                 DatabaseError
      <4>2. Carrying(t)
        BY <2>4, <4>1 DEF InSubmit, RunSteps
      <4>3. Fresh(t)
        BY <4>2 DEF BatchFresh
      <4> QED
        BY <4>1, <4>3, SameBatch
    <3> QED
      BY <3>2, <3>3
  <2> QED
    BY <2>3, <2>4 DEF BatchFresh
<1>2. CASE Crash
  BY <1>2, TriggerAssumption DEF Crash, BatchFresh, InSubmit
<1>3. CASE Tick \/ UNCHANGED vars
  <2>1. /\ UNCHANGED <<macro_events, event_log>>
        /\ \A u \in Threads : SameFrame(u) /\ (Carrying(u)' => Carrying(u))
    BY <1>3 DEF Tick, vars, tables, locals, SameFrame, InSubmit
  <2> QED
    BY <1>a, <2>1 DEF BatchFresh
<1> QED
  BY <1>1, <1>2, <1>3, NextCases

-----------------------------------------------------------------------------
(* Runs and the rows that name them.                                       *)
LEMMA CommittedStep ==
  ASSUME TypeOK, CommittedInv, FrameInv, [Next]_vars
  PROVE  CommittedInv'
<1> DEFINE Kept(u) == /\ run_id[u] \in DOMAIN runs
                      /\ runs[run_id[u]].by = "event_trigger"
                      /\ runs[run_id[u]].events = pending[u]
<1>0. FramesTyped /\ runs \in Seq(RunContext)
  BY DEF TypeOK, TablesTyped
<1>1. ASSUME NEW t \in Threads, ThreadStep(t) PROVE CommittedInv'
  <2>1. \A u \in Threads \ {t} : SameFrame(u)
    BY <1>0, <1>1, OthersKeepFrames
  <2>2. FrameOK(t)
    BY DEF FrameInv
  <2>3. CASE CommitRun(t)
    <3>1. /\ DOMAIN runs = 1..Len(runs) /\ Len(runs) \in Nat
          /\ DOMAIN runs' = 1..(Len(runs) + 1)
          /\ \A i \in DOMAIN runs : runs'[i] = runs[i]
          /\ runs'[Len(runs) + 1] = ctx[t]
      BY <1>0, <2>3 DEF CommitRun
    <3>2. \A u \in Threads \ {t} : pc'[u] = "triggered" => Kept(u)'
      <4>1. \A u \in Threads \ {t} : pc[u] = "triggered" => Kept(u)
        BY DEF CommittedInv
      <4> QED
        BY <2>1, <3>1, <4>1 DEF SameFrame
    <3>3. pc'[t] = "triggered" => Kept(t)'
      <4> SUFFICES ASSUME pc'[t] = "triggered" PROVE Kept(t)'
        OBVIOUS
      <4>1. /\ ctx[t].by = "event_trigger" /\ pending'[t] = pending[t]
            /\ run_id'[t] = Len(runs) + 1
        BY <1>0, <2>3 DEF CommitRun, Leave, Goto, FramesTyped
      <4>2. ctx[t].events = pending[t]
        BY <2>2, <2>3 DEF CommitRun, FrameOK
      <4> QED
        BY <3>1, <4>1, <4>2
    <3> QED
      BY <3>2, <3>3 DEF CommittedInv
  <2>4. CASE ~CommitRun(t)
    <3>1. runs' = runs /\ pc'[t] # "triggered"
      BY <1>0, <1>1, <2>4
         DEF ThreadStep, Proceed, Submit, TriggerRun, EnterTrigger, PersistEvent,
             RecordAccepted, Decide, RecordDebounced, RunEvent, RecordTriggered,
             RecordFailed, MakeContext, FailRun, DatabaseError, Leave, Goto,
             tables, FramesTyped
    <3> QED
      BY <2>1, <3>1 DEF CommittedInv, SameFrame
  <2> QED
    BY <2>3, <2>4
<1>2. CASE Crash
  BY <1>2 DEF Crash, CommittedInv
<1>3. CASE Tick \/ UNCHANGED vars
  BY <1>3 DEF Tick, vars, tables, locals, CommittedInv
<1> QED
  BY <1>1, <1>2, <1>3, NextCases

(* What the log says, kept by the steps that write no EVENT_TRIGGERED row.  *)
LogInv == LastTriggeredInv /\ TriggeredNamesItsRun /\ TriggeredSpaced

LEMMA SameLog ==
  ASSUME LogInv, SameTriggered, clock \in Nat, clock' \in Nat, clock' >= clock,
         \A i \in Triggered : event_log[i].at \in Nat,
         \A i \in DOMAIN runs : i \in DOMAIN runs' /\ runs'[i] = runs[i]
  PROVE  LogInv'
<1> USE DEF LogInv, SameTriggered
<1>1. LastTriggeredInv'
  BY DEF LastTriggeredInv
<1>2. TriggeredNamesItsRun'
  BY DEF TriggeredNamesItsRun
<1>3. TriggeredSpaced'
  BY DEF TriggeredSpaced
<1> QED
  BY <1>1, <1>2, <1>3

LEMMA TriggeredStamps ==
  ASSUME event_log \in Seq(LogRow)
  PROVE  \A i \in Triggered : event_log[i].at \in Nat
<1>1. \A i \in DOMAIN event_log : event_log[i] \in LogRow
  OBVIOUS
<1> QED
  BY <1>1 DEF LogRow, Triggered

(* The cooldown of every recorded run is over when the next one is          *)
(* recorded: it was over at the last one when the submission read the       *)
(* clock, and the clock has only gone on since.                             *)
LEMMA WindowOver ==
  ASSUME TypeOK, FrameInv, BatchFresh, LastTriggeredInv, TriggeredSpaced,
         NEW t \in Threads, pc[t] = "triggered"
  PROVE  /\ InSubmit(t)
         /\ \A i \in Triggered : clock >= event_log[i].at + Cooldown
<1>1. InSubmit(t)
  BY TriggerAssumption DEF FrameInv, FrameOK, InSubmit, SubmitSteps
<1>2. /\ FramesTyped /\ clock \in Nat
      /\ \A i \in Triggered : i \in Nat /\ event_log[i].at \in Nat
  <2>1. event_log \in Seq(LogRow)
    BY DEF TypeOK, TablesTyped
  <2> QED
    BY <2>1, TriggeredStamps, TriggerAssumption DEF TypeOK, Triggered
<1>3. /\ now[t] \in Nat /\ now[t] <= clock
      /\ ~CoolingDown(now[t])
  BY <1>1, <1>2 DEF FrameInv, FrameOK, FramesTyped, BatchFresh
<1>4. ASSUME NEW i \in Triggered PROVE clock >= event_log[i].at + Cooldown
  <2>1. PICK l \in Triggered : \A j \in Triggered : j <= l
    BY DEF LastTriggeredInv
  <2>2. now[t] >= event_log[l].at + Cooldown
    BY <1>2, <1>3, <2>1, TriggerAssumption DEF CoolingDown
  <2>3. i = l \/ event_log[l].at >= event_log[i].at + Cooldown
    <3>1. i <= l /\ i \in Nat /\ l \in Nat
      BY <1>2, <2>1
    <3> QED
      BY <3>1 DEF TriggeredSpaced
  <2> QED
    BY <1>2, <1>3, <2>2, <2>3, TriggerAssumption
<1> QED
  BY <1>1, <1>4

(* An EVENT_TRIGGERED row names the run that was committed for it, takes    *)
(* events no other row took, and comes a cooldown after the last one.       *)
LEMMA TriggeredStep ==
  ASSUME TypeOK, FrameInv, BatchFresh, CommittedInv, LogInv,
         NEW t \in Threads, RecordTriggered(t)
  PROVE  LogInv'
<1> DEFINE n == Len(event_log) + 1
<1>0. /\ FramesTyped /\ event_log \in Seq(LogRow) /\ clock \in Nat
      /\ \A i \in Triggered : event_log[i].at \in Nat
  BY TriggeredStamps, TriggerAssumption DEF TypeOK, TablesTyped
<1>1. /\ clock' = clock /\ runs' = runs /\ pc[t] = "triggered"
      /\ Record("event_triggered", pending[t], run_id[t])
  BY DEF RecordTriggered
<1>2. /\ n \in Nat
      /\ Triggered' = Triggered \cup {n}
      /\ \A i \in Triggered : i \in Nat /\ i < n /\ event_log'[i] = event_log[i]
      /\ event_log'[n].events = pending[t]
      /\ event_log'[n].run = run_id[t]
      /\ event_log'[n].at = clock
  BY <1>0, <1>1, TriggeredRecord
<1>3. pending[t] = PendingCompleteEvents
  BY <1>1, WindowOver DEF LogInv, BatchFresh
<1> HIDE DEF n
<1>4. LastTriggeredInv'
  BY <1>0, <1>1, <1>2 DEF LogInv, LastTriggeredInv
<1>5. TriggeredNamesItsRun'
  <2>1. /\ run_id[t] \in DOMAIN runs
        /\ runs[run_id[t]].by = "event_trigger"
        /\ runs[run_id[t]].events = pending[t]
    BY <1>1 DEF CommittedInv
  <2>2. \A i \in Triggered : event_log[i].events \cap pending[t] = {}
    BY <1>3 DEF PendingCompleteEvents, TriggeredEvents
  <2> QED
    BY <1>1, <1>2, <2>1, <2>2 DEF LogInv, TriggeredNamesItsRun
<1>6. TriggeredSpaced'
  <2>1. \A i \in Triggered : clock >= event_log[i].at + Cooldown
    BY <1>1, WindowOver DEF LogInv
  <2>2. ASSUME NEW i \in Triggered', NEW j \in Triggered', i < j
        PROVE  event_log'[j].at >= event_log'[i].at + Cooldown
    <3>1. CASE j = n
      <4>1. i \in Triggered
        BY <1>2, <2>2, <3>1
      <4> QED
        BY <1>2, <2>1, <3>1, <4>1
    <3>2. CASE j # n
      <4>1. i \in Triggered /\ j \in Triggered
        BY <1>2, <2>2, <3>2
      <4> QED
        BY <1>2, <2>2, <4>1 DEF LogInv, TriggeredSpaced
    <3> QED
      BY <3>1, <3>2
  <2> QED
    BY <2>2 DEF TriggeredSpaced
<1> QED
  BY <1>4, <1>5, <1>6 DEF LogInv

LEMMA LogStep ==
  ASSUME TypeOK, FrameInv, BatchFresh, CommittedInv, LogInv, [Next]_vars
  PROVE  LogInv'
<1>0. /\ clock \in Nat /\ runs \in Seq(RunContext)
      /\ \A i \in Triggered : event_log[i].at \in Nat
  BY TriggeredStamps, TriggerAssumption DEF TypeOK, TablesTyped
<1>1. ASSUME NEW t \in Threads, ThreadStep(t) PROVE LogInv'
  <2>1. CASE RecordTriggered(t)
    BY <2>1, TriggeredStep
  <2>2. CASE ~RecordTriggered(t)
    <3>1. SameTriggered /\ clock' = clock
      BY <1>1, <2>2, TriggeredKept, ClockKept
    <3>2. \A i \in DOMAIN runs : i \in DOMAIN runs' /\ runs'[i] = runs[i]
      <4>1. CASE CommitRun(t)
        BY <1>0, <4>1 DEF CommitRun
      <4>2. CASE ~CommitRun(t)
        BY <1>1, <4>2
           DEF ThreadStep, Proceed, Submit, TriggerRun, EnterTrigger, PersistEvent,
               RecordAccepted, Decide, RecordDebounced, RunEvent, RecordTriggered,
               RecordFailed, MakeContext, FailRun, DatabaseError, tables
      <4> QED
        BY <4>1, <4>2
    <3> QED
      BY <1>0, <3>1, <3>2, SameLog
  <2> QED
    BY <2>1, <2>2
<1>2. CASE Crash \/ Tick \/ UNCHANGED vars
  <2>1. UNCHANGED tables /\ clock' \in {clock, clock + 1}
    BY <1>2 DEF Crash, Tick, vars, tables
  <2>2. SameTriggered
    BY <2>1 DEF tables, SameTriggered, Triggered
  <2>3. runs' = runs
    BY <2>1 DEF tables
  <2> QED
    BY <1>0, <2>1, <2>2, <2>3, SameLog
<1> QED
  BY <1>1, <1>2, NextCases

-----------------------------------------------------------------------------
(* The invariant of the trigger path, in every reachable state.             *)
LEMMA TriggerInvInit ==
  ASSUME Init
  PROVE  TriggerInv
<1> USE TriggerAssumption DEF Init
<1>1. TypeOK
  BY DEF TypeOK, TablesTyped, FramesTyped, NoContext, Frame
<1>2. Triggered = {}
  BY DEF Triggered
<1>3. TriggeredEvents = {}
  BY <1>2 DEF TriggeredEvents
<1>4. LockInv /\ FrameInv /\ BatchFresh /\ CommittedInv
  BY DEF LockInv, FrameInv, FrameOK, InSubmit, InRun, SubmitSteps, RunSteps,
         BatchFresh, CommittedInv
<1>5. SequenceInv /\ SubmittedInv
  BY <1>3 DEF SequenceInv, SequenceDense, SubmittedInv
<1>6. LastTriggeredInv /\ TriggeredNamesItsRun /\ TriggeredSpaced
  BY <1>2 DEF LastTriggeredInv, TriggeredNamesItsRun, TriggeredSpaced
<1> QED
  BY <1>1, <1>4, <1>5, <1>6 DEF TriggerInv

LEMMA TriggerInvStep ==
  ASSUME TriggerInv, [Next]_vars
  PROVE  TriggerInv'
BY TypeStep, LockStep, FrameStep, SequenceStep, SubmittedStep, BatchStep,
   CommittedStep, LogStep
   DEF TriggerInv, LogInv

(* TriggerInv holds throughout: it is the inductive strengthening of the    *)
(* safety properties of EventTrigger.submit and Scheduler.trigger below.    *)
THEOREM TriggerInvariant == Spec => []TriggerInv
<1>1. Init => TriggerInv
  BY TriggerInvInit
<1>2. TriggerInv /\ [Next]_vars => TriggerInv'
  BY TriggerInvStep
<1> QED
  BY <1>1, <1>2, PTL DEF Spec

(* Tables, locks and frames keep their types.                               *)
THEOREM TypeCorrect == Spec => []TypeOK
<1>1. TriggerInv => TypeOK
  BY DEF TriggerInv
<1> QED
  BY <1>1, TriggerInvariant, PTL

(* The batch a submission read before its run is still exactly the pending  *)
(* batch, outside the window, when the run commits and its row is written.  *)
THEOREM BatchStaysFresh == Spec => []BatchFresh
<1>1. TriggerInv => BatchFresh
  BY DEF TriggerInv
<1> QED
  BY <1>1, TriggerInvariant, PTL

(* Each EVENT_TRIGGERED row names a committed event run over its events,    *)
(* and no event is consumed twice.                                          *)
THEOREM TriggeredRowsNameRuns == Spec => []TriggeredNamesItsRun
<1>1. TriggerInv => TriggeredNamesItsRun
  BY DEF TriggerInv
<1> QED
  BY <1>1, TriggerInvariant, PTL

(* Recorded event runs are a cooldown apart, across errors and restarts.    *)
THEOREM TriggeredRowsSpaced == Spec => []TriggeredSpaced
<1>1. TriggerInv => TriggeredSpaced
  BY DEF TriggerInv
<1> QED
  BY <1>1, TriggerInvariant, PTL

(* Committed runs are numbered 1, 2, 3, ... though each number is read in   *)
(* one transaction and written in a later one.                              *)
THEOREM SequenceHasNoGaps == Spec => []SequenceDense
<1>1. TriggerInv => SequenceDense
  BY DEF TriggerInv, SequenceInv
<1> QED
  BY <1>1, TriggerInvariant, PTL

-----------------------------------------------------------------------------
(* The contract.  A submission's transactions, locks and runs are all       *)
(* stuttering steps of DebounceContract but two: storing a complete event   *)
(* is its Accept, and the EVENT_TRIGGERED row its TakeBatch.                *)
LEMMA WaitingIsPending == Contract!Waiting = PendingCompleteEvents
<1> DEFINE batches == {[events |-> event_log[i].events, at |-> event_log[i].at] :
                          i \in Triggered}
<1>1. UNION {b.events : b \in batches} = TriggeredEvents
  <2>1. \A e : (e \in UNION {b.events : b \in batches})
                  <=> \E i \in Triggered : e \in event_log[i].events
    <3>1. \A i \in Triggered :
             \E b \in batches : b.events = event_log[i].events
      <4> SUFFICES ASSUME NEW i \in Triggered
                   PROVE  \E b \in batches : b.events = event_log[i].events
        OBVIOUS
      <4>1. [events |-> event_log[i].events, at |-> event_log[i].at] \in batches
        OBVIOUS
      <4> QED
        BY <4>1
    <3>2. \A b \in batches : \E i \in Triggered : b.events = event_log[i].events
      OBVIOUS
    <3> HIDE DEF batches
    <3> QED
      BY <3>1, <3>2
  <2>2. \A e : (e \in TriggeredEvents) <=> \E i \in Triggered : e \in event_log[i].events
    BY DEF TriggeredEvents
  <2> QED
    BY <2>1, <2>2
<1>2. Contract!Waiting = (macro_events \cap CompleteEvents) \ UNION {b.events : b \in batches}
  BY DEF Contract!Waiting
<1> HIDE DEF batches
<1> QED
  BY <1>1, <1>2 DEF PendingCompleteEvents

LEMMA TriggeredTakesBatch ==
  ASSUME TriggerInv, NEW t \in Threads, RecordTriggered(t)
  PROVE  Contract!TakeBatch
<1> USE DEF TriggerInv
<1>1. /\ clock' = clock /\ macro_events' = macro_events /\ pc[t] = "triggered"
      /\ Record("event_triggered", pending[t], run_id[t])
  BY DEF RecordTriggered
<1>2. InSubmit(t) /\ \A i \in Triggered : clock >= event_log[i].at + Cooldown
  BY <1>1, WindowOver
<1>3. req[t] \in pending[t] /\ pending[t] = PendingCompleteEvents
  BY <1>1, <1>2 DEF BatchFresh
<1> DEFINE n == Len(event_log) + 1
<1>4. /\ Triggered' = Triggered \cup {n}
      /\ \A i \in Triggered : event_log'[i] = event_log[i]
      /\ event_log'[n].events = pending[t]
      /\ event_log'[n].at = clock
  BY <1>1, TriggeredRecord DEF TypeOK, TablesTyped
<1> HIDE DEF n
<1>5. {[events |-> event_log'[i].events, at |-> event_log'[i].at] : i \in Triggered'}
       = {[events |-> event_log[i].events, at |-> event_log[i].at] : i \in Triggered}
           \cup {[events |-> pending[t], at |-> clock]}
  BY <1>4
<1> QED
  BY <1>1, <1>2, <1>3, <1>5, WaitingIsPending DEF Contract!TakeBatch

LEMMA ContractStep ==
  ASSUME TriggerInv, [Next]_vars
  PROVE  [Contract!ContractNext]_Contract!contractVars
<1> USE DEF TriggerInv
<1>1. ASSUME NEW t \in Threads, ThreadStep(t)
      PROVE  [Contract!ContractNext]_Contract!contractVars
  <2>1. CASE RecordTriggered(t)
    BY <2>1, TriggeredTakesBatch DEF Contract!ContractNext
  <2>2. CASE ~RecordTriggered(t)
    <3>1. SameTriggered /\ clock' = clock
      BY <1>1, <2>2, TriggeredKept, ClockKept
    <3>2. {[events |-> event_log'[i].events, at |-> event_log'[i].at] : i \in Triggered'}
           = {[events |-> event_log[i].events, at |-> event_log[i].at] : i \in Triggered}
      BY <3>1 DEF SameTriggered
    <3>3. CASE macro_events' \cap CompleteEvents = macro_events \cap CompleteEvents
      BY <3>1, <3>2, <3>3 DEF Contract!contractVars
    <3>4. CASE macro_events' \cap CompleteEvents # macro_events \cap CompleteEvents
      <4>1. macro_events' = macro_events \cup {req[t]} /\ req[t] \notin macro_events
        BY <1>1, <3>4
           DEF ThreadStep, Proceed, Submit, TriggerRun, EnterTrigger, PersistEvent,
               RecordAccepted, Decide, RecordDebounced, RunEvent, RecordTriggered,
               RecordFailed, MakeContext, CommitRun, FailRun, DatabaseError, tables
      <4>2. req[t] \in CompleteEvents
        BY <3>4, <4>1
      <4>3. Contract!Accept(req[t])
        BY <3>1, <3>2, <4>1, <4>2 DEF Contract!Accept
      <4> QED
        BY <4>2, <4>3 DEF Contract!ContractNext
    <3> QED
      BY <3>3, <3>4
  <2> QED
    BY <2>1, <2>2
<1>2. CASE Tick
  BY <1>2 DEF Tick, tables, Contract!ContractNext, Contract!PassTime, Triggered
<1>3. CASE Crash \/ UNCHANGED vars
  BY <1>3 DEF Crash, vars, tables, Contract!contractVars, Triggered
<1> QED
  BY <1>1, <1>2, <1>3, NextCases

(* The trigger path implements its contract: whatever the interleaving of   *)
(* the threads and whatever fails, complete events accumulate, a recorded   *)
(* batch takes all that wait, and batches are a cooldown apart.             *)
THEOREM TriggerImplementsContract == Spec => ImplementsContract
<1>1. Init => Contract!ContractInit
  BY DEF Init, Contract!ContractInit, Triggered
<1>2. TriggerInv /\ [Next]_vars => [Contract!ContractNext]_Contract!contractVars
  BY ContractStep
<1> QED
  BY <1>1, <1>2, TriggerInvariant, PTL
     DEF Spec, ImplementsContract, Contract!ContractSpec

-----------------------------------------------------------------------------
(* The runs and rows the trigger path leaves behind. *)

(* What a thread's step may do to the runs and to the log.                  *)
LEMMA OnlyCommitAddsRun ==
  ASSUME NEW t \in Threads, ThreadStep(t), ~CommitRun(t)
  PROVE  runs' = runs
BY DEF ThreadStep, Proceed, Submit, TriggerRun, EnterTrigger, PersistEvent,
       RecordAccepted, Decide, RecordDebounced, RunEvent, RecordTriggered,
       RecordFailed, MakeContext, FailRun, DatabaseError, tables

LEMMA CommittedRuns ==
  ASSUME TypeOK, NEW t \in Threads, CommitRun(t)
  PROVE  LET n == Len(runs) + 1 IN
         /\ n \in Nat /\ n \notin DOMAIN runs
         /\ DOMAIN runs = 1..Len(runs)
         /\ DOMAIN runs' = DOMAIN runs \cup {n}
         /\ \A i \in DOMAIN runs : i \in Nat /\ i < n /\ runs'[i] = runs[i]
         /\ runs'[n] = ctx[t]
<1>1. runs \in Seq(RunContext) /\ runs' = Append(runs, ctx[t])
  BY DEF TypeOK, TablesTyped, CommitRun
<1> QED
  BY <1>1

LEMMA OnlyRecordsAddRows ==
  ASSUME NEW t \in Threads, ThreadStep(t)
  PROVE  \/ UNCHANGED event_log
         \/ RecordAccepted(t)
         \/ RecordDebounced(t)
         \/ RecordTriggered(t)
         \/ RecordFailed(t)
BY DEF ThreadStep, Proceed, Submit, TriggerRun, EnterTrigger, PersistEvent, Decide,
       RunEvent, MakeContext, CommitRun, FailRun, DatabaseError, tables

LEMMA NewRow ==
  ASSUME event_log \in Seq(LogRow), NEW type, NEW events, NEW run,
         Record(type, events, run)
  PROVE  LET n == Len(event_log) + 1 IN
         /\ n \in Nat /\ n \notin DOMAIN event_log
         /\ DOMAIN event_log = 1..Len(event_log)
         /\ DOMAIN event_log' = DOMAIN event_log \cup {n}
         /\ \A i \in DOMAIN event_log : i \in Nat /\ i < n /\ event_log'[i] = event_log[i]
         /\ event_log'[n].type = type
         /\ event_log'[n].events = events
BY DEF Record

LEMMA RunStamps ==
  ASSUME TypeOK
  PROVE  /\ \A i \in DOMAIN runs : runs[i].at \in Nat /\ runs[i].events \subseteq Events
         /\ clock \in Nat
<1>1. \A i \in DOMAIN runs : runs[i] \in RunContext
  BY DEF TypeOK, TablesTyped
<1> QED
  BY <1>1, TriggerAssumption DEF RunContext, TypeOK

-----------------------------------------------------------------------------
(* Instants.  A run reads the clock behind the scheduler lock, so no other  *)
(* run commits between its reading and its own commit.                      *)
LEMMA RunClockStep ==
  ASSUME TypeOK, FrameInv, LockInv, RunClockInv, [Next]_vars
  PROVE  RunClockInv'
<1>0. /\ FramesTyped /\ clock \in Nat
      /\ \A i \in DOMAIN runs : runs[i].at \in Nat
  BY RunStamps DEF TypeOK
<1>1. ASSUME NEW t \in Threads, ThreadStep(t) PROVE RunClockInv'
  <2>1. clock' = clock /\ \A u \in Threads \ {t} : SameFrame(u)
    BY <1>0, <1>1, OthersKeepFrames, ClockKept
  <2>2. CASE CommitRun(t)
    <3>1. \A u \in Threads : pc'[u] # "execute"
      <4>1. pc'[t] # "execute"
        BY <1>0, <2>2 DEF CommitRun, Leave, Goto, FramesTyped
      <4>2. \A u \in Threads \ {t} : pc[u] # "execute"
        BY <2>2 DEF CommitRun, LockInv, InRun, RunSteps
      <4> QED
        BY <2>1, <4>1, <4>2 DEF SameFrame
    <3>2. /\ ctx[t].at \in Nat /\ ctx[t].at <= clock
          /\ \A i \in DOMAIN runs : runs[i].at <= ctx[t].at
      BY <1>0, <2>2 DEF CommitRun, RunClockInv, FramesTyped, Frame
    <3> DEFINE n == Len(runs) + 1
    <3>3. /\ n \in Nat /\ n \notin DOMAIN runs
          /\ DOMAIN runs' = DOMAIN runs \cup {n}
          /\ \A i \in DOMAIN runs : i \in Nat /\ i < n /\ runs'[i] = runs[i]
          /\ runs'[n] = ctx[t]
      BY <2>2, CommittedRuns
    <3> HIDE DEF n
    <3>4. \A i, j \in DOMAIN runs' : i <= j => runs'[i].at <= runs'[j].at
      <4> SUFFICES ASSUME NEW i \in DOMAIN runs', NEW j \in DOMAIN runs', i <= j
                   PROVE  runs'[i].at <= runs'[j].at
        OBVIOUS
      <4>1. CASE j = n
        BY <1>0, <3>2, <3>3, <4>1
      <4>2. CASE j # n
        <5>1. i \in DOMAIN runs /\ j \in DOMAIN runs
          BY <3>3, <4>2
        <5> QED
          BY <3>3, <5>1 DEF RunClockInv
      <4> QED
        BY <4>1, <4>2
    <3>5. \A i \in DOMAIN runs' : runs'[i].at <= clock'
      BY <2>1, <3>2, <3>3 DEF RunClockInv
    <3> QED
      BY <3>1, <3>4, <3>5 DEF RunClockInv
  <2>3. CASE MakeContext(t)
    <3>1. runs' = runs /\ now'[t] = now[t] /\ ctx'[t].at = clock
      BY <1>0, <2>3 DEF MakeContext, tables, FramesTyped, Frame
    <3>2. now[t] <= clock
      BY DEF FrameInv, FrameOK
    <3>3. \A u \in Threads \ {t} : pc[u] # "execute"
      BY <2>3 DEF MakeContext, LockInv, InRun, RunSteps
    <3> QED
      BY <1>0, <2>1, <3>1, <3>2, <3>3 DEF RunClockInv, SameFrame
  <2>4. CASE ~CommitRun(t) /\ ~MakeContext(t)
    <3>1. runs' = runs
      BY <1>1, <2>4, OnlyCommitAddsRun
    <3>2. pc'[t] # "execute"
      BY <1>0, <1>1, <2>4
         DEF ThreadStep, Proceed, Submit, TriggerRun, EnterTrigger, PersistEvent,
             RecordAccepted, Decide, RecordDebounced, RunEvent, RecordTriggered,
             RecordFailed, FailRun, DatabaseError, Leave, Goto, FramesTyped
    <3> QED
      BY <2>1, <3>1, <3>2 DEF RunClockInv, SameFrame
  <2> QED
    BY <2>2, <2>3, <2>4
<1>2. CASE Crash
  BY <1>2 DEF Crash, tables, RunClockInv
<1>3. CASE Tick
  BY <1>0, <1>3 DEF Tick, tables, locals, RunClockInv, FramesTyped, Frame
<1>4. CASE UNCHANGED vars
  BY <1>4 DEF vars, RunClockInv
<1> QED
  BY <1>1, <1>2, <1>3, <1>4, NextCases

-----------------------------------------------------------------------------
(* The log.  Tables only grow.                                              *)
LEMMA TablesGrow ==
  ASSUME TypeOK, NEW t \in Threads, ThreadStep(t)
  PROVE  /\ macro_events \subseteq macro_events'
         /\ \A i \in DOMAIN event_log :
               i \in DOMAIN event_log' /\ event_log'[i] = event_log[i]
         /\ \A e, types : LoggedAs(e, types) => LoggedAs(e, types)'
<1>1. macro_events \subseteq macro_events'
  BY DEF ThreadStep, Proceed, Submit, TriggerRun, EnterTrigger, PersistEvent,
         RecordAccepted, Decide, RecordDebounced, RunEvent, RecordTriggered,
         RecordFailed, MakeContext, CommitRun, FailRun, DatabaseError, tables
<1>2. \A i \in DOMAIN event_log :
         i \in DOMAIN event_log' /\ event_log'[i] = event_log[i]
  <2>1. event_log \in Seq(LogRow)
    BY DEF TypeOK, TablesTyped
  <2>2. ASSUME NEW type, NEW events, NEW run, Record(type, events, run)
        PROVE  \A i \in DOMAIN event_log :
                  i \in DOMAIN event_log' /\ event_log'[i] = event_log[i]
    BY <2>1, <2>2, NewRow
  <2> QED
    BY <2>2, OnlyRecordsAddRows
       DEF RecordAccepted, RecordDebounced, RecordTriggered, RecordFailed
<1>3. \A e, types : LoggedAs(e, types) => LoggedAs(e, types)'
  BY <1>2 DEF LoggedAs
<1> QED
  BY <1>1, <1>2, <1>3

(* A row that the submission of e writes names e.                           *)
LEMMA RowLogs ==
  ASSUME TypeOK, NEW type, NEW events, NEW run, Record(type, events, run),
         NEW e \in events, NEW types, type \in types
  PROVE  LoggedAs(e, types)'
<1>1. event_log \in Seq(LogRow)
  BY DEF TypeOK, TablesTyped
<1> QED
  BY <1>1, NewRow DEF LoggedAs

LEMMA AcceptedStep ==
  ASSUME TypeOK, FrameInv, SubmittedInv, AcceptedInv, [Next]_vars
  PROVE  AcceptedInv'
<1> DEFINE Rows == \A i \in DOMAIN event_log :
                      event_log[i].type = "event_accepted" =>
                          event_log[i].events \subseteq macro_events
           Logged(u) == req[u] \in macro_events /\ LoggedAs(req[u], {"event_accepted"})
<1>0. FramesTyped /\ event_log \in Seq(LogRow)
  BY DEF TypeOK, TablesTyped
<1>1. ASSUME NEW t \in Threads, ThreadStep(t) PROVE AcceptedInv'
  <2>1. \A u \in Threads \ {t} : SameFrame(u)
    BY <1>0, <1>1, OthersKeepFrames
  <2>2. FrameOK(t)
    BY DEF FrameInv
  <2>3. /\ macro_events \subseteq macro_events'
        /\ \A i \in DOMAIN event_log :
              i \in DOMAIN event_log' /\ event_log'[i] = event_log[i]
        /\ \A e, types : LoggedAs(e, types) => LoggedAs(e, types)'
    BY <1>1, TablesGrow
  <2>4. Rows'
    <3>1. ASSUME NEW type, NEW events, NEW run, Record(type, events, run),
                 type = "event_accepted" => events \subseteq macro_events
          PROVE  Rows'
      <4> DEFINE n == Len(event_log) + 1
      <4>1. /\ DOMAIN event_log' = DOMAIN event_log \cup {n}
            /\ event_log'[n].type = type /\ event_log'[n].events = events
        BY <1>0, <3>1, NewRow
      <4> HIDE DEF n
      <4> QED
        BY <2>3, <3>1, <4>1 DEF AcceptedInv
    <3>2. CASE UNCHANGED event_log
      BY <2>3, <3>2 DEF AcceptedInv
    <3>3. CASE RecordAccepted(t)
      <4>1. req[t] \in macro_events
        BY <3>3 DEF RecordAccepted, SubmittedInv
      <4>2. Record("event_accepted", {req[t]}, 0)
        BY <3>3 DEF RecordAccepted
      <4> QED
        BY <3>1, <4>1, <4>2
    <3>4. CASE RecordDebounced(t)
      <4>1. Record("event_debounced", {req[t]}, 0)
        BY <3>4 DEF RecordDebounced
      <4> QED
        BY <3>1, <4>1
    <3>5. CASE RecordTriggered(t)
      <4>1. Record("event_triggered", pending[t], run_id[t])
        BY <3>5 DEF RecordTriggered
      <4> QED
        BY <3>1, <4>1
    <3>6. CASE RecordFailed(t)
      <4>1. Record("event_failed", pending[t], 0)
        BY <3>6 DEF RecordFailed
      <4> QED
        BY <3>1, <4>1
    <3> QED
      BY <1>1, <3>2, <3>3, <3>4, <3>5, <3>6, OnlyRecordsAddRows
  <2>5. ASSUME NEW u \in Threads \ {t}, Accepted(u)' PROVE Logged(u)'
    <3>1. Accepted(u) /\ req'[u] = req[u]
      BY <2>1, <2>5 DEF SameFrame, Accepted, InSubmit
    <3> QED
      BY <2>3, <3>1 DEF AcceptedInv
  <2>6. ASSUME Accepted(t)' PROVE Logged(t)'
    <3>1. CASE RecordAccepted(t)
      <4>1. Record("event_accepted", {req[t]}, 0) /\ req[t] \in macro_events
        BY <3>1 DEF RecordAccepted, SubmittedInv
      <4>2. req'[t] = req[t]
        BY <1>0, <2>6, <3>1 DEF RecordAccepted, Accepted, InSubmit, Leave, FramesTyped, locals
      <4>3. PICK e : e = req[t]
        OBVIOUS
      <4>4. LoggedAs(e, {"event_accepted"})'
        BY <4>1, <4>3, RowLogs
      <4> QED
        BY <2>3, <4>1, <4>2, <4>3, <4>4
    <3>2. CASE ~RecordAccepted(t)
      <4>1. req'[t] = req[t] /\ Accepted(t)
        <5> USE <1>0, <2>2, <2>6, <3>2, TriggerAssumption
            DEF FrameOK, FramesTyped, Accepted, InSubmit, InRun, RunSteps, SubmitSteps, Goto
        <5>1. ~Leave(t)
          BY DEF Leave
        <5>2. ASSUME NEW e \in Events, Submit(t, e) PROVE FALSE
          BY <5>2 DEF Submit
        <5>3. ASSUME NEW by \in OtherCallers, TriggerRun(t, by) PROVE FALSE
          BY <5>3 DEF TriggerRun
        <5>4. ~EnterTrigger(t)
          BY DEF EnterTrigger
        <5>5. ~PersistEvent(t)
          BY <5>1 DEF PersistEvent
        <5>6. CASE Decide(t)
          BY <5>6 DEF Decide
        <5>7. CASE RunEvent(t)
          BY <5>7 DEF RunEvent
        <5>8. CASE MakeContext(t)
          BY <5>8 DEF MakeContext
        <5>9. CASE CommitRun(t)
          BY <5>1, <5>9 DEF CommitRun
        <5>10. CASE FailRun(t)
          BY <5>1, <5>10 DEF FailRun
        <5> HIDE <1>0, <2>2, <2>6 DEF FrameOK, FramesTyped, Accepted, InSubmit, InRun, Goto
        <5> QED
          BY <1>1, <5>1, <5>2, <5>3, <5>4, <5>5, <5>6, <5>7, <5>8, <5>9, <5>10
             DEF ThreadStep, Proceed, RecordDebounced, RecordTriggered, RecordFailed,
                 DatabaseError
      <4> QED
        BY <2>3, <4>1 DEF AcceptedInv
    <3> QED
      BY <3>1, <3>2
  <2> QED
    BY <2>4, <2>5, <2>6 DEF AcceptedInv
<1>2. CASE Crash
  BY <1>2, TriggerAssumption DEF Crash, tables, AcceptedInv, Accepted, InSubmit
<1>3. CASE Tick \/ UNCHANGED vars
  BY <1>3 DEF Tick, vars, tables, locals, AcceptedInv, Accepted, InSubmit, LoggedAs
<1> QED
  BY <1>1, <1>2, <1>3, NextCases

(* A batch takes all that was accepted before it: what is accepted is       *)
(* stored, and the batch is all that is stored, complete and not yet taken. *)
LEMMA BatchTakesAllStep ==
  ASSUME TypeOK, FrameInv, BatchFresh, AcceptedInv, BatchTakesAllBefore, [Next]_vars
  PROVE  BatchTakesAllBefore'
<1>0. event_log \in Seq(LogRow) /\ FramesTyped
  BY DEF TypeOK, TablesTyped
<1> DEFINE Taken(k) == UNION {event_log[j].events : j \in Triggered \cap 1..k}
           Covers(k) == \A i \in 1..k :
                           event_log[i].type = "event_accepted" =>
                               (event_log[i].events \cap CompleteEvents) \subseteq Taken(k)
<1>1. ASSUME NEW t \in Threads, ThreadStep(t) PROVE BatchTakesAllBefore'
  <2>n. PICK n \in Nat : n = Len(event_log) + 1
    BY <1>0
  <2>1. \A i \in DOMAIN event_log :
           i \in DOMAIN event_log' /\ event_log'[i] = event_log[i]
    BY <1>1, TablesGrow
  <2>2. DOMAIN event_log = 1..Len(event_log) /\ Len(event_log) \in Nat
    BY <1>0
  <2>3. ASSUME NEW k \in Triggered PROVE Covers(k)'
    <3>1. k \in 1..Len(event_log) /\ Covers(k)
      BY <2>2 DEF Triggered, BatchTakesAllBefore
    <3>2. 1..k \subseteq DOMAIN event_log
      BY <2>2, <3>1
    <3>3. Triggered \cap 1..k \subseteq Triggered' \cap 1..k
      BY <2>1, <3>2 DEF Triggered
    <3>4. Taken(k) \subseteq Taken(k)'
      BY <2>1, <3>2, <3>3
    <3> HIDE DEF Taken
    <3> QED
      BY <2>1, <3>1, <3>2, <3>4
  <2>4. CASE RecordTriggered(t)
    <3>1. /\ Record("event_triggered", pending[t], run_id[t]) /\ pc[t] = "triggered"
          /\ macro_events' = macro_events
      BY <2>4 DEF RecordTriggered
    <3>2. /\ Triggered' = Triggered \cup {n} /\ n \in Nat
          /\ \A i \in Triggered : i < n /\ i \in Nat
          /\ TriggeredEvents' = TriggeredEvents \cup pending[t]
      BY <1>0, <2>n, <3>1, TriggeredRecord
    <3>3. DOMAIN event_log' = 1..n /\ event_log'[n].type = "event_triggered"
      BY <1>0, <2>n, <3>1 DEF Record
    <3>4. pending[t] = PendingCompleteEvents
      <4>1. InSubmit(t)
        BY <3>1, TriggerAssumption DEF FrameInv, FrameOK, InSubmit, SubmitSteps
      <4> QED
        BY <3>1, <4>1 DEF BatchFresh
    <3>5. Triggered' \cap 1..n = Triggered'
      BY <3>3 DEF Triggered
    <3>6. Taken(n)' = TriggeredEvents'
      BY <3>5 DEF TriggeredEvents
    <3>7. macro_events \cap CompleteEvents \subseteq TriggeredEvents'
      BY <3>2, <3>4 DEF PendingCompleteEvents
    <3>8. Covers(n)'
      <4> SUFFICES ASSUME NEW i \in 1..n, event_log'[i].type = "event_accepted"
                   PROVE  event_log'[i].events \cap CompleteEvents \subseteq TriggeredEvents'
        BY <3>6
      <4>1. i \in DOMAIN event_log
        BY <2>2, <2>n, <3>3
      <4>2. event_log[i].events \subseteq macro_events
        BY <2>1, <4>1 DEF AcceptedInv
      <4> QED
        BY <2>1, <3>7, <4>1, <4>2
    <3> HIDE DEF Covers
    <3>9. \A k \in Triggered' : Covers(k)'
      BY <2>3, <3>2, <3>8
    <3> QED
      BY <3>9 DEF Covers, BatchTakesAllBefore
  <2>5. CASE ~RecordTriggered(t)
    <3>1. Triggered' = Triggered
      BY <1>1, <2>5, TriggeredKept DEF SameTriggered
    <3> HIDE DEF Covers
    <3>2. \A k \in Triggered' : Covers(k)'
      BY <2>3, <3>1
    <3> QED
      BY <3>2 DEF Covers, BatchTakesAllBefore
  <2> QED
    BY <2>4, <2>5
<1>2. CASE Crash \/ Tick \/ UNCHANGED vars
  BY <1>2 DEF Crash, Tick, vars, tables, BatchTakesAllBefore, Triggered
<1> QED
  BY <1>1, <1>2, NextCases

-----------------------------------------------------------------------------
(* Event runs.                                                             *)
LEMMA FaultsCounted ==
  ASSUME TypeOK, NEW t \in Threads, ThreadStep(t)
  PROVE  /\ faults \in Nat
         /\ DatabaseError(t) => faults' = faults + 1
         /\ ~DatabaseError(t) => faults' = faults
<1>1. faults \in Nat
  BY TriggerAssumption DEF TypeOK
<1>2. DatabaseError(t) => faults' = faults + 1
  BY DEF DatabaseError
<1>3. ~DatabaseError(t) => faults' = faults
  BY DEF ThreadStep, Proceed, Submit, TriggerRun, EnterTrigger, PersistEvent,
         RecordAccepted, Decide, RecordDebounced, RunEvent, RecordTriggered,
         RecordFailed, MakeContext, CommitRun, FailRun
<1> QED
  BY <1>1, <1>2, <1>3

(* A submission whose run is committed writes the row, or is lost.          *)
LEMMA TriggeredNext ==
  ASSUME FrameInv, NEW t \in Threads, pc[t] = "triggered", ThreadStep(t)
  PROVE  RecordTriggered(t) \/ DatabaseError(t)
<1>1. FrameOK(t)
  BY DEF FrameInv
<1> QED
  BY <1>1, TriggerAssumption
     DEF FrameOK, SubmitSteps, ThreadStep, Proceed, Submit, TriggerRun, EnterTrigger,
         PersistEvent, RecordAccepted, Decide, RecordDebounced, RunEvent, RecordFailed,
         MakeContext, CommitRun, FailRun, InRun, RunSteps

(* While an event run is under way its submission has the trigger lock: no  *)
(* other one is between its commit and its row.                             *)
LEMMA EventRunAlone ==
  ASSUME FrameInv, LockInv, BatchFresh,
         NEW t \in Threads, pc[t] = "execute", ctx[t].by = "event_trigger"
  PROVE  /\ InSubmit(t)
         /\ ctx[t].events = PendingCompleteEvents
         /\ pending[t] = PendingCompleteEvents
         /\ \A u \in Threads : pc[u] # "triggered"
<1>1. FrameOK(t) /\ InRun(t)
  BY DEF FrameInv, InRun, RunSteps
<1>2. InSubmit(t)
  BY <1>1 DEF FrameOK, InSubmit
<1>3. pending[t] = PendingCompleteEvents /\ ctx[t].events = pending[t]
  BY <1>1, <1>2 DEF BatchFresh, FrameOK, RunSteps
<1>4. ASSUME NEW u \in Threads, pc[u] = "triggered" PROVE FALSE
  <2>1. InSubmit(u)
    BY <1>4, TriggerAssumption DEF FrameInv, FrameOK, InSubmit, SubmitSteps
  <2> QED
    BY <1>2, <1>4, <2>1 DEF LockInv
<1> QED
  BY <1>2, <1>3, <1>4

LEMMA RunsPerEventStep ==
  ASSUME TypeOK, FrameInv, LockInv, BatchFresh, RunsPerEventInv, [Next]_vars
  PROVE  RunsPerEventInv'
<1> DEFINE Bounded(e) ==
             Cardinality(EventRunsOf(e)) <= faults + (IF Settled(e) THEN 1 ELSE 0)
<1> SUFFICES ASSUME NEW e \in Events PROVE Bounded(e)'
  BY DEF RunsPerEventInv
<1>0. /\ FramesTyped /\ event_log \in Seq(LogRow) /\ runs \in Seq(RunContext)
      /\ faults \in Nat
  BY TriggerAssumption DEF TypeOK, TablesTyped
<1>f. /\ IsFiniteSet(EventRunsOf(e)) /\ Cardinality(EventRunsOf(e)) \in Nat
      /\ EventRunsOf(e) \subseteq DOMAIN runs
  <2>1. IsFiniteSet(1..Len(runs)) /\ DOMAIN runs = 1..Len(runs)
    BY <1>0, FS_Interval
  <2> QED
    BY <2>1, FS_Subset, FS_CardinalityType DEF EventRunsOf
<1>b. Bounded(e)
  BY DEF RunsPerEventInv
<1>k. ASSUME runs' = runs, faults' \in Nat,
             \/ faults' >= faults /\ (Settled(e) => Settled(e)')
             \/ faults' = faults + 1
      PROVE  Bounded(e)'
  <2>1. EventRunsOf(e)' = EventRunsOf(e)
    BY <1>k DEF EventRunsOf
  <2> QED
    BY <1>0, <1>b, <1>f, <1>k, <2>1
<1>1. ASSUME NEW t \in Threads, ThreadStep(t) PROVE Bounded(e)'
  <2>1. \A u \in Threads \ {t} : SameFrame(u)
    BY <1>0, <1>1, OthersKeepFrames
  <2>2. /\ DatabaseError(t) => faults' = faults + 1
        /\ ~DatabaseError(t) => faults' = faults
    BY <1>1, FaultsCounted
  <2>3. CASE CommitRun(t)
    <3>1. faults' = faults /\ TriggeredEvents' = TriggeredEvents /\ pc[t] = "execute"
      <4>1. SameTriggered
        BY <2>3 DEF CommitRun, SameTriggered, Triggered
      <4> QED
        BY <2>3, <4>1, SameReads DEF CommitRun
    <3>2. PICK n \in Nat : /\ n \notin DOMAIN runs
                           /\ DOMAIN runs' = DOMAIN runs \cup {n}
                           /\ \A i \in DOMAIN runs : runs'[i] = runs[i]
                           /\ runs'[n] = ctx[t]
      BY <2>3, CommittedRuns
    <3>3. CASE ctx[t].by = "event_trigger" /\ e \in ctx[t].events
      <4>1. EventRunsOf(e)' = EventRunsOf(e) \cup {n} /\ n \notin EventRunsOf(e)
        BY <3>2, <3>3 DEF EventRunsOf
      <4>2. Cardinality(EventRunsOf(e)') = Cardinality(EventRunsOf(e)) + 1
        BY <1>f, <4>1, FS_AddElement
      <4>3. ~Settled(e)
        BY <3>1, <3>3, EventRunAlone DEF Settled, PendingCompleteEvents
      <4>4. Settled(e)'
        <5>1. pc'[t] = "triggered" /\ pending'[t] = pending[t]
          BY <1>0, <2>3, <3>3 DEF CommitRun, Goto, FramesTyped
        <5> QED
          BY <3>1, <3>3, <5>1, EventRunAlone DEF Settled
      <4> QED
        BY <1>0, <1>b, <1>f, <3>1, <4>2, <4>3, <4>4
    <3>4. CASE ~(ctx[t].by = "event_trigger" /\ e \in ctx[t].events)
      <4>1. EventRunsOf(e)' = EventRunsOf(e)
        BY <3>2, <3>4 DEF EventRunsOf
      <4>2. Settled(e) => Settled(e)'
        BY <2>1, <3>1 DEF Settled, SameFrame
      <4> QED
        BY <1>0, <1>b, <1>f, <3>1, <4>1, <4>2
    <3> QED
      BY <3>3, <3>4
  <2>4. CASE RecordTriggered(t)
    <3>1. Record("event_triggered", pending[t], run_id[t]) /\ runs' = runs /\ faults' = faults
      BY <2>4 DEF RecordTriggered
    <3>2. TriggeredEvents' = TriggeredEvents \cup pending[t]
      BY <1>0, <3>1, TriggeredRecord
    <3>3. Settled(e) => Settled(e)'
      BY <2>1, <3>2 DEF Settled, SameFrame
    <3> QED
      BY <1>0, <1>k, <3>1, <3>3
  <2>5. CASE ~CommitRun(t) /\ ~RecordTriggered(t)
    <3>1. runs' = runs /\ TriggeredEvents' = TriggeredEvents
      BY <1>1, <2>5, OnlyCommitAddsRun, TriggeredKept, SameReads
    <3>2. ~DatabaseError(t) => pc[t] # "triggered"
      BY <1>1, <2>5, TriggeredNext
    <3>3. ~DatabaseError(t) => (Settled(e) => Settled(e)')
      BY <2>1, <3>1, <3>2 DEF Settled, SameFrame
    <3> QED
      BY <1>0, <1>k, <2>2, <3>1, <3>3
  <2> QED
    BY <2>3, <2>4, <2>5
<1>2. CASE Crash
  BY <1>0, <1>2, <1>k DEF Crash, tables
<1>3. CASE Tick \/ UNCHANGED vars
  <2>1. Settled(e) => Settled(e)'
    BY <1>3 DEF Tick, vars, tables, locals, Settled, TriggeredEvents, Triggered
  <2> QED
    BY <1>0, <1>3, <1>k, <2>1 DEF Tick, vars, tables
<1> QED
  BY <1>1, <1>2, <1>3, NextCases

(* Rows follow their runs, and without faults no run misses its row.        *)
LEMMA RunRowsStep ==
  ASSUME TypeOK, FrameInv, CommittedInv, TriggeredNamesItsRun, RunClockInv, RunRowsInv,
         [Next]_vars
  PROVE  RunRowsInv'
<1> DEFINE Later == \A i \in Triggered : event_log[i].at >= runs[event_log[i].run].at
           Rowed(i) == \/ \E k \in Triggered : event_log[k].run = i
                       \/ \E t \in Threads : pc[t] = "triggered" /\ run_id[t] = i
           AllRowed == \A i \in DOMAIN runs : runs[i].by = "event_trigger" => Rowed(i)
<1>0. /\ FramesTyped /\ event_log \in Seq(LogRow) /\ runs \in Seq(RunContext)
      /\ faults \in Nat
  BY TriggerAssumption DEF TypeOK, TablesTyped
<1>b. Later /\ (faults = 0 => AllRowed)
  BY DEF RunRowsInv
<1>1. ASSUME NEW t \in Threads, ThreadStep(t) PROVE RunRowsInv'
  <2>1. \A u \in Threads \ {t} : SameFrame(u)
    BY <1>0, <1>1, OthersKeepFrames
  <2>2. /\ DatabaseError(t) => faults' = faults + 1
        /\ ~DatabaseError(t) => faults' = faults
    BY <1>1, FaultsCounted
  <2>3. CASE CommitRun(t)
    <3>1. /\ Triggered' = Triggered /\ event_log' = event_log /\ pc[t] = "execute"
      BY <2>3 DEF CommitRun, Triggered
    <3>2. PICK n \in Nat : /\ n = Len(runs) + 1 /\ n \notin DOMAIN runs
                           /\ DOMAIN runs' = DOMAIN runs \cup {n}
                           /\ \A i \in DOMAIN runs : runs'[i] = runs[i]
                           /\ runs'[n] = ctx[t]
      BY <2>3, CommittedRuns
    <3>3. Later'
      BY <1>b, <3>1, <3>2 DEF TriggeredNamesItsRun
    <3>4. ASSUME faults' = 0, NEW i \in DOMAIN runs', runs'[i].by = "event_trigger"
          PROVE  Rowed(i)'
      <4>1. CASE i = n
        <5>1. pc'[t] = "triggered" /\ run_id'[t] = n
          BY <1>0, <2>3, <3>2, <3>4, <4>1 DEF CommitRun, Goto, FramesTyped
        <5> QED
          BY <4>1, <5>1
      <4>2. CASE i # n
        <5>1. Rowed(i)
          BY <1>b, <2>2, <2>3, <3>2, <3>4, <4>2 DEF CommitRun
        <5> QED
          BY <2>1, <3>1, <5>1 DEF SameFrame
      <4> QED
        BY <4>1, <4>2
    <3> QED
      BY <3>3, <3>4 DEF RunRowsInv
  <2>4. CASE RecordTriggered(t)
    <3>1. /\ Record("event_triggered", pending[t], run_id[t])
          /\ runs' = runs /\ faults' = faults /\ pc[t] = "triggered"
      BY <2>4 DEF RecordTriggered
    <3>2. PICK n \in Nat : /\ Triggered' = Triggered \cup {n}
                           /\ \A i \in Triggered : event_log'[i] = event_log[i]
                           /\ event_log'[n].run = run_id[t]
                           /\ event_log'[n].at = clock
      BY <1>0, <3>1, TriggeredRecord
    <3>3. run_id[t] \in DOMAIN runs /\ runs[run_id[t]].at <= clock
      BY <3>1 DEF CommittedInv, RunClockInv
    <3>4. Later'
      <4> SUFFICES ASSUME NEW i \in Triggered'
                   PROVE  event_log'[i].at >= runs'[event_log'[i].run].at
        OBVIOUS
      <4>1. CASE i = n
        BY <1>0, <3>1, <3>2, <3>3, <4>1, RunStamps
      <4>2. CASE i # n
        BY <1>b, <3>1, <3>2, <4>2
      <4> QED
        BY <4>1, <4>2
    <3>5. ASSUME faults' = 0, NEW i \in DOMAIN runs', runs'[i].by = "event_trigger"
          PROVE  Rowed(i)'
      <4>1. Rowed(i)
        BY <1>b, <3>1, <3>5
      <4>2. CASE \E k \in Triggered : event_log[k].run = i
        BY <3>2, <4>2
      <4>3. CASE \E u \in Threads \ {t} : pc[u] = "triggered" /\ run_id[u] = i
        BY <2>1, <4>3 DEF SameFrame
      <4>4. CASE run_id[t] = i
        BY <3>2, <4>4
      <4> QED
        BY <4>1, <4>2, <4>3, <4>4
    <3> QED
      BY <3>4, <3>5 DEF RunRowsInv
  <2>5. CASE ~CommitRun(t) /\ ~RecordTriggered(t)
    <3>1. runs' = runs /\ SameTriggered
      BY <1>1, <2>5, OnlyCommitAddsRun, TriggeredKept
    <3>2. Later'
      BY <1>b, <3>1 DEF SameTriggered
    <3>3. ASSUME faults' = 0, NEW i \in DOMAIN runs', runs'[i].by = "event_trigger"
          PROVE  Rowed(i)'
      <4>1. faults = 0 /\ ~DatabaseError(t)
        BY <1>0, <2>2, <3>3
      <4>2. pc[t] # "triggered"
        BY <1>1, <2>5, <4>1, TriggeredNext
      <4>3. Rowed(i)
        BY <1>b, <3>1, <3>3, <4>1
      <4> QED
        BY <2>1, <3>1, <4>2, <4>3 DEF SameTriggered, SameFrame
    <3> QED
      BY <3>2, <3>3 DEF RunRowsInv
  <2> QED
    BY <2>3, <2>4, <2>5
<1>2. CASE Crash
  BY <1>0, <1>2 DEF Crash, tables, RunRowsInv, Triggered
<1>3. CASE Tick \/ UNCHANGED vars
  BY <1>3 DEF Tick, vars, tables, locals, RunRowsInv, Triggered
<1> QED
  BY <1>1, <1>2, <1>3, NextCases

(* A submission that goes on to a run read the clock after the window of    *)
(* every recorded run.                                                      *)
LEMMA WindowOverOnEntry ==
  ASSUME TypeOK, LastTriggeredInv, TriggeredSpaced,
         NEW t \in Threads, ~CoolingDown(now[t])
  PROVE  \A i \in Triggered : now[t] >= event_log[i].at + Cooldown
<1>1. /\ now[t] \in Nat
      /\ \A i \in Triggered : i \in Nat /\ event_log[i].at \in Nat
  <2>1. event_log \in Seq(LogRow)
    BY DEF TypeOK, TablesTyped
  <2> QED
    BY <2>1, TriggeredStamps DEF TypeOK, FramesTyped, Triggered
<1> SUFFICES ASSUME NEW i \in Triggered PROVE now[t] >= event_log[i].at + Cooldown
  OBVIOUS
<1>2. PICK l \in Triggered : \A j \in Triggered : j <= l
  BY DEF LastTriggeredInv
<1>3. now[t] >= event_log[l].at + Cooldown
  BY <1>1, <1>2, TriggerAssumption DEF CoolingDown
<1>4. i = l \/ event_log[l].at >= event_log[i].at + Cooldown
  <2>1. i <= l /\ i \in Nat /\ l \in Nat
    BY <1>1, <1>2
  <2> QED
    BY <2>1 DEF TriggeredSpaced
<1> QED
  BY <1>1, <1>3, <1>4, TriggerAssumption

LEMMA EventRunsSpacedStep ==
  ASSUME TypeOK, FrameInv, LockInv, BatchFresh, LastTriggeredInv, TriggeredSpaced,
         TriggeredNamesItsRun, RunClockInv, RunRowsInv, EventRunsSpaced, [Next]_vars
  PROVE  EventRunsSpaced'
<1>0. /\ FramesTyped /\ faults \in Nat
      /\ event_log \in Seq(LogRow) /\ runs \in Seq(RunContext)
  BY TriggerAssumption DEF TypeOK, TablesTyped
<1>1. ASSUME NEW t \in Threads, ThreadStep(t) PROVE EventRunsSpaced'
  <2>1. CASE CommitRun(t)
    <3>1. faults' = faults /\ pc[t] = "execute"
      BY <2>1 DEF CommitRun
    <3>2. PICK n \in Nat : /\ n \notin DOMAIN runs
                           /\ DOMAIN runs' = DOMAIN runs \cup {n}
                           /\ \A i \in DOMAIN runs : i \in Nat /\ i < n /\ runs'[i] = runs[i]
                           /\ runs'[n] = ctx[t]
      BY <2>1, CommittedRuns
    <3>3. ASSUME faults = 0, NEW i \in DOMAIN runs, runs[i].by = "event_trigger",
                 ctx[t].by = "event_trigger"
          PROVE  ctx[t].at >= runs[i].at + Cooldown
      <4>1. InSubmit(t) /\ \A u \in Threads : pc[u] # "triggered"
        BY <3>1, <3>3, EventRunAlone
      <4>2. PICK k \in Triggered : event_log[k].run = i
        BY <3>3, <4>1 DEF RunRowsInv
      <4>3. event_log[k].at >= runs[i].at
        BY <4>2 DEF RunRowsInv
      <4>4. now[t] >= event_log[k].at + Cooldown
        BY <3>1, <4>1, WindowOverOnEntry DEF BatchFresh, RunSteps
      <4>5. now[t] <= ctx[t].at
        BY <3>1 DEF RunClockInv
      <4>6. /\ event_log[k].at \in Nat /\ runs[i].at \in Nat /\ now[t] \in Nat
            /\ ctx[t].at \in Nat
        BY <1>0, TriggeredStamps, RunStamps DEF FramesTyped, Frame
      <4> QED
        BY <4>3, <4>4, <4>5, <4>6, TriggerAssumption
    <3> SUFFICES ASSUME faults' = 0, NEW i \in DOMAIN runs', NEW j \in DOMAIN runs', i < j,
                        runs'[i].by = "event_trigger", runs'[j].by = "event_trigger"
                 PROVE  runs'[j].at >= runs'[i].at + Cooldown
      BY DEF EventRunsSpaced
    <3>4. i \in DOMAIN runs
      BY <3>2
    <3>5. CASE j = n
      BY <3>1, <3>2, <3>3, <3>4, <3>5
    <3>6. CASE j # n
      BY <3>1, <3>2, <3>4, <3>6 DEF EventRunsSpaced
    <3> QED
      BY <3>5, <3>6
  <2>2. CASE ~CommitRun(t)
    <3>1. runs' = runs
      BY <1>1, <2>2, OnlyCommitAddsRun
    <3>2. faults' = 0 => faults = 0
      BY <1>0, <1>1, FaultsCounted
    <3> QED
      BY <3>1, <3>2 DEF EventRunsSpaced
  <2> QED
    BY <2>1, <2>2
<1>2. CASE Crash
  BY <1>0, <1>2 DEF Crash, tables, EventRunsSpaced
<1>3. CASE Tick \/ UNCHANGED vars
  BY <1>3 DEF Tick, vars, tables, EventRunsSpaced
<1> QED
  BY <1>1, <1>2, <1>3, NextCases

-----------------------------------------------------------------------------
(* The two invariants together, in every reachable state.                   *)
LEMMA HistoryInvInit ==
  ASSUME Init
  PROVE  HistoryInv
<1> USE TriggerAssumption DEF Init
<1>1. runs = <<>> /\ event_log = <<>> /\ Triggered = {}
  BY DEF Triggered
<1>2. RunClockInv /\ RunRowsInv /\ EventRunsSpaced
  BY <1>1 DEF RunClockInv, RunRowsInv, EventRunsSpaced
<1>3. AcceptedInv /\ BatchTakesAllBefore
  BY <1>1 DEF AcceptedInv, Accepted, InSubmit, BatchTakesAllBefore
<1>4. RunsPerEventInv
  <2>1. \A e : EventRunsOf(e) = {}
    BY <1>1 DEF EventRunsOf
  <2>2. \A e : ~Settled(e)
    BY <1>1 DEF Settled, TriggeredEvents
  <2>3. \A e \in Events : Cardinality(EventRunsOf(e)) = 0
    BY <2>1, FS_EmptySet
  <2>4. faults = 0
    OBVIOUS
  <2> HIDE DEF Init
  <2> QED
    BY <2>2, <2>3, <2>4 DEF RunsPerEventInv
<1> QED
  BY <1>2, <1>3, <1>4 DEF HistoryInv

LEMMA HistoryInvStep ==
  ASSUME TriggerInv, HistoryInv, [Next]_vars
  PROVE  HistoryInv'
BY RunClockStep, AcceptedStep, RunsPerEventStep, RunRowsStep, EventRunsSpacedStep,
   BatchTakesAllStep
   DEF TriggerInv, HistoryInv

(* HistoryInv holds throughout: what the trigger path's properties of runs  *)
(* and rows need on top of TriggerInv.                                      *)
THEOREM HistoryInvariant == Spec => []HistoryInv
<1>1. Init => HistoryInv
  BY HistoryInvInit
<1>2. TriggerInv /\ HistoryInv /\ [Next]_vars => HistoryInv'
  BY HistoryInvStep
<1> QED
  BY <1>1, <1>2, TriggerInvariant, PTL DEF Spec

(* An event run consumes every complete event accepted before it, the       *)
(* debounced and the failed ones included.                                  *)
THEOREM BatchesLeaveNobodyBehind == Spec => []BatchTakesAllBefore
<1>1. HistoryInv => BatchTakesAllBefore
  BY DEF HistoryInv
<1> QED
  BY <1>1, HistoryInvariant, PTL

(* An event is in one event run, and in one more per fault at the most.     *)
THEOREM EventsRunOnce == Spec => []RunsPerEventBounded
<1>1. TypeOK /\ RunsPerEventInv => RunsPerEventBounded
  <2> SUFFICES ASSUME TypeOK, RunsPerEventInv, NEW e \in Events
               PROVE  Cardinality(EventRunsOf(e)) <= 1 + faults
    BY DEF RunsPerEventBounded
  <2>1. faults \in Nat
    BY TriggerAssumption DEF TypeOK
  <2>2. Cardinality(EventRunsOf(e)) \in Nat
    <3>1. DOMAIN runs = 1..Len(runs) /\ Len(runs) \in Nat
      BY DEF TypeOK, TablesTyped
    <3>2. EventRunsOf(e) \subseteq 1..Len(runs) /\ IsFiniteSet(1..Len(runs))
      BY <3>1, FS_Interval DEF EventRunsOf
    <3> QED
      BY <3>2, FS_Subset, FS_CardinalityType
  <2>3. Cardinality(EventRunsOf(e)) <= faults + (IF Settled(e) THEN 1 ELSE 0)
    BY DEF RunsPerEventInv
  <2> QED
    BY <2>1, <2>2, <2>3
<1>2. TriggerInv /\ HistoryInv => TypeOK /\ RunsPerEventInv
  BY DEF TriggerInv, HistoryInv
<1> QED
  BY <1>1, <1>2, TriggerInvariant, HistoryInvariant, PTL

(* Without faults the instants of event runs are a cooldown apart, not only *)
(* the rows written after them.                                             *)
THEOREM EventRunsKeepCooldown == Spec => []EventRunsSpaced
<1>1. HistoryInv => EventRunsSpaced
  BY DEF HistoryInv
<1> QED
  BY <1>1, HistoryInvariant, PTL

(* The latest state is that of the run committed last: instants never go    *)
(* back along the committed runs, and numbers break the ties.               *)
THEOREM LatestIsTheLastRun == Spec => []LatestIsLastCommitted
<1>1. TypeOK /\ SequenceDense /\ RunClockInv => LatestIsLastCommitted
  <2> SUFFICES ASSUME TypeOK, SequenceDense, RunClockInv, runs # <<>>
               PROVE  Latest = {Len(runs)}
    BY DEF LatestIsLastCommitted
  <2>1. PICK n \in Nat : /\ n = Len(runs) /\ n \in DOMAIN runs
                         /\ DOMAIN runs = 1..n
    BY DEF TypeOK, TablesTyped
  <2>2. \A i \in DOMAIN runs : /\ i \in Nat /\ i <= n /\ runs[i].seq = i
                               /\ runs[i].at \in Nat /\ runs[i].at <= runs[n].at
    BY <2>1, RunStamps DEF SequenceDense, RunClockInv
  <2>3. n \in Latest
    BY <2>1, <2>2 DEF Latest, ListedBefore
  <2>4. ASSUME NEW i \in Latest PROVE i = n
    <3>1. i \in DOMAIN runs /\ ListedBefore(i, n)
      BY <2>1 DEF Latest
    <3> QED
      BY <2>1, <2>2, <3>1 DEF ListedBefore
  <2> QED
    BY <2>1, <2>3, <2>4
<1>2. TriggerInv /\ HistoryInv => TypeOK /\ SequenceDense /\ RunClockInv
  BY DEF TriggerInv, HistoryInv, SequenceInv
<1> QED
  BY <1>1, <1>2, TriggerInvariant, HistoryInvariant, PTL

(* The last step of a submission that gets its answer.                      *)
LEMMA AnswerStep ==
  ASSUME TriggerInv, HistoryInv, [Next]_vars,
         NEW t \in Threads, NEW e \in Events,
         InSubmit(t), req[t] = e, pc'[t] = "idle", faults' = faults
  PROVE  /\ e \in macro_events'
         /\ pc[t] # "persist" => LoggedAs(e, {"event_accepted"})'
         /\ pc[t] # "persist" /\ e \in CompleteEvents =>
               LoggedAs(e, EventTypes \ {"event_accepted"})'
<1>0. /\ FrameOK(t) /\ TypeOK /\ FramesTyped /\ faults \in Nat
      /\ BatchFresh /\ AcceptedInv /\ SubmittedInv
  BY TriggerAssumption DEF TriggerInv, HistoryInv, FrameInv, TypeOK
<1>1. pc[t] # "idle"
  BY <1>0 DEF FrameOK, InSubmit
<1>2. ThreadStep(t) /\ ~DatabaseError(t)
  <2>1. ~(Crash \/ Tick \/ UNCHANGED vars)
    BY <1>0, <1>1 DEF Crash, Tick, vars
  <2>2. PICK u \in Threads : ThreadStep(u)
    BY <2>1, NextCases
  <2>3. u = t
    BY <1>0, <1>1, <2>2, OthersKeepFrames DEF SameFrame
  <2> QED
    BY <1>0, <2>2, <2>3, FaultsCounted
<1>3. /\ macro_events \subseteq macro_events'
      /\ LoggedAs(e, {"event_accepted"}) => LoggedAs(e, {"event_accepted"})'
  BY <1>0, <1>2, TablesGrow
<1>4. CASE PersistEvent(t)
  BY <1>0, <1>4 DEF PersistEvent, Goto, FramesTyped
<1>5. CASE RecordAccepted(t)
  <2>1. req[t] \notin CompleteEvents
    BY <1>0, <1>5 DEF RecordAccepted, Goto, FramesTyped
  <2>2. Record("event_accepted", {e}, 0) /\ e \in macro_events
    BY <1>0, <1>5 DEF RecordAccepted, SubmittedInv
  <2>3. LoggedAs(e, {"event_accepted"})'
    BY <1>0, <2>2, RowLogs
  <2> QED
    BY <1>3, <2>1, <2>2, <2>3
<1>6. ASSUME Accepted(t), NEW type \in EventTypes \ {"event_accepted"}, NEW events,
             NEW run, Record(type, events, run), e \in events
      PROVE  /\ e \in macro_events' /\ LoggedAs(e, {"event_accepted"})'
             /\ LoggedAs(e, EventTypes \ {"event_accepted"})'
  <2>1. e \in macro_events /\ LoggedAs(e, {"event_accepted"})
    BY <1>0, <1>6 DEF AcceptedInv
  <2>2. LoggedAs(e, EventTypes \ {"event_accepted"})'
    BY <1>0, <1>6, RowLogs
  <2> QED
    BY <1>3, <2>1, <2>2
<1>7. CASE RecordDebounced(t)
  <2>1. Record("event_debounced", {e}, 0) /\ Accepted(t)
    BY <1>7 DEF RecordDebounced, Accepted
  <2> QED
    BY <1>6, <2>1 DEF EventTypes
<1>8. CASE RecordTriggered(t) \/ RecordFailed(t)
  <2>1. e \in pending[t] /\ Accepted(t)
    BY <1>0, <1>8 DEF RecordTriggered, RecordFailed, BatchFresh, Accepted
  <2>2. \/ Record("event_triggered", pending[t], run_id[t])
        \/ Record("event_failed", pending[t], 0)
    BY <1>8 DEF RecordTriggered, RecordFailed
  <2>3. CASE Record("event_triggered", pending[t], run_id[t])
    BY <1>6, <2>1, <2>3 DEF EventTypes
  <2>4. CASE Record("event_failed", pending[t], 0)
    BY <1>6, <2>1, <2>4 DEF EventTypes
  <2> QED
    BY <2>2, <2>3, <2>4
<1>9. ~(\/ \E f \in Events : Submit(t, f)
        \/ \E by \in OtherCallers : TriggerRun(t, by)
        \/ EnterTrigger(t) \/ Decide(t) \/ RunEvent(t) \/ MakeContext(t))
  BY <1>0, <1>1 DEF Submit, TriggerRun, EnterTrigger, Decide, RunEvent, MakeContext,
                    Goto, FramesTyped
<1>10. ~CommitRun(t) /\ ~FailRun(t)
  BY <1>0 DEF CommitRun, FailRun, FrameOK, InSubmit, InRun, RunSteps, Goto, FramesTyped
<1> QED
  BY <1>2, <1>4, <1>5, <1>7, <1>8, <1>9, <1>10 DEF ThreadStep, Proceed

(* Whoever gets an answer from submit finds the event stored and the log    *)
(* complete about it.                                                       *)
THEOREM AnswersAreDurable == Spec => AnsweredIsDurable
<1>1. TriggerInv /\ HistoryInv /\ [Next]_vars =>
        [\A t \in Threads, e \in Events :
            InSubmit(t) /\ req[t] = e /\ pc'[t] = "idle" /\ faults' = faults =>
              /\ e \in macro_events'
              /\ pc[t] # "persist" => LoggedAs(e, {"event_accepted"})'
              /\ pc[t] # "persist" /\ e \in CompleteEvents =>
                    LoggedAs(e, EventTypes \ {"event_accepted"})']_vars
  BY AnswerStep
<1> QED
  BY <1>1, TriggerInvariant, HistoryInvariant, PTL DEF Spec, AnsweredIsDurable

=============================================================================
