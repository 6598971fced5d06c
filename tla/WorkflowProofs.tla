---------------------------- MODULE WorkflowProofs ----------------------------
(***************************************************************************)
(* The safety properties of the workflow runtime, proved for every         *)
(* definition and any runs, workers and events.  First type correctness:   *)
(* Base, the inductive invariant, is the type invariant with               *)
(* DialledStepHasAttempt, as Bind and Unwind rewrite the last attempt row  *)
(* of a step, which is well typed only because there is one.  The tables   *)
(* (StoreOK) and the workers (WorkersOK) are treated apart.  Every other   *)
(* property is inductive on top of it.                                     *)
(***************************************************************************)
EXTENDS Workflow, TLAPS, SequenceTheorems

USE DEF NoCall

\* The step sets partition the definition by kind.
LEMMA DefinitionType ==
    /\ \A s \in Steps : Definition[s].kind \in {"call", "wait", "wait_for_event", "complete"}
    /\ CallSteps \subseteq Steps /\ WaitSteps \subseteq Steps
    /\ EventSteps \subseteq Steps /\ CompleteSteps \subseteq Steps
BY DefinitionAssumption DEF CallSteps, WaitSteps, EventSteps, CompleteSteps

\* The keys the actions build are keys of the timer table.
LEMMA KeyType ==
    /\ \A r \in Runs, s \in WaitSteps : WaitKey(r, s) \in TimerKeys
    /\ \A r \in Runs, s \in EventSteps : TimeoutKey(r, s) \in TimerKeys
    /\ \A r \in Runs, s \in CallSteps, n \in 1 .. MaxAttemptRows :
          RetryKey(r, s, n) \in TimerKeys
    /\ \A r \in Runs, s \in CallSteps, c \in CallIds :
          CallbackKey(r, s, c) \in TimerKeys
BY DEF WaitKey, TimeoutKey, RetryKey, CallbackKey, TimerKeys

\* A timer belongs to a run and a step and wakes a step or none.
LEMMA WakeType ==
    ASSUME NEW k \in TimerKeys
    PROVE  /\ k.run \in Runs
           /\ k.step \in Steps
           /\ WakeStep(k) \in Steps \cup {NoStep}
<1>1. CASE k.kind = "wait"
  BY <1>1, DefinitionAssumption, DefinitionType DEF TimerKeys, WakeStep
<1>2. CASE k.kind = "timeout"
  BY <1>2, DefinitionAssumption, DefinitionType DEF TimerKeys, WakeStep
<1>3. CASE k.kind = "retry"
  BY <1>3, DefinitionAssumption, DefinitionType DEF TimerKeys, WakeStep
<1>4. CASE k.kind = "callback"
  BY <1>4, DefinitionAssumption, DefinitionType DEF TimerKeys, WakeStep, CallbackStep
<1> QED
  BY <1>1, <1>2, <1>3, <1>4 DEF TimerKeys

\* A branch of a call step is a step of the definition or None.
LEMMA BranchType ==
    ASSUME NEW s \in CallSteps, NEW st
    PROVE  /\ NextStepForCallStatus(s, st) \in Steps \cup {NoStep}
BY DefinitionAssumption DEF NextStepForCallStatus

\* The branches a step may take are its successors, and steps.
LEMMA SuccessorType ==
    /\ \A s \in Steps : Successors(s) \subseteq Steps
    /\ \A s \in CallSteps : s \in Successors(s)
    /\ \A s \in CallSteps, st \in Reports :
          HasBranch(s, st) => NextStepForCallStatus(s, st) \in Successors(s)
    /\ \A s \in EventSteps : Definition[s].next \in Successors(s)
<1>1. \A s \in CallSteps : /\ Definition[s].kind = "call" /\ s \in Steps /\ s # NoStep
                           /\ Definition[s].next # NoStep
  BY DefinitionAssumption DEF CallSteps
<1>2. \A s \in CallSteps : Successors(s) \subseteq Steps
  BY <1>1, DefinitionAssumption DEF Successors
<1>3. \A s \in WaitSteps : Successors(s) \subseteq Steps
  BY DefinitionAssumption DEF Successors, WaitSteps
<1>4. \A s \in EventSteps : Successors(s) \subseteq Steps
  BY DefinitionAssumption DEF Successors, EventSteps
<1>5. \A s \in CompleteSteps : Successors(s) \subseteq Steps
  BY DefinitionAssumption DEF Successors, CompleteSteps
<1>6. ASSUME NEW s \in CallSteps PROVE s \in Successors(s)
  BY <1>1 DEF Successors
<1>7. ASSUME NEW s \in CallSteps, NEW st \in Reports, HasBranch(s, st)
      PROVE  NextStepForCallStatus(s, st) \in Successors(s)
  BY <1>1, <1>7 DEF Successors, HasBranch, NextStepForCallStatus
<1>8. ASSUME NEW s \in EventSteps PROVE Definition[s].next \in Successors(s)
  BY DefinitionAssumption DEF Successors, EventSteps
<1> QED
  BY <1>2, <1>3, <1>4, <1>5, <1>6, <1>7, <1>8, DefinitionAssumption

\* A timer wakes its run at a successor of the step that armed it.
LEMMA WakeFollows ==
    ASSUME NEW k \in TimerKeys, WakeStep(k) # NoStep
    PROVE  WakeStep(k) \in Successors(k.step)
<1>1. CASE k.kind = "wait"
  BY <1>1 DEF TimerKeys, WakeStep, Successors, WaitSteps
<1>2. CASE k.kind = "timeout"
  BY <1>2 DEF TimerKeys, WakeStep, Successors, EventSteps
<1>3. CASE k.kind = "retry"
  BY <1>3, SuccessorType DEF TimerKeys, WakeStep
<1>4. CASE k.kind = "callback"
  <2>1. k.step \in CallSteps /\ WakeStep(k) = CallbackStep(k.step)
    BY <1>4 DEF TimerKeys, WakeStep
  <2> QED
    BY <2>1, SuccessorType, DefinitionAssumption DEF CallbackStep, Successors, CallSteps
<1> QED
  BY <1>1, <1>2, <1>3, <1>4 DEF TimerKeys

TimerRows == [TimerKeys -> {"absent", "pending", "fired", "cancelled"}]

\* create_timer keeps the timer table well typed.
LEMMA ArmedType ==
    ASSUME timers \in TimerRows, NEW k \in TimerKeys
    PROVE  Armed(k) \in TimerRows
BY DEF Armed, TimerRows

\* cancel_pending_timers_for_run keeps the timer table well typed.
LEMMA CancelledType ==
    ASSUME timers \in TimerRows, NEW r
    PROVE  TimersCancelled(r) \in TimerRows
BY DEF TimersCancelled, TimerRows

\* A service call with runs left to advance, or none, is well typed.
LEMMA AdvancingType ==
    ASSUME NEW q \in Seq(Runs)
    PROVE  /\ Advancing(q) \in Worker
           /\ Idle \in Worker
           /\ Advancing(q).pc \in {"idle", "advance"}
           /\ Advancing(q).pc # "idle" => Advancing(q).queue # <<>>
BY DEF Advancing, Idle, Worker

Base == TypeOK /\ DialledStepHasAttempt

\* The run a service call works on exists, and the call may go on or end.
LEMMA JobType ==
    ASSUME Base, NEW w \in Workers, workers[w].pc # "idle"
    PROVE  /\ Job(w) \in Runs
           /\ run[Job(w)].step \in Steps
           /\ workers[w] \in Worker
           /\ workers[w].queue \in Seq(Runs)
           /\ Tail(workers[w].queue) \in Seq(Runs)
           /\ Advanced(w) \in [Workers -> Worker]
           /\ Raised(w) \in [Workers -> Worker]
BY AdvancingType, HeadTailProperties
   DEF Base, TypeOK, DialledStepHasAttempt, Job, Worker, RunRow, Advanced, Raised

\* The inductive invariant holds of the empty database.
LEMMA BaseInit == Init => Base
<1> SUFFICES ASSUME Init PROVE Base
  OBVIOUS
<1>1. run \in [Runs -> RunRow]
  BY DefinitionAssumption DEF Init, NoRun, RunRow
<1>2. attempts \in [Runs -> [CallSteps -> Seq(AttemptRow)]]
  BY DEF Init
<1>3. \A r \in Runs, s \in CallSteps : Len(attempts[r][s]) <= MaxAttemptRows
  BY WorkflowAssumption DEF Init
<1>4. timers \in TimerRows
  BY DEF Init, TimerRows
<1>5. subs \in [Runs -> [EventSteps -> SubRow]]
  BY DEF Init, SubRow
<1>6. events \in [Events -> EventRow]
  BY DEF Init, EventRow
<1>7. calls \in Seq([run : Runs, step : CallSteps]) /\ Len(calls) <= MaxCalls
  BY WorkflowAssumption DEF Init
<1>8. workers \in [Workers -> Worker] /\ DialledStepHasAttempt
  BY DEF Init, Idle, Worker, DialledStepHasAttempt
<1> QED
  BY <1>1, <1>2, <1>3, <1>4, <1>5, <1>6, <1>7, <1>8 DEF Base, TypeOK, TimerRows

StoreOK ==
    /\ run \in [Runs -> RunRow]
    /\ attempts \in [Runs -> [CallSteps -> Seq(AttemptRow)]]
    /\ \A r \in Runs, s \in CallSteps : Len(attempts[r][s]) <= MaxAttemptRows
    /\ timers \in TimerRows
    /\ subs \in [Runs -> [EventSteps -> SubRow]]
    /\ events \in [Events -> EventRow]
    /\ calls \in Seq([run : Runs, step : CallSteps])
    /\ Len(calls) <= MaxCalls

WorkersOK == workers \in [Workers -> Worker] /\ DialledStepHasAttempt

\* The inductive invariant is one of the tables and one of the workers.
LEMMA BaseParts == Base <=> StoreOK /\ WorkersOK
BY DEF Base, StoreOK, WorkersOK, TypeOK, TimerRows

\* Attempt rows and calls are never deleted.
RowsKept ==
    /\ \A r \in Runs, s \in CallSteps :
          attempts[r][s] # <<>> => attempts'[r][s] # <<>>
    /\ DOMAIN calls \subseteq DOMAIN calls'

\* A service call that ends, or takes its next run, keeps the workers well
\* typed if no row disappears.
LEMMA WorkersFrame ==
    ASSUME Base, RowsKept,
           NEW w \in Workers, NEW q \in Seq(Runs),
           workers' = [workers EXCEPT ![w] = Advancing(q)]
    PROVE  WorkersOK'
<1>1. /\ Advancing(q) \in Worker
      /\ Advancing(q).pc \in {"idle", "advance"}
      /\ Advancing(q).pc # "idle" => Advancing(q).queue # <<>>
  BY AdvancingType
<1>2. workers' \in [Workers -> Worker]
  BY <1>1 DEF Base, TypeOK
<1>3. ASSUME NEW v \in Workers, v # w,
             workers[v].pc \in {"dial", "bind", "unwind"}
      PROVE  Job(v) \in Runs /\ workers'[v] = workers[v]
  BY <1>3, JobType DEF Base, TypeOK
<1>4. DialledStepHasAttempt'
  BY <1>1, <1>2, <1>3, SMTT(30) DEF Base, TypeOK, DialledStepHasAttempt, RowsKept, Job
<1> QED
  BY <1>2, <1>4 DEF WorkersOK

\* So does a transaction that leaves the workers alone.
LEMMA WorkersSame ==
    ASSUME Base, RowsKept, workers' = workers
    PROVE  WorkersOK'
<1>1. ASSUME NEW v \in Workers, workers[v].pc \in {"dial", "bind", "unwind"}
      PROVE  Job(v) \in Runs
  BY <1>1, JobType
<1> QED
  BY <1>1 DEF Base, TypeOK, DialledStepHasAttempt, RowsKept, Job, WorkersOK

\* Call ids are the positions of the calls, within the bound.
LEMMA CallNumbers ==
    ASSUME StoreOK
    PROVE  /\ DOMAIN calls = 1 .. Len(calls)
           /\ DOMAIN calls \subseteq CallIds
<1>1. Len(calls) \in Nat /\ DOMAIN calls = 1 .. Len(calls)
  BY LenProperties DEF StoreOK
<1>2. Len(calls) <= MaxCalls
  BY DEF StoreOK
<1> QED
  BY <1>1, <1>2, WorkflowAssumption DEF CallIds

\* Attempt numbers are the positions of well-typed rows.
LEMMA RowNumbers ==
    ASSUME StoreOK, NEW r \in Runs, NEW s \in CallSteps
    PROVE  /\ attempts[r][s] \in Seq(AttemptRow)
           /\ DOMAIN attempts[r][s] = 1 .. Len(attempts[r][s])
           /\ Len(attempts[r][s]) \in Nat
           /\ \A n \in DOMAIN attempts[r][s] : attempts[r][s][n] \in AttemptRow
<1>1. attempts[r][s] \in Seq(AttemptRow)
  BY DEF StoreOK
<1> QED
  BY <1>1, LenProperties, ElementOfSeq

\* transition_run keeps a run row well typed.
LEMMA RowMoved ==
    ASSUME NEW row \in RunRow, NEW st \in RunStatuses, NEW s \in Steps,
           NEW done \in SUBSET Steps
    PROVE  [row EXCEPT !.status = st, !.step = s, !.completed = @ \cup done] \in RunRow
BY DEF RunRow

\* Marking a subscription keeps its row well typed.
LEMMA SubRowMarked ==
    ASSUME NEW row \in SubRow,
           NEW st \in {"absent", "pending", "consumed", "timed_out", "cancelled"}
    PROVE  [row EXCEPT !.status = st] \in SubRow
BY DEF SubRow

\* The last attempt of a step with attempts is one of them.
LEMMA LastIsRow ==
    ASSUME NEW rows \in Seq(AttemptRow), rows # <<>>
    PROVE  Len(rows) \in 1 .. Len(rows)
BY EmptySeq, LenProperties

\* Rewriting one attempt row keeps the table well typed and its length.
LEMMA RowReplaced ==
    ASSUME attempts \in [Runs -> [CallSteps -> Seq(AttemptRow)]],
           NEW r \in Runs, NEW s \in CallSteps, NEW row \in AttemptRow,
           NEW n \in 1 .. Len(attempts[r][s]),
           attempts' = [attempts EXCEPT ![r][s][n] = row]
    PROVE  /\ attempts' \in [Runs -> [CallSteps -> Seq(AttemptRow)]]
           /\ \A x \in Runs, y \in CallSteps : Len(attempts'[x][y]) = Len(attempts[x][y])
           /\ \A x \in Runs, y \in CallSteps : attempts[x][y] # <<>> => attempts'[x][y] # <<>>
<1> DEFINE old == attempts[r][s]
           new == [old EXCEPT ![n] = row]
<1>1. old \in Seq(AttemptRow)
  OBVIOUS
<1>2. new \in Seq(AttemptRow) /\ Len(new) = Len(old)
  BY <1>1, ExceptSeq
<1>3. new # <<>>
  BY <1>1, <1>2, EmptySeq, LenProperties
<1>4. attempts' = [attempts EXCEPT ![r][s] = new]
  OBVIOUS
<1> HIDE DEF new
<1> QED
  BY <1>2, <1>3, <1>4

\* Every step of the runtime keeps the inductive invariant.
LEMMA BaseNext == Base /\ [Next]_vars => Base'
<1> SUFFICES ASSUME Base, [Next]_vars PROVE StoreOK' /\ WorkersOK'
  BY DEF Base, StoreOK, WorkersOK, TypeOK, TimerRows
<1>0. StoreOK /\ WorkersOK
  BY BaseParts
<1> USE <1>0
<1>a. ASSUME UNCHANGED <<attempts, calls>> PROVE RowsKept
  BY <1>a DEF RowsKept
<1>1. CASE UNCHANGED vars
  BY <1>1, <1>a, WorkersSame DEF vars, StoreOK
<1>2. ASSUME NEW r \in Runs, StartRun(r) PROVE StoreOK' /\ WorkersOK'
  BY <1>2, <1>a, WorkersSame DEF StartRun, StoreOK, RunRow, RunStatuses
<1>3. ASSUME NEW w \in Workers, NEW r \in Runs, RequestAdvance(w, r)
      PROVE StoreOK' /\ WorkersOK'
  <2>1. <<r>> \in Seq(Runs)
    OBVIOUS
  <2> QED
    BY <1>3, <2>1, <1>a, WorkersFrame DEF RequestAdvance, store, StoreOK
<1>4. ASSUME NEW w \in Workers, PrepareRejected(w) PROVE StoreOK' /\ WorkersOK'
  <2>1. <<>> \in Seq(Runs) /\ Idle = Advancing(<<>>)
    BY DEF Advancing
  <2> QED
    BY <1>4, <2>1, <1>a, WorkersFrame DEF PrepareRejected, Raised, store, StoreOK
<1>5. ASSUME NEW w \in Workers, PrepareComplete(w) PROVE StoreOK' /\ WorkersOK'
  <2>1. workers[w].pc # "idle"
    BY <1>5 DEF PrepareComplete, Preparing
  <2>2. /\ Job(w) \in Runs /\ run[Job(w)].step \in Steps
        /\ Tail(workers[w].queue) \in Seq(Runs)
    BY <2>1, JobType
  <2>3. WorkersOK'
    BY <1>5, <2>2, <1>a, WorkersFrame DEF PrepareComplete, Advanced
  <2>4. StoreOK'
    BY <1>5, <2>2, ZenonT(40) DEF PrepareComplete, StoreOK, RunRow, RunStatuses
  <2> QED
    BY <2>3, <2>4
<1>6. ASSUME NEW w \in Workers, PrepareWait(w) PROVE StoreOK' /\ WorkersOK'
  <2>1. workers[w].pc # "idle"
    BY <1>6 DEF PrepareWait, Preparing
  <2>2. /\ Job(w) \in Runs /\ run[Job(w)].step \in Steps
        /\ Tail(workers[w].queue) \in Seq(Runs)
    BY <2>1, JobType
  <2>3. WorkersOK'
    BY <1>6, <2>2, <1>a, WorkersFrame DEF PrepareWait, Advanced
  <2>4. WaitKey(Job(w), run[Job(w)].step) \in TimerKeys
    BY <1>6, <2>2, KeyType DEF PrepareWait, Step, WaitSteps
  <2>5. timers' \in TimerRows
    BY <1>6, <2>4, <1>0, ArmedType DEF PrepareWait, StoreOK
  <2>6. StoreOK'
    BY <1>6, <2>2, <2>5 DEF PrepareWait, StoreOK, RunRow, RunStatuses
  <2> QED
    BY <2>3, <2>6
<1>7. ASSUME NEW w \in Workers, PrepareEventWait(w) PROVE StoreOK' /\ WorkersOK'
  <2>1. workers[w].pc # "idle"
    BY <1>7 DEF PrepareEventWait, Preparing
  <2>2. /\ Job(w) \in Runs /\ run[Job(w)].step \in Steps
        /\ Tail(workers[w].queue) \in Seq(Runs)
    BY <2>1, JobType
  <2>3. WorkersOK'
    BY <1>7, <2>2, <1>a, WorkersFrame DEF PrepareEventWait, Advanced
  <2>4. run[Job(w)].step \in EventSteps /\ TimeoutKey(Job(w), run[Job(w)].step) \in TimerKeys
    BY <1>7, <2>2, KeyType DEF PrepareEventWait, Step, EventSteps
  <2>5. timers' \in TimerRows
    BY <1>7, <2>4, <1>0, ArmedType DEF PrepareEventWait, StoreOK
  <2>6. subs' \in [Runs -> [EventSteps -> SubRow]]
    BY <1>7, <2>2, <2>4, <1>0 DEF PrepareEventWait, StoreOK, Subscribed, SubRow
  <2>7. StoreOK'
    BY <1>7, <2>2, <2>5, <2>6 DEF PrepareEventWait, StoreOK, RunRow, RunStatuses
  <2> QED
    BY <2>3, <2>7
<1>8. ASSUME NEW w \in Workers, PrepareScheduledCall(w) PROVE StoreOK' /\ WorkersOK'
  <2>1. workers[w].pc # "idle"
    BY <1>8 DEF PrepareScheduledCall, Preparing
  <2>2. /\ Job(w) \in Runs /\ run[Job(w)].step \in Steps
        /\ Tail(workers[w].queue) \in Seq(Runs)
    BY <2>1, JobType
  <2>3. WorkersOK'
    BY <1>8, <2>2, <1>a, WorkersFrame DEF PrepareScheduledCall, Advanced
  <2>4. Begun(Job(w)) \in RunStatuses \cup {"absent"}
    BY <2>2, <1>0 DEF StoreOK, RunRow, RunStatuses, Begun
  <2>5. StoreOK'
    BY <1>8, <2>2, <2>4 DEF PrepareScheduledCall, StoreOK, RunRow
  <2> QED
    BY <2>3, <2>5
<1>9. ASSUME NEW w \in Workers, PrepareAttempt(w) PROVE StoreOK' /\ WorkersOK'
  <2>1. workers[w].pc # "idle"
    BY <1>9 DEF PrepareAttempt, Preparing
  <2> DEFINE r == Job(w)  s == run[r].step
  <2>2. r \in Runs /\ s \in Steps /\ workers[w].queue # <<>>
    BY <2>1, JobType DEF Base, DialledStepHasAttempt
  <2>3. s \in CallSteps
    BY <1>9, <2>2 DEF PrepareAttempt, Step, CallSteps
  <2>4. NewAttempt \in AttemptRow
    BY DEF NewAttempt, AttemptRow
  <2>b. attempts[r][s] \in Seq(AttemptRow)
    BY <2>2, <2>3, <1>0 DEF StoreOK
  <2> HIDE DEF r, s
  <2>5. attempts' = [attempts EXCEPT ![r][s] = Append(attempts[r][s], NewAttempt)]
    BY <1>9 DEF PrepareAttempt, AttemptCreated, r, s
  <2>6. /\ Append(attempts[r][s], NewAttempt) \in Seq(AttemptRow)
        /\ Len(Append(attempts[r][s], NewAttempt)) = Len(attempts[r][s]) + 1
        /\ Append(attempts[r][s], NewAttempt) # <<>>
        /\ Len(attempts[r][s]) \in Nat
    BY <2>4, <2>b, AppendProperties, LenProperties, SMTT(30)
  <2>7. /\ attempts' \in [Runs -> [CallSteps -> Seq(AttemptRow)]]
        /\ \A x \in Runs, y \in CallSteps : Len(attempts'[x][y]) <= MaxAttemptRows
        /\ attempts'[r][s] # <<>>
        /\ \A x \in Runs, y \in CallSteps : attempts[x][y] # <<>> => attempts'[x][y] # <<>>
    BY <1>9, <2>2, <2>3, <2>5, <2>6, <1>0, WorkflowAssumption DEF StoreOK, PrepareAttempt, r, s
  <2>8. Begun(r) \in RunStatuses \cup {"absent"}
    BY <2>2, <1>0 DEF StoreOK, RunRow, RunStatuses, Begun
  <2>9. StoreOK'
    <3>1. /\ run' = [run EXCEPT ![r].status = Begun(r)]
          /\ UNCHANGED <<timers, subs, events, calls>>
      BY <1>9 DEF PrepareAttempt, r, s
    <3>2. run' \in [Runs -> RunRow]
      BY <3>1, <2>2, <2>8 DEF StoreOK, RunRow
    <3> QED
      BY <3>1, <3>2, <2>7 DEF StoreOK
  <2>10. workers' = [workers EXCEPT ![w].pc = "dial", ![w].step = s]
    BY <1>9 DEF PrepareAttempt, r, s
  <2>11. workers' \in [Workers -> Worker]
    BY <2>10, <2>3, <1>0 DEF WorkersOK, Worker
  <2>12. \A v \in Workers : workers'[v].queue = workers[v].queue
    BY <2>10, <1>0 DEF WorkersOK, Worker
  <2>13. DialledStepHasAttempt'
    <3> SUFFICES ASSUME NEW v \in Workers
                 PROVE  /\ workers'[v].pc # "idle" => workers'[v].queue # <<>>
                        /\ workers'[v].pc \in {"dial", "bind", "unwind"} =>
                              /\ workers'[v].step \in CallSteps
                              /\ attempts'[Head(workers'[v].queue)][workers'[v].step] # <<>>
                        /\ workers'[v].pc = "bind" => workers'[v].call \in DOMAIN calls'
      BY DEF DialledStepHasAttempt, Job
    <3>1. CASE v = w
      BY <3>1, <2>2, <2>3, <2>7, <2>10, <2>12, <1>0 DEF WorkersOK, Worker, Job, r
    <3>2. CASE v # w
      <4>1. workers'[v] = workers[v] /\ calls' = calls
        BY <3>2, <2>10, <1>9, <1>0 DEF WorkersOK, PrepareAttempt
      <4>2. workers[v].pc # "idle" => Job(v) \in Runs
        BY JobType
      <4> QED
        BY <4>1, <4>2, <2>7, <1>0 DEF WorkersOK, DialledStepHasAttempt, Job
    <3> QED
      BY <3>1, <3>2
  <2> QED
    BY <2>9, <2>11, <2>13 DEF WorkersOK
<1>10. ASSUME NEW w \in Workers, Dial(w) PROVE StoreOK' /\ WorkersOK'
  <2>1. /\ workers[w].pc = "dial" /\ Job(w) \in Runs /\ workers[w].step \in CallSteps
        /\ workers[w].queue # <<>>
        /\ attempts[Job(w)][workers[w].step] # <<>>
    BY <1>10, JobType DEF Dial, Base, DialledStepHasAttempt
  <2>a. calls' = Append(calls, [run |-> Job(w), step |-> workers[w].step])
    BY <1>10 DEF Dial, Placed
  <2>2. /\ calls' \in Seq([run : Runs, step : CallSteps])
        /\ Len(calls') = Len(calls) + 1
        /\ Len(calls) \in Nat
        /\ DOMAIN calls' = 1 .. Len(calls')
        /\ DOMAIN calls = 1 .. Len(calls)
    BY <2>1, <2>a, AppendProperties, LenProperties DEF StoreOK
  <2>b. Len(calls') <= MaxCalls
    BY <1>10, <2>2, WorkflowAssumption DEF Dial, Placed
  <2>3. StoreOK'
    BY <1>10, <2>2, <2>b DEF Dial, StoreOK
  <2>4. workers' = [workers EXCEPT ![w].pc = "bind", ![w].call = Len(calls) + 1]
    BY <1>10 DEF Dial
  <2>c. Len(calls) + 1 \in CallIds
    BY <2>2, <2>b, WorkflowAssumption DEF CallIds
  <2>5. workers' \in [Workers -> Worker]
    BY <2>c, <2>4 DEF WorkersOK, Worker
  <2>6. DialledStepHasAttempt'
    <3> SUFFICES ASSUME NEW v \in Workers
                 PROVE  /\ workers'[v].pc # "idle" => workers'[v].queue # <<>>
                        /\ workers'[v].pc \in {"dial", "bind", "unwind"} =>
                              /\ workers'[v].step \in CallSteps
                              /\ attempts'[Head(workers'[v].queue)][workers'[v].step] # <<>>
                        /\ workers'[v].pc = "bind" => workers'[v].call \in DOMAIN calls'
      BY DEF DialledStepHasAttempt, Job
    <3>0. attempts' = attempts
      BY <1>10 DEF Dial
    <3>1. CASE v = w
      <4>1. /\ workers'[w].pc = "bind" /\ workers'[w].call = Len(calls) + 1
            /\ workers'[w].queue = workers[w].queue /\ workers'[w].step = workers[w].step
        BY <2>4 DEF WorkersOK, Worker
      <4>2. Len(calls) + 1 \in DOMAIN calls'
        BY <2>2
      <4> QED
        BY <4>1, <4>2, <3>0, <3>1, <2>1 DEF Job
    <3>2. CASE v # w
      <4>1. workers'[v] = workers[v]
        BY <3>2, <2>4 DEF WorkersOK
      <4>2. DOMAIN calls \subseteq DOMAIN calls'
        BY <2>2
      <4> QED
        BY <4>1, <4>2, <3>0 DEF WorkersOK, DialledStepHasAttempt, Job
    <3> QED
      BY <3>1, <3>2
  <2> QED
    BY <2>3, <2>5, <2>6 DEF WorkersOK
<1>11. ASSUME NEW w \in Workers, DialFails(w) PROVE StoreOK' /\ WorkersOK'
  <2>1. workers' \in [Workers -> Worker]
    BY <1>11 DEF DialFails, WorkersOK, Worker
  <2>2. /\ calls' \in Seq([run : Runs, step : CallSteps])
        /\ Len(calls') <= MaxCalls
        /\ DOMAIN calls \subseteq DOMAIN calls'
    <3>1. CASE UNCHANGED calls
      BY <3>1 DEF StoreOK
    <3>2. CASE Placed(w)
      <4>1. Job(w) \in Runs /\ workers[w].step \in CallSteps
        BY <1>11, JobType DEF DialFails, Base, DialledStepHasAttempt
      <4>2. /\ calls' = Append(calls, [run |-> Job(w), step |-> workers[w].step])
            /\ Len(calls) < MaxCalls
        BY <3>2 DEF Placed
      <4>3. /\ calls' \in Seq([run : Runs, step : CallSteps])
            /\ Len(calls') = Len(calls) + 1
            /\ Len(calls) \in Nat
            /\ DOMAIN calls' = 1 .. Len(calls')
            /\ DOMAIN calls = 1 .. Len(calls)
        BY <4>1, <4>2, AppendProperties, LenProperties DEF StoreOK
      <4> QED
        BY <4>2, <4>3, WorkflowAssumption
    <3> QED
      BY <1>11, <3>1, <3>2 DEF DialFails
  <2>3. DialledStepHasAttempt'
    BY <1>11, <2>2 DEF DialFails, WorkersOK, Worker, DialledStepHasAttempt, Job
  <2> QED
    BY <1>11, <2>1, <2>2, <2>3 DEF DialFails, StoreOK, WorkersOK
<1>12. ASSUME NEW w \in Workers, Bind(w) PROVE StoreOK' /\ WorkersOK'
  <2>1. /\ workers[w].pc = "bind" /\ Job(w) \in Runs /\ workers[w].step \in CallSteps
        /\ Tail(workers[w].queue) \in Seq(Runs)
        /\ attempts[Job(w)][workers[w].step] # <<>>
        /\ workers[w].call \in DOMAIN calls
    BY <1>12, JobType DEF Bind, Base, DialledStepHasAttempt
  <2>a. workers[w].call \in CallIds
    BY <2>1, CallNumbers
  <2> DEFINE r == Job(w)
             s == workers[w].step
             row == [status |-> "scheduled", call |-> workers[w].call]
             last == Len(attempts[r][s])
  <2>2. row \in AttemptRow
    BY <2>a DEF AttemptRow
  <2>3. attempts[r][s] \in Seq(AttemptRow) /\ attempts[r][s] # <<>> /\ r \in Runs /\ s \in CallSteps
    BY <2>1 DEF StoreOK
  <2>4. last \in 1 .. last
    BY <2>3, LastIsRow
  <2>5. /\ attempts' = [attempts EXCEPT ![r][s][last] = row]
        /\ run' = [run EXCEPT ![r].status = "waiting", ![r].lastCall = workers[w].call]
        /\ workers' = Advanced(w)
        /\ UNCHANGED <<timers, subs, events, calls>>
    BY <1>12 DEF Bind, AttemptBound
  <2> HIDE DEF r, s, row, last
  <2>6. /\ attempts' \in [Runs -> [CallSteps -> Seq(AttemptRow)]]
        /\ \A x \in Runs, y \in CallSteps : Len(attempts'[x][y]) = Len(attempts[x][y])
        /\ \A x \in Runs, y \in CallSteps : attempts[x][y] # <<>> => attempts'[x][y] # <<>>
    BY <2>2, <2>3, <2>4, <2>5, RowReplaced DEF StoreOK, last
  <2>7. RowsKept
    BY <2>5, <2>6 DEF RowsKept
  <2>8. run' \in [Runs -> RunRow]
    BY <2>a, <2>3, <2>5, ZenonT(40) DEF StoreOK, RunRow, RunStatuses
  <2>9. WorkersOK'
    BY <2>1, <2>5, <2>7, WorkersFrame DEF Advanced
  <2>10. StoreOK'
    BY <2>5, <2>6, <2>8 DEF StoreOK
  <2> QED
    BY <2>9, <2>10
<1>13. ASSUME NEW w \in Workers, BindRejected(w) \/ Crash(w) PROVE StoreOK' /\ WorkersOK'
  <2>1. <<>> \in Seq(Runs) /\ Idle = Advancing(<<>>)
    BY DEF Advancing
  <2> QED
    BY <1>13, <2>1, <1>a, WorkersFrame DEF BindRejected, Crash, Raised, store, StoreOK
<1>14. ASSUME NEW w \in Workers, Unwind(w) PROVE StoreOK' /\ WorkersOK'
  <2>1. /\ workers[w].pc = "unwind" /\ Job(w) \in Runs /\ workers[w].step \in CallSteps
        /\ attempts[Job(w)][workers[w].step] # <<>>
    BY <1>14, JobType DEF Unwind, Base, DialledStepHasAttempt
  <2> DEFINE r == Job(w)
             s == workers[w].step
             last == Len(attempts[r][s])
             row == [attempts[r][s][last] EXCEPT !.status = "failed"]
  <2>3. attempts[r][s] \in Seq(AttemptRow) /\ attempts[r][s] # <<>> /\ r \in Runs /\ s \in CallSteps
    BY <2>1 DEF StoreOK
  <2>4. last \in 1 .. last
    BY <2>3, LastIsRow
  <2>a. attempts[r][s][last] \in AttemptRow
    BY <2>3, <2>4, ElementOfSeq
  <2>b. row \in AttemptRow
    BY <2>a DEF AttemptRow
  <2>5. workers' = Raised(w) /\ UNCHANGED <<timers, subs, events, calls>>
    BY <1>14 DEF Unwind
  <2>c. attempts' = [attempts EXCEPT ![r][s][last] = row] \/ attempts' = attempts
    BY <1>14 DEF Unwind
  <2>d. run' = [run EXCEPT ![r].status = "failed"] \/ run' = run
    BY <1>14 DEF Unwind
  <2> HIDE DEF r, s, row, last
  <2>6. /\ attempts' \in [Runs -> [CallSteps -> Seq(AttemptRow)]]
        /\ \A x \in Runs, y \in CallSteps : Len(attempts'[x][y]) = Len(attempts[x][y])
        /\ \A x \in Runs, y \in CallSteps : attempts[x][y] # <<>> => attempts'[x][y] # <<>>
    <3>1. CASE attempts' = attempts
      BY <3>1 DEF StoreOK
    <3>2. CASE attempts' = [attempts EXCEPT ![r][s][last] = row]
      BY <3>2, <2>b, <2>3, <2>4, RowReplaced DEF StoreOK, last
    <3> QED
      BY <3>1, <3>2, <2>c
  <2>7. RowsKept
    BY <2>5, <2>6 DEF RowsKept
  <2>8. run' \in [Runs -> RunRow]
    <3>1. CASE run' = run
      BY <3>1 DEF StoreOK
    <3>2. CASE run' = [run EXCEPT ![r].status = "failed"]
      BY <3>2, <2>3 DEF StoreOK, RunRow, RunStatuses
    <3> QED
      BY <3>1, <3>2, <2>d
  <2>9. <<>> \in Seq(Runs) /\ Idle = Advancing(<<>>)
    BY DEF Advancing
  <2>10. WorkersOK'
    BY <2>5, <2>7, <2>9, WorkersFrame DEF Raised
  <2>11. StoreOK'
    BY <2>5, <2>6, <2>8 DEF StoreOK
  <2> QED
    BY <2>10, <2>11
<1>15. ASSUME NEW r \in Runs, CompleteCallActivity(r) PROVE StoreOK' /\ WorkersOK'
  <2>0. PICK c \in DOMAIN calls, n \in 1 .. MaxAttemptRows, report \in Reports :
          \/ CompleteCallback(r, c, n, report)
          \/ CompleteRetry(r, c, n, report)
          \/ CompleteFailed(r, c, n, report)
          \/ CompleteMoved(r, c, n, report)
    BY <1>15 DEF CompleteCallActivity
  <2> DEFINE s == run[r].step
             row == [attempts[r][s][n] EXCEPT !.status = "completed"]
  <2>1. /\ Completing(r, c, n)
        /\ attempts' = AttemptCompleted(r, n)
        /\ UNCHANGED <<subs, events, calls, workers>>
    BY <2>0 DEF CompleteCallback, CompleteRetry, CompleteFailed, CompleteMoved
  <2>2. s \in CallSteps /\ c \in CallIds
    BY <2>1, CallNumbers DEF StoreOK, Completing, RunRow, Step, CallSteps
  <2>3. /\ attempts[r][s] \in Seq(AttemptRow)
        /\ n \in 1 .. Len(attempts[r][s])
    <3>1. n \in DOMAIN attempts[r][s]
      BY <2>1 DEF Completing, IsScheduledAttempt
    <3> QED
      BY <3>1, <2>2, RowNumbers
  <2>4. attempts[r][s][n] \in AttemptRow
    BY <2>2, <2>3, RowNumbers
  <2>5. row \in AttemptRow
    BY <2>4 DEF AttemptRow
  <2>6. attempts' = [attempts EXCEPT ![r][s][n] = row]
    BY <2>1 DEF AttemptCompleted
  <2>7. timers' \in TimerRows
    <3>1. CASE CompleteCallback(r, c, n, report)
      BY <3>1, <2>2, KeyType, ArmedType DEF CompleteCallback, StoreOK
    <3>2. CASE CompleteRetry(r, c, n, report)
      BY <3>2, <2>2, KeyType, ArmedType DEF CompleteRetry, StoreOK
    <3> QED
      BY <3>1, <3>2, <2>0 DEF CompleteFailed, CompleteMoved, StoreOK
  <2>8. run' \in [Runs -> RunRow]
    <3>1. CASE CompleteCallback(r, c, n, report) \/ CompleteRetry(r, c, n, report)
      <4>1. run' = [run EXCEPT ![r].status = "waiting", ![r].lastCall = c]
        BY <3>1 DEF CompleteCallback, CompleteRetry, Rescheduled
      <4> QED
        BY <4>1, <2>2, ZenonT(40) DEF StoreOK, RunRow, RunStatuses
    <3>2. CASE CompleteFailed(r, c, n, report)
      BY <3>2, <2>2, ZenonT(40) DEF CompleteFailed, StoreOK, RunRow, RunStatuses
    <3>3. CASE CompleteMoved(r, c, n, report)
      <4> DEFINE next == NextStepForCallStatus(s, report)
      <4>1. next \in Steps
        BY <3>3, <2>2, BranchType DEF CompleteMoved, HasBranch
      <4> HIDE DEF next
      <4>2. PICK st \in {"completed", "running"}, more \in SUBSET {next} :
              run' = [run EXCEPT ![r] = [status |-> st, step |-> next,
                        completed |-> run[r].completed \cup {s} \cup more, lastCall |-> c]]
        BY <3>3 DEF CompleteMoved, Moved, next
      <4>3. s \in Steps /\ run[r].completed \subseteq Steps
        BY DEF StoreOK, RunRow
      <4>4. [status |-> st, step |-> next,
               completed |-> run[r].completed \cup {s} \cup more, lastCall |-> c] \in RunRow
        BY <4>1, <4>3, <2>2 DEF RunRow, RunStatuses
      <4> QED
        BY <4>2, <4>4 DEF StoreOK
    <3> QED
      BY <3>1, <3>2, <3>3, <2>0
  <2> HIDE DEF s, row
  <2>9. /\ attempts' \in [Runs -> [CallSteps -> Seq(AttemptRow)]]
        /\ \A x \in Runs, y \in CallSteps : Len(attempts'[x][y]) = Len(attempts[x][y])
        /\ \A x \in Runs, y \in CallSteps : attempts[x][y] # <<>> => attempts'[x][y] # <<>>
    BY <2>2, <2>3, <2>5, <2>6, RowReplaced DEF StoreOK
  <2>10. RowsKept
    BY <2>1, <2>9 DEF RowsKept
  <2>11. WorkersOK'
    BY <2>1, <2>10, WorkersSame
  <2> QED
    BY <2>1, <2>7, <2>8, <2>9, <2>11 DEF StoreOK
<1>16. ASSUME NEW w \in Workers, FireDueTimers(w) PROVE StoreOK' /\ WorkersOK'
  <2>0. PICK batch \in SUBSET DueTimers, n \in 0 .. BatchLimit :
          \E order \in Bijection(1 .. n, Wakes(batch)) :
            workers' = [workers EXCEPT ![w] = Advancing([i \in 1 .. n |-> order[i].run])]
    BY <1>16 DEF FireDueTimers
  <2>1. PICK order \in Bijection(1 .. n, Wakes(batch)) :
          workers' = [workers EXCEPT ![w] = Advancing([i \in 1 .. n |-> order[i].run])]
    BY <2>0
  <2>2. Wakes(batch) \subseteq TimerKeys
    BY DEF Wakes, DueTimers
  <2>3. [i \in 1 .. n |-> order[i].run] \in Seq(Runs)
    <3>1. \A i \in 1 .. n : order[i] \in TimerKeys
      BY <2>1, <2>2 DEF Bijection, Injection, IsInjective, Surjection
    <3>2. n \in Nat /\ \A i \in 1 .. n : order[i].run \in Runs
      BY <3>1, WakeType, WorkflowAssumption
    <3> QED
      BY <3>2, SeqDef
  <2>4. WorkersOK'
    BY <1>16, <1>a, <2>1, <2>3, WorkersFrame DEF FireDueTimers
  <2>5. timers' \in TimerRows
    BY <1>16 DEF FireDueTimers, StoreOK, TimerRows
  <2>6. subs' \in [Runs -> [EventSteps -> SubRow]]
    <3>1. PICK b \in SUBSET DueTimers : subs' = TimedOut(Wakes(b))
      BY <1>16 DEF FireDueTimers
    <3>2. ASSUME NEW r \in Runs, NEW s \in EventSteps
          PROVE  [subs[r][s] EXCEPT !.status = "timed_out"] \in SubRow
      <4>1. subs[r][s] \in SubRow
        BY DEF StoreOK
      <4> QED
        BY <4>1, SubRowMarked
    <3> QED
      BY <3>1, <3>2 DEF TimedOut, StoreOK
  <2>7. run' \in [Runs -> RunRow]
    <3>1. PICK b \in SUBSET DueTimers :
            \E final \in [{k.run : k \in Wakes(b)} -> Wakes(b)] :
              run' = [r \in Runs |->
                 IF r \in {k.run : k \in Wakes(b)}
                 THEN [run[r] EXCEPT
                         !.status = "running",
                         !.step = WakeStep(final[r]),
                         !.completed = @ \cup
                             {k.step : k \in {x \in Wakes(b) : x.run = r}}]
                 ELSE run[r]]
      BY <1>16 DEF FireDueTimers
    <3>2. PICK final \in [{k.run : k \in Wakes(b)} -> Wakes(b)] :
              run' = [r \in Runs |->
                 IF r \in {k.run : k \in Wakes(b)}
                 THEN [run[r] EXCEPT
                         !.status = "running",
                         !.step = WakeStep(final[r]),
                         !.completed = @ \cup
                             {k.step : k \in {x \in Wakes(b) : x.run = r}}]
                 ELSE run[r]]
      BY <3>1
    <3>3. \A k \in Wakes(b) : WakeStep(k) \in Steps /\ k.step \in Steps
      BY WakeType DEF Wakes, DueTimers
    <3>4. ASSUME NEW r \in Runs PROVE run'[r] \in RunRow
      <4> DEFINE done == {k.step : k \in {x \in Wakes(b) : x.run = r}}
                 target == WakeStep(final[r])
      <4>1. CASE r \in {k.run : k \in Wakes(b)}
        <5>1. target \in Steps
          BY <4>1, <3>3
        <5>2. done \in SUBSET Steps
          BY <3>3
        <5>3. run'[r] = [run[r] EXCEPT
                             !.status = "running", !.step = target,
                             !.completed = @ \cup done]
          BY <4>1, <3>2
        <5>4. run[r] \in RunRow /\ "running" \in RunStatuses
          BY DEF StoreOK, RunStatuses
        <5> HIDE DEF done, target
        <5>5. [run[r] EXCEPT !.status = "running", !.step = target,
                             !.completed = @ \cup done] \in RunRow
          BY <5>1, <5>2, <5>4, RowMoved
        <5> QED
          BY <5>3, <5>5
      <4>2. CASE r \notin {k.run : k \in Wakes(b)}
        BY <4>2, <3>2 DEF StoreOK
      <4> QED
        BY <4>1, <4>2
    <3> QED
      BY <3>2, <3>4
  <2> QED
    BY <1>16, <2>4, <2>5, <2>6, <2>7 DEF FireDueTimers, StoreOK
<1>17. ASSUME NEW r \in Runs, CancelRun(r) PROVE StoreOK' /\ WorkersOK'
  <2>1. timers' \in TimerRows
    BY <1>17, CancelledType DEF CancelRun, StoreOK
  <2>2. subs' \in [Runs -> [EventSteps -> SubRow]]
    <3>1. ASSUME NEW s \in EventSteps
          PROVE  /\ subs[r][s] \in SubRow
                 /\ [subs[r][s] EXCEPT !.status = "cancelled"] \in SubRow
      <4>1. subs[r][s] \in SubRow
        BY DEF StoreOK
      <4> QED
        BY <4>1, SubRowMarked
    <3>2. subs' = [subs EXCEPT ![r] =
                     [s \in EventSteps |->
                        IF subs[r][s].status = "pending"
                        THEN [subs[r][s] EXCEPT !.status = "cancelled"]
                        ELSE subs[r][s]]]
      BY <1>17 DEF CancelRun, SubsCancelled
    <3>3. subs \in [Runs -> [EventSteps -> SubRow]]
      BY DEF StoreOK
    <3> QED
      BY <3>1, <3>2, <3>3
  <2>3. run' \in [Runs -> RunRow]
    BY <1>17 DEF CancelRun, StoreOK, RunRow, RunStatuses
  <2> QED
    BY <1>17, <1>a, <2>1, <2>2, <2>3, WorkersSame DEF CancelRun, StoreOK
<1>18. ASSUME NEW r \in Runs, PauseRun(r) PROVE StoreOK' /\ WorkersOK'
  BY <1>18, <1>a, WorkersSame DEF PauseRun, StoreOK, RunRow, RunStatuses
<1>19. ASSUME NEW w \in Workers, NEW r \in Runs, ResumeRun(w, r)
       PROVE StoreOK' /\ WorkersOK'
  <2>1. <<r>> \in Seq(Runs)
    OBVIOUS
  <2>2. WorkersOK'
    BY <1>19, <2>1, <1>a, WorkersFrame DEF ResumeRun
  <2> QED
    BY <1>19, <2>2 DEF ResumeRun, StoreOK, RunRow, RunStatuses
<1>20. ASSUME NEW w \in Workers, NEW e \in Events, IngestMatched(w, e)
       PROVE StoreOK' /\ WorkersOK'
  <2>1. PICK k \in Waiting(e) :
          /\ events' = [events EXCEPT ![e] = [status |-> "matched", sub |-> k]]
          /\ subs' = [subs EXCEPT ![k[1]][k[2]] = [status |-> "consumed", event |-> e]]
          /\ timers' = TimersCancelled(k[1])
          /\ run' = [run EXCEPT ![k[1]].status = "running",
                                ![k[1]].step = Definition[k[2]].next,
                                ![k[1]].completed = @ \cup {k[2]}]
          /\ workers' = [workers EXCEPT ![w] = Advancing(<<k[1]>>)]
    BY <1>20 DEF IngestMatched
  <2>2. /\ k \in SubKeys /\ k[1] \in Runs /\ k[2] \in EventSteps
        /\ k[2] \in Steps /\ Definition[k[2]].next \in Steps
    BY DefinitionAssumption, DefinitionType DEF Waiting, SubKeys
  <2>3. <<k[1]>> \in Seq(Runs)
    BY <2>2
  <2>4. WorkersOK'
    BY <1>20, <2>1, <2>3, <1>a, WorkersFrame DEF IngestMatched
  <2>5. timers' \in TimerRows
    BY <2>1, CancelledType DEF StoreOK
  <2>6. subs' \in [Runs -> [EventSteps -> SubRow]]
    BY <2>1, <2>2 DEF StoreOK, SubRow
  <2>7. events' \in [Events -> EventRow]
    BY <2>1, <2>2 DEF StoreOK, EventRow
  <2>8. run' \in [Runs -> RunRow]
    <3>1. run[k[1]] \in RunRow /\ "running" \in RunStatuses
      BY <2>2 DEF StoreOK, RunStatuses
    <3>2. [run[k[1]] EXCEPT !.status = "running", !.step = Definition[k[2]].next,
                            !.completed = @ \cup {k[2]}] \in RunRow
      BY <2>2, <3>1, RowMoved
    <3> QED
      BY <2>1, <2>2, <3>2 DEF StoreOK
  <2> QED
    BY <1>20, <2>4, <2>5, <2>6, <2>7, <2>8 DEF IngestMatched, StoreOK
<1>21. ASSUME NEW w \in Workers, NEW e \in Events, IngestUnmatched(w, e)
       PROVE StoreOK' /\ WorkersOK'
  <2>1. events' \in [Events -> EventRow]
    BY <1>21 DEF IngestUnmatched, StoreOK, EventRow
  <2> QED
    BY <1>21, <2>1, <1>a, WorkersSame DEF IngestUnmatched, StoreOK
<1> QED
  BY <1>1, <1>2, <1>3, <1>4, <1>5, <1>6, <1>7, <1>8, <1>9, <1>10, <1>11, <1>12,
     <1>13, <1>14, <1>15, <1>16, <1>17, <1>18, <1>19, <1>20, <1>21
  DEF Next, AdvanceStep, Prepare

\* Rows and locals stay well typed: no transaction writes a status, step, call
\* or key the schema does not know, whatever calls interleave.
THEOREM TypeCorrect == Spec => []TypeOK
<1>1. Spec => []Base
  BY BaseInit, BaseNext, PTL DEF Spec
<1>2. Base => TypeOK
  BY DEF Base
<1> QED
  BY <1>1, <1>2, PTL

\* Whoever dials, binds or unwinds works on a call step with an attempt row: the
\* missing-attempt branches of advance_run and _mark_call_activity_failed are dead.
THEOREM DialledStepKnown == Spec => []DialledStepHasAttempt
<1>1. Spec => []Base
  BY BaseInit, BaseNext, PTL DEF Spec
<1>2. Base => DialledStepHasAttempt
  BY DEF Base
<1> QED
  BY <1>1, <1>2, PTL

-----------------------------------------------------------------------------
(* Which actions touch which tables *)

\* Attempt rows are touched by the call activity's own transactions only.
LEMMA AttemptsFrame ==
    ASSUME [Next]_vars
    PROVE  \/ attempts' = attempts
           \/ \E w \in Workers : PrepareAttempt(w) \/ Bind(w) \/ Unwind(w)
           \/ \E r \in Runs : CompleteCallActivity(r)
BY ZenonT(40) DEF Next, vars, store, StartRun, CancelRun, PauseRun, AdvanceStep, Prepare,
       PrepareRejected, PrepareComplete, PrepareWait, PrepareEventWait,
       PrepareScheduledCall, Dial, DialFails, BindRejected, FireDueTimers,
       Crash, RequestAdvance, ResumeRun, IngestMatched, IngestUnmatched

\* A completion keeps subscriptions, events and calls.
LEMMA CompletionFrame ==
    ASSUME NEW r \in Runs, CompleteCallActivity(r)
    PROVE  UNCHANGED <<subs, events, calls, workers>>
BY DEF CompleteCallActivity, CompleteCallback, CompleteRetry, CompleteFailed, CompleteMoved

\* Subscriptions and events are touched by event waits, fired timers,
\* cancellations and ingestion only.
LEMMA WaitsFrame ==
    ASSUME [Next]_vars
    PROVE  \/ UNCHANGED <<subs, events>>
           \/ \E w \in Workers : PrepareEventWait(w) \/ FireDueTimers(w)
           \/ \E r \in Runs : CancelRun(r)
           \/ \E w \in Workers, e \in Events : IngestMatched(w, e) \/ IngestUnmatched(w, e)
BY CompletionFrame
   DEF Next, vars, store, StartRun, PauseRun, AdvanceStep, Prepare,
       PrepareRejected, PrepareComplete, PrepareWait, PrepareAttempt,
       PrepareScheduledCall, Dial, DialFails, Bind, BindRejected, Unwind,
       Crash, RequestAdvance, ResumeRun

-----------------------------------------------------------------------------
(* One scheduled attempt, and it is the last *)

\* No attempt exists initially.
LEMMA ScheduledInit == Init => ScheduledAttemptIsLast
BY DEF Init, ScheduledAttemptIsLast

\* Rewriting one row of a step keeps the property if the row is the last one
\* or is not scheduled afterwards.
LEMMA ScheduledKept ==
    ASSUME Base, ScheduledAttemptIsLast,
           NEW r \in Runs, NEW s \in CallSteps, NEW n \in DOMAIN attempts[r][s],
           NEW row,
           attempts' = [attempts EXCEPT ![r][s][n] = row],
           n = Len(attempts[r][s]) \/ row.status # "scheduled"
    PROVE  ScheduledAttemptIsLast'
<1> DEFINE old == attempts[r][s]
           new == [old EXCEPT ![n] = row]
<1>1. /\ old \in Seq(AttemptRow) /\ DOMAIN old = 1 .. Len(old) /\ Len(old) \in Nat
      /\ attempts \in [Runs -> [CallSteps -> Seq(AttemptRow)]]
  BY BaseParts, RowNumbers DEF StoreOK
<1>2. attempts' = [attempts EXCEPT ![r][s] = new]
  OBVIOUS
<1>3. DOMAIN new = DOMAIN old /\ Len(new) = Len(old)
  BY <1>1
<1>4. \A m \in DOMAIN new : new[m].status = "scheduled" => m = Len(new)
  BY <1>1, <1>3 DEF ScheduledAttemptIsLast
<1> HIDE DEF new
<1>5. /\ attempts'[r][s] = new
      /\ \A x \in Runs, y \in CallSteps :
            (x # r \/ y # s) => attempts'[x][y] = attempts[x][y]
  BY <1>1, <1>2
<1> QED
  BY <1>4, <1>5 DEF ScheduledAttemptIsLast

\* Only the four kinds of attempt transactions could break the property.
LEMMA ScheduledNext ==
    ASSUME Base, ScheduledAttemptIsLast, [Next]_vars
    PROVE  ScheduledAttemptIsLast'
<1>0. StoreOK
  BY BaseParts
<1>1. CASE attempts' = attempts
  BY <1>1 DEF ScheduledAttemptIsLast
<1>2. ASSUME NEW w \in Workers, PrepareAttempt(w) PROVE ScheduledAttemptIsLast'
  <2> DEFINE r == Job(w)
             s == run[r].step
  <2>1. r \in Runs /\ s \in CallSteps
    BY <1>2, JobType DEF PrepareAttempt, Preparing, Step, CallSteps
  <2>2. /\ attempts[r][s] \in Seq(AttemptRow)
        /\ DOMAIN attempts[r][s] = 1 .. Len(attempts[r][s])
        /\ Len(attempts[r][s]) \in Nat
        /\ attempts \in [Runs -> [CallSteps -> Seq(AttemptRow)]]
    BY <1>0, <2>1, RowNumbers DEF StoreOK
  <2>3. \A n \in DOMAIN attempts[r][s] : attempts[r][s][n].status # "scheduled"
    BY <1>2, <2>1, <2>2 DEF PrepareAttempt, IsScheduledAttempt, ScheduledAttemptIsLast
  <2> DEFINE new == Append(attempts[r][s], NewAttempt)
  <2>4. attempts' = [attempts EXCEPT ![r][s] = new]
    BY <1>2 DEF PrepareAttempt, AttemptCreated
  <2>5. \A m \in DOMAIN new : new[m].status # "scheduled"
    <3>1. NewAttempt \in AttemptRow /\ NewAttempt.status = "pending"
      BY DEF NewAttempt, AttemptRow
    <3>2. /\ Len(new) = Len(attempts[r][s]) + 1
          /\ DOMAIN new = 1 .. Len(new)
          /\ \A m \in 1 .. Len(attempts[r][s]) : new[m] = attempts[r][s][m]
          /\ new[Len(attempts[r][s]) + 1] = NewAttempt
      BY <2>2, <3>1, AppendProperties, LenProperties
    <3> HIDE DEF new, r, s
    <3> QED
      BY <2>2, <2>3, <3>1, <3>2
  <2> HIDE DEF new, r, s
  <2>6. /\ attempts'[r][s] = new
        /\ \A x \in Runs, y \in CallSteps :
              (x # r \/ y # s) => attempts'[x][y] = attempts[x][y]
    BY <2>1, <2>2, <2>4
  <2> QED
    BY <2>5, <2>6 DEF ScheduledAttemptIsLast
<1>3. ASSUME NEW w \in Workers, Bind(w) \/ Unwind(w) PROVE ScheduledAttemptIsLast'
  <2> DEFINE r == Job(w)
             s == workers[w].step
             last == Len(attempts[r][s])
  <2>1. /\ r \in Runs /\ s \in CallSteps
        /\ attempts[r][s] # <<>>
    BY <1>3, JobType DEF Bind, Unwind, Base, DialledStepHasAttempt
  <2>2. last \in DOMAIN attempts[r][s]
    BY <1>0, <2>1, RowNumbers, LastIsRow, SMTT(30)
  <2>3. \/ attempts' = attempts
        \/ \E row : attempts' = [attempts EXCEPT ![r][s][last] = row]
    BY <1>3 DEF Bind, AttemptBound, Unwind
  <2>4. ASSUME NEW row, attempts' = [attempts EXCEPT ![r][s][last] = row]
        PROVE  ScheduledAttemptIsLast'
    <3> HIDE DEF r, s
    <3> QED
      BY <2>1, <2>2, <2>4, ScheduledKept
  <2> QED
    BY <1>1, <2>3, <2>4
<1>4. ASSUME NEW r \in Runs, CompleteCallActivity(r) PROVE ScheduledAttemptIsLast'
  <2> DEFINE s == run[r].step
  <2>1. PICK n \in 1 .. MaxAttemptRows, c \in DOMAIN calls :
          Completing(r, c, n) /\ attempts' = AttemptCompleted(r, n)
    BY <1>4 DEF CompleteCallActivity, CompleteCallback, CompleteRetry,
                CompleteFailed, CompleteMoved
  <2>2. s \in CallSteps /\ n \in DOMAIN attempts[r][s]
    BY <1>0, <2>1 DEF StoreOK, RunRow, Completing, IsScheduledAttempt, Step, CallSteps
  <2>3. attempts[r][s][n] \in AttemptRow
    BY <1>0, <2>2, RowNumbers
  <2> DEFINE row == [attempts[r][s][n] EXCEPT !.status = "completed"]
  <2>4. row.status # "scheduled"
    BY <2>3 DEF AttemptRow
  <2>5. attempts' = [attempts EXCEPT ![r][s][n] = row]
    BY <2>1 DEF AttemptCompleted
  <2> HIDE DEF row, s
  <2> QED
    BY <2>2, <2>4, <2>5, ScheduledKept
<1> QED
  BY <1>1, <1>2, <1>3, <1>4, AttemptsFrame

\* Whatever calls of advance_run interleave, a step has at most one scheduled
\* attempt and it is the last: _prepare_current_step opens a new row only when
\* none is scheduled, and the second transaction binds the last row.
THEOREM ScheduledAttemptIsAlwaysLast == Spec => []ScheduledAttemptIsLast
<1>1. Spec => []Base
  BY BaseInit, BaseNext, PTL DEF Spec
<1> QED
  BY <1>1, ScheduledInit, ScheduledNext, PTL DEF Spec

-----------------------------------------------------------------------------
(* Events and the waits they resume *)

\* No event is known initially.
LEMMA MatchInit == Init => EventMatchesOneWait
BY DEF Init, EventMatchesOneWait

\* Opening and closing waits without an event keeps the matching.
LEMMA MatchKept ==
    ASSUME EventMatchesOneWait, events' = events,
           \A r \in Runs, s \in EventSteps :
              \/ subs'[r][s] = subs[r][s]
              \/ subs[r][s].status # "consumed" /\ subs'[r][s].status # "consumed"
    PROVE  EventMatchesOneWait'
<1>1. ASSUME NEW e \in Events, events'[e].status = "matched"
      PROVE  /\ events'[e].sub \in SubKeys
             /\ subs'[events'[e].sub[1]][events'[e].sub[2]] =
                   [status |-> "consumed", event |-> e]
  <2>1. /\ events[e].sub \in SubKeys
        /\ subs[events[e].sub[1]][events[e].sub[2]] = [status |-> "consumed", event |-> e]
    BY <1>1 DEF EventMatchesOneWait
  <2>2. events[e].sub[1] \in Runs /\ events[e].sub[2] \in EventSteps
    BY <2>1 DEF SubKeys
  <2> QED
    BY <2>1, <2>2
<1>2. ASSUME NEW r \in Runs, NEW s \in EventSteps, subs'[r][s].status = "consumed"
      PROVE  /\ subs'[r][s].event \in Events
             /\ events'[subs'[r][s].event] = [status |-> "matched", sub |-> <<r, s>>]
  <2>1. subs'[r][s] = subs[r][s]
    BY <1>2
  <2> QED
    BY <1>2, <2>1 DEF EventMatchesOneWait
<1> QED
  BY <1>1, <1>2 DEF EventMatchesOneWait

\* What an event wait, a batch of timers and a cancellation do to the
\* subscriptions: they open absent ones and close pending ones.
LEMMA SubscribedFrame ==
    ASSUME Base, NEW w \in Workers, PrepareEventWait(w)
    PROVE  /\ events' = events
           /\ run[Job(w)].step \in EventSteps
           /\ \A r \in Runs, s \in EventSteps :
                 \/ subs'[r][s] = subs[r][s]
                 \/ /\ r = Job(w) /\ s = run[r].step
                    /\ subs[r][s].status = "absent" /\ subs'[r][s].status = "pending"
<1>1. Job(w) \in Runs /\ run[Job(w)].step \in EventSteps
  BY JobType DEF PrepareEventWait, Preparing, Step, EventSteps
<1>2. subs \in [Runs -> [EventSteps -> SubRow]]
  BY BaseParts DEF StoreOK
<1> QED
  BY <1>1, <1>2 DEF PrepareEventWait, Subscribed

\* A batch of timers closes pending subscriptions of runs that are neither
\* ended nor paused, and fires their timeouts.
LEMMA TimedOutFrame ==
    ASSUME Base, NEW w \in Workers, FireDueTimers(w)
    PROVE  /\ events' = events
           /\ \A r \in Runs, s \in EventSteps :
                 \/ subs'[r][s] = subs[r][s]
                 \/ /\ subs[r][s].status = "pending" /\ subs'[r][s].status = "timed_out"
                    /\ ~ Terminated(r) /\ run[r].status # "paused"
                    /\ timers[TimeoutKey(r, s)] = "pending"
                    /\ timers'[TimeoutKey(r, s)] = "fired"
<1>1. PICK batch \in SUBSET DueTimers :
         /\ subs' = TimedOut(Wakes(batch))
         /\ timers' = [k \in TimerKeys |-> IF k \in batch THEN "fired" ELSE timers[k]]
  BY DEF FireDueTimers
<1>2. subs \in [Runs -> [EventSteps -> SubRow]]
  BY BaseParts DEF StoreOK
<1>3. ASSUME NEW r \in Runs, NEW s \in EventSteps, subs'[r][s] # subs[r][s]
      PROVE  /\ subs[r][s].status = "pending" /\ subs'[r][s].status = "timed_out"
             /\ ~ Terminated(r) /\ run[r].status # "paused"
             /\ timers[TimeoutKey(r, s)] = "pending"
             /\ timers'[TimeoutKey(r, s)] = "fired"
  <2>1. /\ TimeoutKey(r, s) \in Wakes(batch)
        /\ subs[r][s].status = "pending"
        /\ subs'[r][s] = [subs[r][s] EXCEPT !.status = "timed_out"]
    BY <1>1, <1>3 DEF TimedOut
  <2>2. subs[r][s] \in SubRow
    BY <1>2
  <2>3. subs'[r][s].status = "timed_out"
    BY <2>1, <2>2 DEF SubRow
  <2>4. /\ TimeoutKey(r, s) \in batch /\ TimeoutKey(r, s) \in TimerKeys
        /\ TimeoutKey(r, s).run = r
    BY <2>1, KeyType DEF Wakes, TimeoutKey
  <2>5. ~ Terminated(r)
    BY <2>1, <2>4 DEF Wakes
  <2>6. timers[TimeoutKey(r, s)] = "pending" /\ run[r].status # "paused"
    BY <2>4 DEF DueTimers
  <2> QED
    BY <1>1, <2>1, <2>3, <2>4, <2>5, <2>6
<1> QED
  BY <1>3 DEF FireDueTimers

\* A cancellation closes exactly the pending subscriptions of its run.
LEMMA CancelledFrame ==
    ASSUME Base, NEW q \in Runs, CancelRun(q)
    PROVE  /\ events' = events
           /\ \A r \in Runs, s \in EventSteps :
                 \/ subs'[r][s] = subs[r][s] /\ (r = q => subs[r][s].status # "pending")
                 \/ /\ r = q
                    /\ subs[r][s].status = "pending" /\ subs'[r][s].status = "cancelled"
<1>1. subs \in [Runs -> [EventSteps -> SubRow]]
  BY BaseParts DEF StoreOK
<1>2. /\ \A r \in Runs : r # q => subs'[r] = subs[r]
      /\ subs'[q] = [s \in EventSteps |->
            IF subs[q][s].status = "pending" THEN [subs[q][s] EXCEPT !.status = "cancelled"]
            ELSE subs[q][s]]
  BY <1>1 DEF CancelRun, SubsCancelled
<1>3. ASSUME NEW s \in EventSteps
      PROVE [subs[q][s] EXCEPT !.status = "cancelled"].status = "cancelled"
  <2>1. subs[q][s] \in SubRow
    BY <1>1
  <2> QED
    BY <2>1 DEF SubRow
<1>4. ASSUME NEW s \in EventSteps
      PROVE  \/ subs'[q][s] = subs[q][s] /\ subs[q][s].status # "pending"
             \/ subs[q][s].status = "pending" /\ subs'[q][s].status = "cancelled"
  <2>1. CASE subs[q][s].status = "pending"
    <3>1. subs'[q][s] = [subs[q][s] EXCEPT !.status = "cancelled"]
      BY <1>2, <2>1
    <3>2. subs'[q][s].status = "cancelled"
      BY <3>1, <1>3
    <3> QED
      BY <2>1, <3>2
  <2>2. CASE subs[q][s].status # "pending"
    BY <1>2, <2>2
  <2> QED
    BY <2>1, <2>2
<1> QED
  BY <1>2, <1>4 DEF CancelRun

\* What a matched event e does to the tables: it resumes run q at step s.
Matched(e, q, s) ==
    /\ ~ Terminated(q) /\ run[q].status # "paused"
    /\ events[e].status = "absent"
    /\ events' = [events EXCEPT ![e] = [status |-> "matched", sub |-> <<q, s>>]]
    /\ subs[q][s].status = "pending"
    /\ subs'[q][s] = [status |-> "consumed", event |-> e]
    /\ \A r \in Runs, x \in EventSteps :
          (r # q \/ x # s) => subs'[r][x] = subs[r][x]
    /\ timers' = TimersCancelled(q)
    /\ run'[q].status = "running"
    /\ \A r \in Runs : r # q => run'[r] = run[r]

\* IngestMatched resumes one run at one step.
LEMMA MatchedFrame ==
    ASSUME Base, NEW w \in Workers, NEW e \in Events, IngestMatched(w, e)
    PROVE  \E q \in Runs, s \in EventSteps : Matched(e, q, s)
<1>1. PICK k \in Waiting(e) :
          /\ ~ Terminated(k[1])
          /\ events' = [events EXCEPT ![e] = [status |-> "matched", sub |-> k]]
          /\ subs' = [subs EXCEPT ![k[1]][k[2]] = [status |-> "consumed", event |-> e]]
          /\ timers' = TimersCancelled(k[1])
          /\ run' = [run EXCEPT ![k[1]].status = "running",
                                ![k[1]].step = Definition[k[2]].next,
                                ![k[1]].completed = @ \cup {k[2]}]
  BY DEF IngestMatched
<1>2. /\ k[1] \in Runs /\ k[2] \in EventSteps /\ k = <<k[1], k[2]>>
      /\ subs[k[1]][k[2]].status = "pending" /\ run[k[1]].status # "paused"
  BY DEF Waiting, SubKeys
<1>3. /\ subs \in [Runs -> [EventSteps -> SubRow]]
      /\ run \in [Runs -> RunRow]
  BY BaseParts DEF StoreOK
<1>4. run'[k[1]].status = "running" /\ \A r \in Runs : r # k[1] => run'[r] = run[r]
  BY <1>1, <1>2, <1>3 DEF RunRow
<1>5. /\ subs'[k[1]][k[2]] = [status |-> "consumed", event |-> e]
      /\ \A r \in Runs, x \in EventSteps :
            (r # k[1] \/ x # k[2]) => subs'[r][x] = subs[r][x]
  BY <1>1, <1>2, <1>3
<1>6. events[e].status = "absent"
  BY DEF IngestMatched
<1>7. Matched(e, k[1], k[2])
  BY <1>1, <1>2, <1>4, <1>5, <1>6 DEF Matched
<1> QED
  BY <1>2, <1>7

\* A matched event takes a pending wait, so it steals none.
LEMMA MatchNext ==
    ASSUME Base, EventMatchesOneWait, [Next]_vars
    PROVE  EventMatchesOneWait'
<1>1. CASE UNCHANGED <<subs, events>>
  BY <1>1, MatchKept
<1>2. ASSUME NEW w \in Workers, PrepareEventWait(w) PROVE EventMatchesOneWait'
  BY <1>2, SubscribedFrame, MatchKept
<1>3. ASSUME NEW w \in Workers, FireDueTimers(w) PROVE EventMatchesOneWait'
  BY <1>3, TimedOutFrame, MatchKept
<1>4. ASSUME NEW q \in Runs, CancelRun(q) PROVE EventMatchesOneWait'
  BY <1>4, CancelledFrame, MatchKept
<1>5. ASSUME NEW w \in Workers, NEW e \in Events, IngestMatched(w, e)
      PROVE  EventMatchesOneWait'
  <2>0. PICK q \in Runs, s \in EventSteps : Matched(e, q, s)
    BY <1>5, MatchedFrame
  <2>1. /\ events[e].status = "absent"
        /\ events' = [events EXCEPT ![e] = [status |-> "matched", sub |-> <<q, s>>]]
        /\ subs[q][s].status = "pending"
        /\ subs'[q][s] = [status |-> "consumed", event |-> e]
        /\ \A r \in Runs, x \in EventSteps :
              (r # q \/ x # s) => subs'[r][x] = subs[r][x]
    BY <2>0 DEF Matched
  <2>2. /\ events \in [Events -> EventRow]
        /\ events'[e] = [status |-> "matched", sub |-> <<q, s>>]
        /\ \A f \in Events : f # e => events'[f] = events[f]
    BY <2>1, BaseParts DEF StoreOK
  <2>3. ASSUME NEW f \in Events, events'[f].status = "matched"
        PROVE  /\ events'[f].sub \in SubKeys
               /\ subs'[events'[f].sub[1]][events'[f].sub[2]] =
                     [status |-> "consumed", event |-> f]
    <3>1. CASE f = e
      BY <3>1, <2>1, <2>2 DEF SubKeys
    <3>2. CASE f # e
      <4> DEFINE r == events[f].sub[1]
                 x == events[f].sub[2]
      <4>1. /\ events'[f] = events[f] /\ events[f].sub \in SubKeys
            /\ subs[r][x] = [status |-> "consumed", event |-> f]
        BY <2>2, <2>3, <3>2 DEF EventMatchesOneWait
      <4>2. r \in Runs /\ x \in EventSteps
        BY <4>1 DEF SubKeys
      <4>3. subs'[r][x] = subs[r][x]
        BY <2>1, <4>1, <4>2
      <4> QED
        BY <4>1, <4>3
    <3> QED
      BY <3>1, <3>2
  <2>4. ASSUME NEW r \in Runs, NEW x \in EventSteps, subs'[r][x].status = "consumed"
        PROVE  /\ subs'[r][x].event \in Events
               /\ events'[subs'[r][x].event] = [status |-> "matched", sub |-> <<r, x>>]
    <3>1. CASE r = q /\ x = s
      BY <3>1, <2>1, <2>2
    <3>2. CASE r # q \/ x # s
      <4>1. /\ subs'[r][x] = subs[r][x] /\ subs[r][x].event \in Events
            /\ events[subs[r][x].event] = [status |-> "matched", sub |-> <<r, x>>]
        BY <2>1, <2>4, <3>2 DEF EventMatchesOneWait
      <4>2. subs[r][x].event # e
        BY <2>1, <4>1
      <4> QED
        BY <2>2, <4>1, <4>2
    <3> QED
      BY <3>1, <3>2
  <2> QED
    BY <2>3, <2>4 DEF EventMatchesOneWait
<1>6. ASSUME NEW w \in Workers, NEW e \in Events, IngestUnmatched(w, e)
      PROVE  EventMatchesOneWait'
  <2>1. /\ events \in [Events -> EventRow]
        /\ events' = [events EXCEPT ![e].status = "unmatched"]
        /\ events[e].status = "absent" /\ subs' = subs
    BY <1>6, BaseParts DEF StoreOK, IngestUnmatched
  <2>2. /\ events'[e].status = "unmatched"
        /\ \A f \in Events : f # e => events'[f] = events[f]
    BY <2>1 DEF EventRow
  <2> QED
    BY <2>1, <2>2 DEF EventMatchesOneWait
<1> QED
  BY <1>1, <1>2, <1>3, <1>4, <1>5, <1>6, WaitsFrame

\* ingest_external_event resumes at most one wait per event, and a wait is
\* resumed by at most one event, under any interleaving with timeouts,
\* cancellations and other events.
THEOREM EventAlwaysMatchesOneWait == Spec => []EventMatchesOneWait
<1>1. Spec => []Base
  BY BaseInit, BaseNext, PTL DEF Spec
<1> QED
  BY <1>1, MatchInit, MatchNext, PTL DEF Spec

-----------------------------------------------------------------------------
(* Runs that have ended *)

\* resolve_workflow_transition lets nothing out of a terminal status.
LEMMA TerminalMoves ==
    ASSUME NEW st \in TerminalStatuses
    PROVE  /\ ~ CanMove(st, "running") /\ ~ CanMove(st, "waiting") /\ ~ CanMove(st, "paused")
           /\ CanMove(st, "failed") => st = "failed"
           /\ CanMove(st, "cancelled") => st = "cancelled"
BY DEF TerminalStatuses, CanMove, LegalTransitions, RunStatuses

\* Arming a timer touches its own key only.
LEMMA ArmedFrame ==
    ASSUME Base, NEW k \in TimerKeys, timers' = Armed(k)
    PROVE  \A x \in TimerKeys : x # k => timers'[x] = timers[x]
BY BaseParts DEF StoreOK, TimerRows, Armed

\* What stays of a run that has ended: its row, its closed timers and waits.
EndedRunKept(r) ==
    /\ run'[r].status = run[r].status
    /\ run'[r].step = run[r].step
    /\ run'[r].completed = run[r].completed
    /\ \A k \in TimerKeys :
          k.run = r /\ timers'[k] = "pending" => timers[k] = "pending"
    /\ \A s \in EventSteps :
          subs'[r][s].status \in {"pending", "consumed", "timed_out"} =>
              subs'[r][s] = subs[r][s]

\* No action touches a run that has ended.
LEMMA EndedRunNext ==
    ASSUME Base, [Next]_vars, NEW r \in Runs, Terminated(r)
    PROVE  EndedRunKept(r)
<1>0. /\ StoreOK
      /\ run \in [Runs -> RunRow]
      /\ run[r].status \in TerminalStatuses
  BY BaseParts DEF StoreOK, Terminated
<1>1. CASE UNCHANGED <<run, timers, subs>>
  BY <1>1 DEF EndedRunKept
<1>2. ASSUME NEW q \in Runs, StartRun(q) PROVE EndedRunKept(r)
  <2>1. r # q
    BY <1>0, <1>2 DEF StartRun, Started, TerminalStatuses
  <2> QED
    BY <1>0, <1>2, <2>1 DEF StartRun, EndedRunKept
<1>3. ASSUME NEW w \in Workers, PrepareComplete(w) PROVE EndedRunKept(r)
  <2>1. r # Job(w) /\ Job(w) \in Runs
    BY <1>3, JobType DEF PrepareComplete, Preparing
  <2> QED
    BY <1>0, <1>3, <2>1 DEF PrepareComplete, EndedRunKept
<1>4. ASSUME NEW w \in Workers, PrepareWait(w) PROVE EndedRunKept(r)
  <2> DEFINE k == WaitKey(Job(w), run[Job(w)].step)
  <2>1. r # Job(w) /\ Job(w) \in Runs /\ run[Job(w)].step \in WaitSteps
    BY <1>4, JobType DEF PrepareWait, Preparing, Step, WaitSteps
  <2>2. k \in TimerKeys /\ k.run # r
    BY <2>1, KeyType DEF WaitKey
  <2>3. \A x \in TimerKeys : x # k => timers'[x] = timers[x]
    BY <1>4, <2>2, ArmedFrame DEF PrepareWait
  <2> HIDE DEF k
  <2> QED
    BY <1>0, <1>4, <2>1, <2>2, <2>3 DEF PrepareWait, EndedRunKept
<1>5. ASSUME NEW w \in Workers, PrepareEventWait(w) PROVE EndedRunKept(r)
  <2> DEFINE k == TimeoutKey(Job(w), run[Job(w)].step)
  <2>1. r # Job(w) /\ Job(w) \in Runs /\ run[Job(w)].step \in EventSteps
    BY <1>5, JobType DEF PrepareEventWait, Preparing, Step, EventSteps
  <2>2. k \in TimerKeys /\ k.run # r
    BY <2>1, KeyType DEF TimeoutKey
  <2>3. \A x \in TimerKeys : x # k => timers'[x] = timers[x]
    BY <1>5, <2>2, ArmedFrame DEF PrepareEventWait
  <2>4. \A s \in EventSteps : subs'[r][s] = subs[r][s]
    BY <1>5, <2>1, SubscribedFrame
  <2> HIDE DEF k
  <2> QED
    BY <1>0, <1>5, <2>1, <2>2, <2>3, <2>4 DEF PrepareEventWait, EndedRunKept
<1>6. ASSUME NEW w \in Workers, PrepareScheduledCall(w) \/ PrepareAttempt(w)
      PROVE  EndedRunKept(r)
  <2>1. r # Job(w) /\ Job(w) \in Runs
    BY <1>6, JobType DEF PrepareScheduledCall, PrepareAttempt, Preparing
  <2> QED
    BY <1>0, <1>6, <2>1 DEF PrepareScheduledCall, PrepareAttempt, EndedRunKept
<1>7. ASSUME NEW w \in Workers, Bind(w) PROVE EndedRunKept(r)
  <2>1. r # Job(w) /\ Job(w) \in Runs
    BY <1>0, <1>7, JobType, TerminalMoves DEF Bind
  <2> QED
    BY <1>0, <1>7, <2>1 DEF Bind, EndedRunKept
<1>8. ASSUME NEW w \in Workers, Unwind(w) PROVE EndedRunKept(r)
  <2>1. Job(w) \in Runs
    BY <1>8, JobType DEF Unwind
  <2>2. CASE r # Job(w)
    BY <1>0, <1>8, <2>1, <2>2 DEF Unwind, EndedRunKept
  <2>3. CASE r = Job(w) /\ CanMove(run[r].status, "failed")
    BY <1>0, <1>8, <2>3, TerminalMoves DEF Unwind, EndedRunKept, RunRow
  <2>4. CASE r = Job(w) /\ ~ CanMove(run[r].status, "failed")
    BY <1>1, <1>8, <2>4 DEF Unwind
  <2> QED
    BY <2>2, <2>3, <2>4
<1>9. ASSUME NEW q \in Runs, CompleteCallActivity(q) PROVE EndedRunKept(r)
  <2>1. PICK c \in DOMAIN calls, n \in 1 .. MaxAttemptRows, report \in Reports :
          \/ CompleteCallback(q, c, n, report)
          \/ CompleteRetry(q, c, n, report)
          \/ CompleteFailed(q, c, n, report)
          \/ CompleteMoved(q, c, n, report)
    BY <1>9 DEF CompleteCallActivity
  <2> DEFINE s == run[q].step
  <2>2. /\ s \in CallSteps /\ c \in CallIds
    BY <1>0, <2>1, CallNumbers DEF CompleteCallback, CompleteRetry, CompleteFailed,
          CompleteMoved, Completing, RunRow, Step, CallSteps
  <2>3. CASE CompleteCallback(q, c, n, report)
    <3> DEFINE k == CallbackKey(q, s, c)
    <3>1. r # q
      BY <1>0, <2>3, TerminalMoves DEF CompleteCallback
    <3>2. k \in TimerKeys /\ k.run # r
      BY <2>2, <3>1, KeyType DEF CallbackKey
    <3>3. \A x \in TimerKeys : x # k => timers'[x] = timers[x]
      BY <2>3, <3>2, ArmedFrame DEF CompleteCallback
    <3> HIDE DEF k
    <3> QED
      BY <1>0, <2>3, <3>1, <3>2, <3>3 DEF CompleteCallback, Rescheduled, EndedRunKept
  <2>4. CASE CompleteRetry(q, c, n, report)
    <3> DEFINE k == RetryKey(q, s, n)
    <3>1. r # q
      BY <1>0, <2>4, TerminalMoves DEF CompleteRetry
    <3>2. k \in TimerKeys /\ k.run # r
      BY <2>2, <3>1, KeyType DEF RetryKey
    <3>3. \A x \in TimerKeys : x # k => timers'[x] = timers[x]
      BY <2>4, <3>2, ArmedFrame DEF CompleteRetry
    <3> HIDE DEF k
    <3> QED
      BY <1>0, <2>4, <3>1, <3>2, <3>3 DEF CompleteRetry, Rescheduled, EndedRunKept
  <2>5. CASE CompleteFailed(q, c, n, report)
    <3>1. CASE r # q
      BY <1>0, <2>5, <3>1 DEF CompleteFailed, EndedRunKept
    <3>2. CASE r = q
      BY <1>0, <2>5, <3>2, TerminalMoves DEF CompleteFailed, EndedRunKept, RunRow
    <3> QED
      BY <3>1, <3>2
  <2>6. CASE CompleteMoved(q, c, n, report)
    <3>1. r # q
      BY <1>0, <2>6, TerminalMoves DEF CompleteMoved
    <3> QED
      BY <1>0, <2>6, <3>1 DEF CompleteMoved, Moved, EndedRunKept
  <2> QED
    BY <2>1, <2>3, <2>4, <2>5, <2>6
<1>10. ASSUME NEW w \in Workers, FireDueTimers(w) PROVE EndedRunKept(r)
  <2>1. PICK batch \in SUBSET DueTimers :
          /\ timers' = [k \in TimerKeys |-> IF k \in batch THEN "fired" ELSE timers[k]]
          /\ \E final \in [{k.run : k \in Wakes(batch)} -> Wakes(batch)] :
               run' = [x \in Runs |->
                 IF x \in {k.run : k \in Wakes(batch)}
                 THEN [run[x] EXCEPT
                         !.status = "running",
                         !.step = WakeStep(final[x]),
                         !.completed = @ \cup
                             {k.step : k \in {y \in Wakes(batch) : y.run = x}}]
                 ELSE run[x]]
    BY <1>10 DEF FireDueTimers
  <2>2. r \notin {k.run : k \in Wakes(batch)}
    BY DEF Wakes
  <2>3. run'[r] = run[r]
    BY <2>1, <2>2
  <2>4. \A s \in EventSteps : subs'[r][s] = subs[r][s]
    BY <1>10, TimedOutFrame
  <2> QED
    BY <2>1, <2>3, <2>4 DEF EndedRunKept
<1>11. ASSUME NEW q \in Runs, CancelRun(q) PROVE EndedRunKept(r)
  <2>1. \A s \in EventSteps : subs'[r][s] = subs[r][s] \/ subs'[r][s].status = "cancelled"
    BY <1>11, CancelledFrame
  <2>2. \A k \in TimerKeys : timers'[k] = "pending" => timers[k] = "pending"
    BY <1>11 DEF CancelRun, TimersCancelled
  <2>3. /\ run'[r].status = run[r].status
        /\ run'[r].step = run[r].step /\ run'[r].completed = run[r].completed
    <3>1. CASE r # q
      BY <1>0, <1>11, <3>1 DEF CancelRun
    <3>2. CASE r = q
      BY <1>0, <1>11, <3>2, TerminalMoves DEF CancelRun, RunRow
    <3> QED
      BY <3>1, <3>2
  <2> QED
    BY <2>1, <2>2, <2>3 DEF EndedRunKept
<1>12. ASSUME NEW q \in Runs, PauseRun(q) \/ \E w \in Workers : ResumeRun(w, q)
       PROVE  EndedRunKept(r)
  <2>1. r # q
    BY <1>0, <1>12, TerminalMoves DEF PauseRun, ResumeRun
  <2> QED
    BY <1>0, <1>12, <2>1 DEF PauseRun, ResumeRun, EndedRunKept
<1>13. ASSUME NEW w \in Workers, NEW e \in Events, IngestMatched(w, e)
       PROVE  EndedRunKept(r)
  <2>1. PICK q \in Runs, s \in EventSteps : Matched(e, q, s)
    BY <1>13, MatchedFrame
  <2>2. r # q
    BY <2>1 DEF Matched
  <2> QED
    BY <2>1, <2>2 DEF Matched, EndedRunKept, TimersCancelled
<1> QED
  BY <1>1, <1>2, <1>3, <1>4, <1>5, <1>6, <1>7, <1>8, <1>9, <1>10, <1>11, <1>12, <1>13
  DEF Next, vars, store, AdvanceStep, Prepare, RequestAdvance, PrepareRejected,
      Dial, DialFails, BindRejected, Crash, IngestUnmatched

\* A run that has ended keeps its status, step and history for good, and no
\* timer or event of it takes effect, whatever late completions, stale timers
\* or operator commands arrive.
THEOREM TerminalRunIsAlwaysFinal == Spec => TerminalRunIsFinal
<1>1. Spec => []Base
  BY BaseInit, BaseNext, PTL DEF Spec
<1> DEFINE Final == \A r \in Runs : Terminated(r) =>
          /\ run'[r].status = run[r].status
          /\ run'[r].step = run[r].step
          /\ run'[r].completed = run[r].completed
          /\ \A s \in EventSteps :
                subs'[r][s].status \notin {"consumed", "timed_out"} \ {subs[r][s].status}
<1>2. ASSUME Base, [Next]_vars PROVE Final
  BY <1>2, EndedRunNext DEF EndedRunKept
<1>3. Base /\ [Next]_vars => [Final]_vars
  BY <1>2
<1>4. Spec => [][Final]_vars
  BY <1>1, <1>3, PTL DEF Spec
<1> QED
  BY <1>4 DEF TerminalRunIsFinal

\* A run ends in one of three ways, or it fails.
LEMMA EndedBy ==
    ASSUME Base, [Next]_vars, NEW r \in Runs, ~ Terminated(r),
           run'[r].status \in {"completed", "cancelled"}
    PROVE  \/ CancelRun(r) /\ run'[r].status = "cancelled"
           \/ /\ run'[r].status = "completed"
              /\ run'[r].step \in CompleteSteps \cap run'[r].completed
<1>0. /\ StoreOK
      /\ run \in [Runs -> RunRow]
      /\ run[r].status \notin TerminalStatuses
  BY BaseParts DEF StoreOK, Terminated
<1> DEFINE Goal == \/ CancelRun(r) /\ run'[r].status = "cancelled"
                   \/ /\ run'[r].status = "completed"
                      /\ run'[r].step \in CompleteSteps \cap run'[r].completed
<1>1. CASE run'[r] = run[r]
  BY <1>0, <1>1 DEF TerminalStatuses
<1>2. CASE run'[r].status \in {"pending", "running", "waiting", "paused", "failed"}
  BY <1>2
<1>3. ASSUME NEW w \in Workers, PrepareComplete(w) PROVE Goal
  <2>1. Job(w) \in Runs /\ run[Job(w)].step \in CompleteSteps
    BY <1>3, JobType DEF PrepareComplete, Preparing, Step, CompleteSteps
  <2>2. CASE r = Job(w)
    BY <1>0, <1>3, <2>1, <2>2 DEF PrepareComplete, RunRow
  <2>3. CASE r # Job(w)
    BY <1>0, <1>1, <1>3, <2>1, <2>3 DEF PrepareComplete
  <2> QED
    BY <2>2, <2>3
<1>4. ASSUME NEW w \in Workers,
             PrepareWait(w) \/ PrepareEventWait(w) \/ Bind(w) \/ Unwind(w)
      PROVE Goal
  <2>1. Job(w) \in Runs
    BY <1>4, JobType DEF PrepareWait, PrepareEventWait, Preparing, Bind, Unwind
  <2>2. run'[r] = run[r] \/ run'[r].status \in {"waiting", "failed"}
    BY <1>0, <1>4, <2>1 DEF PrepareWait, PrepareEventWait, Bind, Unwind, RunRow
  <2> QED
    BY <1>1, <1>2, <2>2
<1>5. ASSUME NEW w \in Workers, PrepareScheduledCall(w) \/ PrepareAttempt(w)
      PROVE Goal
  <2>1. Job(w) \in Runs
    BY <1>5, JobType DEF PrepareScheduledCall, PrepareAttempt, Preparing
  <2>2. run'[r].status \in {"running", run[r].status}
    BY <1>0, <1>5, <2>1 DEF PrepareScheduledCall, PrepareAttempt, Begun, RunRow
  <2> QED
    BY <1>0, <1>2, <2>2 DEF TerminalStatuses
<1>6. ASSUME NEW q \in Runs, CompleteCallActivity(q) PROVE Goal
  <2>1. PICK c \in DOMAIN calls, n \in 1 .. MaxAttemptRows, report \in Reports :
          \/ CompleteCallback(q, c, n, report)
          \/ CompleteRetry(q, c, n, report)
          \/ CompleteFailed(q, c, n, report)
          \/ CompleteMoved(q, c, n, report)
    BY <1>6 DEF CompleteCallActivity
  <2>2. CASE CompleteCallback(q, c, n, report) \/ CompleteRetry(q, c, n, report)
    <3>1. run'[r] = run[r] \/ run'[r].status = "waiting"
      BY <1>0, <2>2 DEF CompleteCallback, CompleteRetry, Rescheduled, RunRow
    <3> QED
      BY <1>1, <1>2, <3>1
  <2>3. CASE CompleteFailed(q, c, n, report)
    <3>1. run'[r] = run[r] \/ run'[r].status = "failed"
      BY <1>0, <2>3 DEF CompleteFailed, RunRow
    <3> QED
      BY <1>1, <1>2, <3>1
  <2>4. CASE CompleteMoved(q, c, n, report)
    <3> DEFINE next == NextStepForCallStatus(run[q].step, report)
    <3>1. CASE r # q
      BY <1>0, <1>1, <2>4, <3>1 DEF CompleteMoved, Moved
    <3>2. CASE r = q
      <4>1. run'[r] =
              [status    |-> IF next \in CompleteSteps THEN "completed" ELSE "running",
               step      |-> next,
               completed |-> run[r].completed \cup {run[r].step}
                               \cup (IF next \in CompleteSteps THEN {next} ELSE {}),
               lastCall  |-> c]
        BY <1>0, <2>4, <3>2 DEF CompleteMoved, Moved
      <4> HIDE DEF next
      <4> QED
        BY <1>2, <4>1
    <3> QED
      BY <3>1, <3>2
  <2> QED
    BY <2>1, <2>2, <2>3, <2>4
<1>7. ASSUME NEW w \in Workers, FireDueTimers(w) PROVE Goal
  <2>1. PICK batch \in SUBSET DueTimers :
          \E final \in [{k.run : k \in Wakes(batch)} -> Wakes(batch)] :
               run' = [x \in Runs |->
                 IF x \in {k.run : k \in Wakes(batch)}
                 THEN [run[x] EXCEPT
                         !.status = "running",
                         !.step = WakeStep(final[x]),
                         !.completed = @ \cup
                             {k.step : k \in {y \in Wakes(batch) : y.run = x}}]
                 ELSE run[x]]
    BY <1>7 DEF FireDueTimers
  <2>2. run'[r] = run[r] \/ run'[r].status = "running"
    BY <1>0, <2>1 DEF RunRow
  <2> QED
    BY <1>1, <1>2, <2>2, SMTT(30)
<1>8. ASSUME NEW q \in Runs, CancelRun(q) PROVE Goal
  <2>1. CASE r = q
    BY <1>0, <1>8, <2>1 DEF CancelRun, RunRow
  <2>2. CASE r # q
    BY <1>0, <1>1, <1>8, <2>2 DEF CancelRun
  <2> QED
    BY <2>1, <2>2
<1>9. ASSUME NEW q \in Runs,
             StartRun(q) \/ PauseRun(q) \/ \E w \in Workers : ResumeRun(w, q)
      PROVE Goal
  <2>1. run'[r] = run[r] \/ run'[r].status \in {"pending", "paused", "running"}
    BY <1>0, <1>9 DEF StartRun, PauseRun, ResumeRun, RunRow
  <2> QED
    BY <1>1, <1>2, <2>1
<1>10. ASSUME NEW w \in Workers, NEW e \in Events, IngestMatched(w, e) PROVE Goal
  <2>1. PICK q \in Runs, s \in EventSteps : Matched(e, q, s)
    BY <1>10, MatchedFrame
  <2> QED
    BY <1>1, <1>2, <2>1 DEF Matched
<1>11. CASE run' = run
  BY <1>1, <1>11
<1> QED
  BY <1>3, <1>4, <1>5, <1>6, <1>7, <1>8, <1>9, <1>10, <1>11
  DEF Next, vars, store, AdvanceStep, Prepare, RequestAdvance, PrepareRejected,
      Dial, DialFails, BindRejected, Crash, IngestUnmatched

\* No run has ended initially.
LEMMA EndedInit == Init => CompletedRunStandsAtEnd /\ CancelledRunIsSilent
BY DEF Init, NoRun, CompletedRunStandsAtEnd, CancelledRunIsSilent

\* A completed run stands at its end when it gets there and afterwards.
LEMMA CompletedNext ==
    ASSUME Base, CompletedRunStandsAtEnd, [Next]_vars
    PROVE  CompletedRunStandsAtEnd'
<1> SUFFICES ASSUME NEW r \in Runs, run'[r].status = "completed"
             PROVE  run'[r].step \in CompleteSteps \cap run'[r].completed
  BY DEF CompletedRunStandsAtEnd
<1>1. CASE Terminated(r)
  <2>1. EndedRunKept(r)
    BY <1>1, EndedRunNext
  <2> QED
    BY <2>1 DEF EndedRunKept, CompletedRunStandsAtEnd
<1>2. CASE ~ Terminated(r)
  BY <1>2, EndedBy
<1> QED
  BY <1>1, <1>2

\* A cancelled run is silent when it gets there and afterwards.
LEMMA SilentNext ==
    ASSUME Base, CancelledRunIsSilent, [Next]_vars
    PROVE  CancelledRunIsSilent'
<1> SUFFICES ASSUME NEW r \in Runs, run'[r].status = "cancelled"
             PROVE  /\ \A k \in TimerKeys : k.run = r => timers'[k] # "pending"
                    /\ \A s \in EventSteps : subs'[r][s].status # "pending"
  BY DEF CancelledRunIsSilent
<1>1. CASE Terminated(r)
  <2>1. EndedRunKept(r)
    BY <1>1, EndedRunNext
  <2>2. run[r].status = "cancelled"
    BY <2>1 DEF EndedRunKept
  <2> QED
    BY <2>1, <2>2 DEF EndedRunKept, CancelledRunIsSilent
<1>2. CASE ~ Terminated(r)
  <2>1. CancelRun(r)
    BY <1>2, EndedBy
  <2>2. \A s \in EventSteps : subs'[r][s].status # "pending"
    BY <2>1, CancelledFrame
  <2>3. \A k \in TimerKeys : k.run = r => timers'[k] # "pending"
    BY <2>1 DEF CancelRun, TimersCancelled
  <2> QED
    BY <2>2, <2>3
<1> QED
  BY <1>1, <1>2

\* A completed run stands on a complete step it has recorded: the step that
\* ends it is reached by _prepare_current_step or _move_to_step, and neither a
\* late completion nor a stale timer moves it afterwards.
THEOREM CompletedRunAlwaysStandsAtEnd == Spec => []CompletedRunStandsAtEnd
<1>1. Spec => []Base
  BY BaseInit, BaseNext, PTL DEF Spec
<1> QED
  BY <1>1, EndedInit, CompletedNext, PTL DEF Spec

\* cancel_run silences a run for good: no service call under way arms a timer
\* or opens a subscription of it afterwards.
THEOREM CancelledRunIsAlwaysSilent == Spec => []CancelledRunIsSilent
<1>1. Spec => []Base
  BY BaseInit, BaseNext, PTL DEF Spec
<1> QED
  BY <1>1, EndedInit, SilentNext, PTL DEF Spec

-----------------------------------------------------------------------------
(* Events and timeouts exclude each other *)

\* The strengthening of EventXorTimeout: a timeout timer is armed exactly with
\* the subscription it guards, and one that has fired has closed it unless the
\* run had ended.
TimeoutInv ==
    \A r \in Runs, s \in EventSteps :
        LET timer == timers[TimeoutKey(r, s)]
            sub   == subs[r][s].status IN
        /\ sub = "consumed" => timer \in {"absent", "cancelled"}
        /\ sub = "timed_out" => timer = "fired"
        /\ timer = "pending" => sub = "pending"
        /\ sub = "absent" => timer = "absent"
        /\ sub # "absent" /\ Definition[s].onTimeout # NoStep => timer # "absent"
        /\ timer # "absent" => Definition[s].onTimeout # NoStep
        /\ sub = "pending" /\ ~ Terminated(r) => timer # "fired"

\* No timeout is armed initially.
LEMMA TimeoutInit == Init => TimeoutInv
<1> SUFFICES ASSUME Init PROVE TimeoutInv
  OBVIOUS
<1>1. \A r \in Runs, s \in EventSteps :
         timers[TimeoutKey(r, s)] = "absent" /\ subs[r][s].status = "absent"
  BY KeyType DEF Init
<1> QED
  BY <1>1 DEF TimeoutInv

\* The timeouts of other steps than an action's own.
LEMMA TimeoutKeyOwn ==
    \A r \in Runs, s \in EventSteps, q \in Runs :
        /\ \A x \in EventSteps : TimeoutKey(r, s) = TimeoutKey(q, x) => r = q /\ s = x
        /\ \A x : TimeoutKey(r, s) # WaitKey(q, x)
        /\ \A x, n : TimeoutKey(r, s) # RetryKey(q, x, n)
        /\ \A x, c : TimeoutKey(r, s) # CallbackKey(q, x, c)
        /\ TimeoutKey(r, s).run = r
BY SMTT(30) DEF TimeoutKey, WaitKey, RetryKey, CallbackKey

\* Timeouts are armed by event waits, fired by batches, cancelled by
\* cancellations and matched events, and by nothing else.
LEMMA TimeoutsFrame ==
    ASSUME Base, [Next]_vars
    PROVE  \/ \A r \in Runs, s \in EventSteps :
                 timers'[TimeoutKey(r, s)] = timers[TimeoutKey(r, s)]
           \/ \E w \in Workers : PrepareEventWait(w) \/ FireDueTimers(w)
           \/ \E r \in Runs : CancelRun(r)
           \/ \E w \in Workers, e \in Events : IngestMatched(w, e)
<1> DEFINE Same == \A r \in Runs, s \in EventSteps :
                      timers'[TimeoutKey(r, s)] = timers[TimeoutKey(r, s)]
<1>0. StoreOK
  BY BaseParts
<1>1. CASE timers' = timers
  BY <1>1
<1>2. ASSUME NEW w \in Workers, PrepareWait(w) PROVE Same
  <2> DEFINE k == WaitKey(Job(w), run[Job(w)].step)
  <2>1. k \in TimerKeys /\ Job(w) \in Runs
    BY <1>2, JobType, KeyType DEF PrepareWait, Preparing, Step, WaitSteps
  <2>2. \A x \in TimerKeys : x # k => timers'[x] = timers[x]
    BY <1>2, <2>1, ArmedFrame DEF PrepareWait
  <2> QED
    BY <2>1, <2>2, KeyType, TimeoutKeyOwn
<1>3. ASSUME NEW q \in Runs, CompleteCallActivity(q) PROVE Same
  <2>1. PICK c \in DOMAIN calls, n \in 1 .. MaxAttemptRows, report \in Reports :
          \/ CompleteCallback(q, c, n, report)
          \/ CompleteRetry(q, c, n, report)
          \/ CompleteFailed(q, c, n, report)
          \/ CompleteMoved(q, c, n, report)
    BY <1>3 DEF CompleteCallActivity
  <2> DEFINE s == run[q].step
  <2>2. /\ s \in CallSteps /\ c \in CallIds
    BY <1>0, <2>1, CallNumbers DEF CompleteCallback, CompleteRetry, CompleteFailed,
          CompleteMoved, Completing, StoreOK, RunRow, Step, CallSteps
  <2>3. CASE CompleteCallback(q, c, n, report)
    <3> DEFINE k == CallbackKey(q, s, c)
    <3>1. k \in TimerKeys
      BY <2>2, KeyType
    <3>2. \A x \in TimerKeys : x # k => timers'[x] = timers[x]
      BY <2>3, <3>1, ArmedFrame DEF CompleteCallback
    <3> QED
      BY <3>2, KeyType, TimeoutKeyOwn
  <2>4. CASE CompleteRetry(q, c, n, report)
    <3> DEFINE k == RetryKey(q, s, n)
    <3>1. k \in TimerKeys
      BY <2>2, KeyType
    <3>2. \A x \in TimerKeys : x # k => timers'[x] = timers[x]
      BY <2>4, <3>1, ArmedFrame DEF CompleteRetry
    <3> QED
      BY <3>2, KeyType, TimeoutKeyOwn
  <2>5. CASE CompleteFailed(q, c, n, report) \/ CompleteMoved(q, c, n, report)
    BY <1>1, <2>5 DEF CompleteFailed, CompleteMoved
  <2> QED
    BY <2>1, <2>3, <2>4, <2>5
<1> QED
  BY <1>1, <1>2, <1>3
  DEF Next, vars, store, StartRun, PauseRun, AdvanceStep, Prepare, PrepareRejected,
      PrepareComplete, PrepareAttempt, PrepareScheduledCall, Dial, DialFails, Bind,
      BindRejected, Unwind, Crash, RequestAdvance, ResumeRun, IngestUnmatched

\* The four actions that touch timeouts keep them in step with their waits.
LEMMA TimeoutNext ==
    ASSUME Base, TimeoutInv, [Next]_vars
    PROVE  TimeoutInv'
<1> SUFFICES ASSUME NEW r \in Runs, NEW s \in EventSteps
             PROVE  /\ subs'[r][s].status = "consumed" =>
                          timers'[TimeoutKey(r, s)] \in {"absent", "cancelled"}
                    /\ subs'[r][s].status = "timed_out" => timers'[TimeoutKey(r, s)] = "fired"
                    /\ timers'[TimeoutKey(r, s)] = "pending" => subs'[r][s].status = "pending"
                    /\ subs'[r][s].status = "absent" => timers'[TimeoutKey(r, s)] = "absent"
                    /\ subs'[r][s].status # "absent" /\ Definition[s].onTimeout # NoStep =>
                          timers'[TimeoutKey(r, s)] # "absent"
                    /\ timers'[TimeoutKey(r, s)] # "absent" => Definition[s].onTimeout # NoStep
                    /\ subs'[r][s].status = "pending" /\ ~ Terminated(r)' =>
                          timers'[TimeoutKey(r, s)] # "fired"
  BY DEF TimeoutInv, TimeoutKey
<1> DEFINE key == TimeoutKey(r, s)
           Goal == /\ subs'[r][s].status = "consumed" => timers'[key] \in {"absent", "cancelled"}
                   /\ subs'[r][s].status = "timed_out" => timers'[key] = "fired"
                   /\ timers'[key] = "pending" => subs'[r][s].status = "pending"
                   /\ subs'[r][s].status = "absent" => timers'[key] = "absent"
                   /\ subs'[r][s].status # "absent" /\ Definition[s].onTimeout # NoStep =>
                         timers'[key] # "absent"
                   /\ timers'[key] # "absent" => Definition[s].onTimeout # NoStep
                   /\ subs'[r][s].status = "pending" /\ ~ Terminated(r)' =>
                         timers'[key] # "fired"
<1>0. /\ key \in TimerKeys /\ key.run = r
      /\ timers \in TimerRows
      /\ subs[r][s] \in SubRow
  BY BaseParts, KeyType, TimeoutKeyOwn DEF StoreOK
<1>1. /\ subs[r][s].status = "consumed" => timers[key] \in {"absent", "cancelled"}
      /\ subs[r][s].status = "timed_out" => timers[key] = "fired"
      /\ timers[key] = "pending" => subs[r][s].status = "pending"
      /\ subs[r][s].status = "absent" => timers[key] = "absent"
      /\ subs[r][s].status # "absent" /\ Definition[s].onTimeout # NoStep =>
            timers[key] # "absent"
      /\ timers[key] # "absent" => Definition[s].onTimeout # NoStep
      /\ subs[r][s].status = "pending" /\ ~ Terminated(r) => timers[key] # "fired"
  BY DEF TimeoutInv
<1>2. Terminated(r) => Terminated(r)'
  BY EndedRunNext DEF EndedRunKept, Terminated
<1>3. timers[key] \in {"absent", "pending", "fired", "cancelled"}
  BY <1>0 DEF TimerRows
<1> HIDE DEF key
<1>4. ASSUME timers'[key] = timers[key], subs'[r][s] = subs[r][s] PROVE Goal
  BY <1>1, <1>2, <1>4
<1>5. ASSUME NEW w \in Workers, PrepareEventWait(w) PROVE Goal
  <2> DEFINE own == TimeoutKey(Job(w), run[Job(w)].step)
  <2>1. /\ Job(w) \in Runs /\ run[Job(w)].step \in EventSteps /\ ~ Terminated(Job(w))
    BY <1>5, JobType, SubscribedFrame DEF PrepareEventWait, Preparing
  <2>2. own \in TimerKeys
    BY <2>1, KeyType
  <2>3. CASE r # Job(w) \/ s # run[Job(w)].step
    <3>1. subs'[r][s] = subs[r][s]
      BY <1>5, <2>3, SubscribedFrame
    <3>2. key # own
      BY <2>1, <2>3, TimeoutKeyOwn DEF key
    <3>3. timers'[key] = timers[key]
      BY <1>0, <1>5, <2>2, <3>2, ArmedFrame DEF PrepareEventWait
    <3> QED
      BY <1>4, <3>1, <3>3
  <2>4. CASE r = Job(w) /\ s = run[r].step
    <3>1. key = own /\ Step(Job(w)) = Definition[s]
      BY <2>4 DEF key, Step
    <3>2. timers' = IF Definition[s].onTimeout = NoStep THEN timers ELSE Armed(key)
      BY <1>5, <3>1 DEF PrepareEventWait
    <3>3. subs' = Subscribed(r, s)
      BY <1>5, <2>4 DEF PrepareEventWait
    <3>4. subs \in [Runs -> [EventSteps -> SubRow]]
      BY BaseParts DEF StoreOK
    <3>5. IF subs[r][s].status = "absent" THEN subs'[r][s].status = "pending"
          ELSE subs'[r][s] = subs[r][s]
      BY <3>3, <3>4 DEF Subscribed
    <3>6. timers'[key] = IF timers[key] = "absent" /\ Definition[s].onTimeout # NoStep
                         THEN "pending" ELSE timers[key]
      BY <1>0, <3>2 DEF Armed, TimerRows
    <3>7. CASE subs[r][s].status = "absent"
      BY <1>1, <3>5, <3>6, <3>7
    <3>8. CASE subs[r][s].status # "absent"
      BY <1>1, <1>4, <3>5, <3>6, <3>8
    <3> QED
      BY <3>7, <3>8
  <2> QED
    BY <2>3, <2>4
<1>6. ASSUME NEW w \in Workers, FireDueTimers(w) PROVE Goal
  <2>1. PICK batch \in SUBSET DueTimers :
          /\ subs' = TimedOut(Wakes(batch))
          /\ timers' = [k \in TimerKeys |-> IF k \in batch THEN "fired" ELSE timers[k]]
    BY <1>6 DEF FireDueTimers
  <2>2. subs'[r][s] = IF key \in Wakes(batch) /\ subs[r][s].status = "pending"
                      THEN [subs[r][s] EXCEPT !.status = "timed_out"]
                      ELSE subs[r][s]
    BY <2>1 DEF TimedOut, key
  <2>3. [subs[r][s] EXCEPT !.status = "timed_out"].status = "timed_out"
    BY <1>0 DEF SubRow
  <2>4. CASE key \notin batch
    <3>1. timers'[key] = timers[key]
      BY <1>0, <2>1, <2>4
    <3>2. subs'[r][s] = subs[r][s]
      BY <2>2, <2>4 DEF Wakes
    <3> QED
      BY <1>4, <3>1, <3>2
  <2>5. CASE key \in batch
    <3>1. timers[key] = "pending" /\ timers'[key] = "fired" /\ subs[r][s].status = "pending"
      BY <1>0, <1>1, <2>1, <2>5 DEF DueTimers
    <3>2. Definition[s].onTimeout # NoStep
      BY <1>1, <3>1
    <3>3. CASE Terminated(r)
      <4>1. subs'[r][s] = subs[r][s]
        BY <1>0, <2>2, <3>3 DEF Wakes
      <4> QED
        BY <1>2, <3>1, <3>2, <3>3, <4>1
    <3>4. CASE ~ Terminated(r)
      <4>1. WakeStep(key) = Definition[s].onTimeout
        BY DEF key, TimeoutKey, WakeStep
      <4>2. key \in Wakes(batch)
        BY <1>0, <2>5, <3>2, <3>4, <4>1 DEF Wakes
      <4>3. subs'[r][s].status = "timed_out"
        BY <2>2, <2>3, <3>1, <4>2
      <4> QED
        BY <3>1, <3>2, <4>3
    <3> QED
      BY <3>3, <3>4
  <2> QED
    BY <2>4, <2>5
<1>7. ASSUME NEW q \in Runs, CancelRun(q) PROVE Goal
  <2>1. timers' = TimersCancelled(q)
    BY <1>7 DEF CancelRun
  <2>2. \/ subs'[r][s] = subs[r][s] /\ (r = q => subs[r][s].status # "pending")
        \/ /\ r = q
           /\ subs[r][s].status = "pending" /\ subs'[r][s].status = "cancelled"
    BY <1>7, CancelledFrame
  <2>3. timers'[key] = IF r = q /\ timers[key] = "pending" THEN "cancelled" ELSE timers[key]
    BY <1>0, <2>1 DEF TimersCancelled
  <2> QED
    BY <1>1, <1>2, <1>3, <2>2, <2>3
<1>8. ASSUME NEW w \in Workers, NEW e \in Events, IngestMatched(w, e) PROVE Goal
  <2>1. PICK q \in Runs, x \in EventSteps : Matched(e, q, x)
    BY <1>8, MatchedFrame
  <2>2. timers'[key] = IF r = q /\ timers[key] = "pending" THEN "cancelled" ELSE timers[key]
    BY <1>0, <2>1 DEF Matched, TimersCancelled
  <2>3. CASE r = q /\ s = x
    <3>1. /\ subs[r][s].status = "pending" /\ subs'[r][s].status = "consumed"
          /\ ~ Terminated(r)
      BY <2>1, <2>3 DEF Matched
    <3> QED
      BY <1>1, <1>3, <2>2, <2>3, <3>1
  <2>4. CASE r # q \/ s # x
    <3>1. subs'[r][s] = subs[r][s]
      BY <2>1, <2>4 DEF Matched
    <3> QED
      BY <1>1, <1>2, <1>3, <2>2, <3>1
  <2> QED
    BY <2>3, <2>4
<1>9. ASSUME NEW w \in Workers, NEW e \in Events, IngestUnmatched(w, e) PROVE Goal
  BY <1>4, <1>9 DEF IngestUnmatched
<1> QED
  BY <1>0, <1>4, <1>5, <1>6, <1>7, <1>8, <1>9, WaitsFrame, TimeoutsFrame DEF key

\* An external event and its timeout never both resume a wait: a consumed wait
\* has no timeout left, a timed-out one fired it, and a pending timeout guards
\* an open subscription.
THEOREM EventAlwaysXorTimeout == Spec => []EventXorTimeout
<1>1. Spec => []Base
  BY BaseInit, BaseNext, PTL DEF Spec
<1>2. TimeoutInv => EventXorTimeout
  BY DEF TimeoutInv, EventXorTimeout
<1> QED
  BY <1>1, <1>2, TimeoutInit, TimeoutNext, PTL DEF Spec

-----------------------------------------------------------------------------
(* Paused runs *)

\* Only a reported call, a batch of timers and an event move a run to another
\* step.
LEMMA StepFrame ==
    ASSUME Base, [Next]_vars, NEW r \in Runs, run'[r].step # run[r].step
    PROVE  \/ \E c \in DOMAIN calls, n \in 1 .. MaxAttemptRows, report \in Reports :
                 CompleteMoved(r, c, n, report)
           \/ \E w \in Workers : FireDueTimers(w)
           \/ \E w \in Workers, e \in Events : IngestMatched(w, e)
<1>0. run \in [Runs -> RunRow]
  BY BaseParts DEF StoreOK
<1>1. run' # run
  OBVIOUS
<1>2. ASSUME NEW w \in Workers, AdvanceStep(w) PROVE FALSE
  <2>1. run' # run => workers[w].pc # "idle"
    BY <1>2 DEF AdvanceStep, Prepare, PrepareRejected, PrepareComplete, PrepareWait,
       PrepareEventWait, PrepareScheduledCall, PrepareAttempt, Preparing, Dial,
       DialFails, Bind, BindRejected, Unwind
  <2>2. Job(w) \in Runs
    BY <1>1, <2>1, JobType
  <2>3. CASE PrepareComplete(w)
    BY <1>0, <2>2, <2>3 DEF PrepareComplete, RunRow
  <2>4. CASE Bind(w)
    BY <1>0, <2>2, <2>4 DEF Bind, RunRow
  <2>5. CASE PrepareWait(w) \/ PrepareEventWait(w) \/ PrepareScheduledCall(w)
             \/ PrepareAttempt(w) \/ Unwind(w)
    <3>1. \E st : run' = [run EXCEPT ![Job(w)].status = st]
      BY <1>1, <2>5 DEF PrepareWait, PrepareEventWait, PrepareScheduledCall,
                        PrepareAttempt, Unwind
    <3> QED
      BY <1>0, <2>2, <3>1 DEF RunRow
  <2> QED
    BY <1>1, <1>2, <2>3, <2>4, <2>5, SMTT(30)
    DEF AdvanceStep, Prepare, PrepareRejected, Dial, DialFails, BindRejected, store
<1>3. ASSUME NEW q \in Runs, CompleteCallActivity(q)
      PROVE  \E c \in DOMAIN calls, n \in 1 .. MaxAttemptRows, report \in Reports :
                CompleteMoved(r, c, n, report)
  <2>1. PICK c \in DOMAIN calls, n \in 1 .. MaxAttemptRows, report \in Reports :
          \/ CompleteCallback(q, c, n, report)
          \/ CompleteRetry(q, c, n, report)
          \/ CompleteFailed(q, c, n, report)
          \/ CompleteMoved(q, c, n, report)
    BY <1>3 DEF CompleteCallActivity
  <2>2. CASE CompleteMoved(q, c, n, report)
    <3>1. q = r
      BY <1>0, <2>2 DEF CompleteMoved, Moved
    <3> QED
      BY <2>2, <3>1
  <2> QED
    BY <1>0, <2>1, <2>2
    DEF CompleteCallback, CompleteRetry, CompleteFailed, Rescheduled, RunRow
<1>4. ASSUME NEW q \in Runs,
             \/ StartRun(q) \/ CancelRun(q) \/ PauseRun(q)
             \/ \E w \in Workers : RequestAdvance(w, q) \/ ResumeRun(w, q)
      PROVE  FALSE
  BY <1>0, <1>1, <1>4 DEF StartRun, CancelRun, PauseRun, RequestAdvance, ResumeRun, RunRow, store
<1>5. ASSUME NEW w \in Workers,
             Crash(w) \/ \E e \in Events : IngestUnmatched(w, e)
      PROVE  FALSE
  BY <1>1, <1>5 DEF Crash, IngestUnmatched, store
<1> QED
  BY <1>1, <1>2, <1>3, <1>4, <1>5 DEF Next, vars

\* A paused run is left where it stands unless the call of its step is reported.
LEMMA PausedStands ==
    ASSUME Base, [Next]_vars, NEW r \in Runs, run[r].status = "paused",
           run'[r].step # run[r].step
    PROVE  /\ run[r].step \in CallSteps
           /\ \E n \in DOMAIN attempts[r][run[r].step] :
                 /\ attempts[r][run[r].step][n].status = "scheduled"
                 /\ attempts'[r][run[r].step][n].status = "completed"
<1>0. StoreOK
  BY BaseParts
<1>1. ASSUME NEW w \in Workers, FireDueTimers(w) PROVE run'[r] = run[r]
  <2>1. PICK batch \in SUBSET DueTimers :
          \E final \in [{k.run : k \in Wakes(batch)} -> Wakes(batch)] :
            run' = [x \in Runs |->
                 IF x \in {k.run : k \in Wakes(batch)}
                 THEN [run[x] EXCEPT
                         !.status = "running",
                         !.step = WakeStep(final[x]),
                         !.completed = @ \cup
                             {k.step : k \in {y \in Wakes(batch) : y.run = x}}]
                 ELSE run[x]]
    BY <1>1 DEF FireDueTimers
  <2>2. r \notin {k.run : k \in Wakes(batch)}
    BY DEF Wakes, DueTimers
  <2> QED
    BY <2>1, <2>2
<1>2. ASSUME NEW w \in Workers, NEW e \in Events, IngestMatched(w, e)
      PROVE  run'[r] = run[r]
  <2>1. PICK q \in Runs, x \in EventSteps : Matched(e, q, x)
    BY <1>2, MatchedFrame
  <2> QED
    BY <2>1 DEF Matched
<1>3. PICK c \in DOMAIN calls, n \in 1 .. MaxAttemptRows, report \in Reports :
         CompleteMoved(r, c, n, report)
  BY <1>1, <1>2, StepFrame
<1> DEFINE s == run[r].step
<1>4. /\ s \in CallSteps /\ n \in DOMAIN attempts[r][s]
      /\ attempts[r][s][n].status = "scheduled"
  BY <1>0, <1>3 DEF StoreOK, RunRow, CompleteMoved, Completing, IsScheduledAttempt,
                    Step, CallSteps
<1>5. attempts[r][s][n] \in AttemptRow
  BY <1>0, <1>4, RowNumbers
<1>6. attempts'[r][s][n] = [attempts[r][s][n] EXCEPT !.status = "completed"]
  BY <1>0, <1>3, <1>4 DEF StoreOK, CompleteMoved, AttemptCompleted
<1>7. attempts'[r][s][n].status = "completed"
  BY <1>5, <1>6 DEF AttemptRow
<1> QED
  BY <1>4, <1>7

\* No action fires a timer or resumes a wait of a paused run.
LEMMA PausedNext ==
    ASSUME Base, [Next]_vars, NEW r \in Runs, run[r].status = "paused"
    PROVE  /\ \A k \in TimerKeys :
                 k.run = r /\ timers[k] = "pending" => timers'[k] # "fired"
           /\ \A s \in EventSteps :
                 subs'[r][s].status \in {"consumed", "timed_out"} =>
                     subs'[r][s] = subs[r][s]
<1> DEFINE Fired == \E k \in TimerKeys :
                       k.run = r /\ timers[k] = "pending" /\ timers'[k] = "fired"
<1>1. ASSUME NEW k \in TimerKeys, timers' = Armed(k) PROVE ~ Fired
  BY <1>1, BaseParts DEF Armed, StoreOK, TimerRows
<1>2. ASSUME NEW q \in Runs, timers' = TimersCancelled(q) PROVE ~ Fired
  BY <1>2 DEF TimersCancelled
<1>3. ASSUME timers' = timers PROVE ~ Fired
  BY <1>3
<1>4. ASSUME NEW w \in Workers, PrepareWait(w) PROVE ~ Fired
  <2>1. WaitKey(Job(w), run[Job(w)].step) \in TimerKeys
    BY <1>4, JobType, KeyType DEF PrepareWait, Preparing, Step, WaitSteps
  <2> QED
    BY <1>1, <1>4, <2>1 DEF PrepareWait
<1>5. ASSUME NEW w \in Workers, PrepareEventWait(w) PROVE ~ Fired
  <2>1. TimeoutKey(Job(w), run[Job(w)].step) \in TimerKeys
    BY <1>5, JobType, KeyType DEF PrepareEventWait, Preparing, Step, EventSteps
  <2> QED
    BY <1>1, <1>3, <1>5, <2>1 DEF PrepareEventWait
<1>6. ASSUME NEW q \in Runs, CompleteCallActivity(q) PROVE ~ Fired
  <2>1. PICK c \in DOMAIN calls, n \in 1 .. MaxAttemptRows, report \in Reports :
          \/ CompleteCallback(q, c, n, report)
          \/ CompleteRetry(q, c, n, report)
          \/ CompleteFailed(q, c, n, report)
          \/ CompleteMoved(q, c, n, report)
    BY <1>6 DEF CompleteCallActivity
  <2>2. run[q].step \in CallSteps /\ c \in CallIds
    BY <2>1, BaseParts, CallNumbers DEF CompleteCallback, CompleteRetry, CompleteFailed,
          CompleteMoved, Completing, StoreOK, RunRow, Step, CallSteps
  <2>3. /\ CallbackKey(q, run[q].step, c) \in TimerKeys
        /\ RetryKey(q, run[q].step, n) \in TimerKeys
    BY <2>2, KeyType
  <2> QED
    BY <1>1, <1>3, <2>1, <2>3
    DEF CompleteCallback, CompleteRetry, CompleteFailed, CompleteMoved
<1>7. ASSUME NEW w \in Workers, FireDueTimers(w) PROVE ~ Fired
  <2>1. PICK batch \in SUBSET DueTimers :
          timers' = [k \in TimerKeys |-> IF k \in batch THEN "fired" ELSE timers[k]]
    BY <1>7 DEF FireDueTimers
  <2> QED
    BY <2>1 DEF DueTimers
<1>8. ASSUME NEW w \in Workers, NEW e \in Events, IngestMatched(w, e)
      PROVE  /\ ~ Fired
             /\ \A s \in EventSteps : subs'[r][s] = subs[r][s]
  <2>1. PICK q \in Runs, x \in EventSteps : Matched(e, q, x)
    BY <1>8, MatchedFrame, SMTT(30)
  <2> QED
    BY <1>2, <2>1 DEF Matched
<1>9. ~ Fired
  BY <1>2, <1>3, <1>4, <1>5, <1>6, <1>7, <1>8
  DEF Next, vars, store, StartRun, CancelRun, PauseRun, AdvanceStep, Prepare,
      PrepareRejected, PrepareComplete, PrepareAttempt, PrepareScheduledCall, Dial,
      DialFails, Bind, BindRejected, Unwind, Crash, RequestAdvance, ResumeRun,
      IngestUnmatched
<1>10. ASSUME NEW s \in EventSteps, subs'[r][s].status \in {"consumed", "timed_out"}
       PROVE  subs'[r][s] = subs[r][s]
  <2>1. CASE UNCHANGED <<subs, events>>
    BY <2>1
  <2>2. ASSUME NEW w \in Workers, PrepareEventWait(w) PROVE subs'[r][s] = subs[r][s]
    BY <1>10, <2>2, SubscribedFrame
  <2>3. ASSUME NEW w \in Workers, FireDueTimers(w) PROVE subs'[r][s] = subs[r][s]
    BY <2>3, TimedOutFrame
  <2>4. ASSUME NEW q \in Runs, CancelRun(q) PROVE subs'[r][s] = subs[r][s]
    BY <1>10, <2>4, CancelledFrame
  <2>5. ASSUME NEW w \in Workers, NEW e \in Events, IngestUnmatched(w, e)
        PROVE subs'[r][s] = subs[r][s]
    BY <2>5 DEF IngestUnmatched
  <2> QED
    BY <1>8, <2>1, <2>2, <2>3, <2>4, <2>5, WaitsFrame
<1> QED
  BY <1>9, <1>10

\* While a run is paused claim_due_timers passes over its timers and the event
\* lookup over its subscriptions, whatever calls were under way when it paused;
\* only the report of the call it had placed takes it to another step.
THEOREM PauseAlwaysBlocks == Spec => PauseBlocksTimersAndEvents
<1>1. Spec => []Base
  BY BaseInit, BaseNext, PTL DEF Spec
<1> DEFINE Blocked == \A r \in Runs : run[r].status = "paused" =>
          /\ \A k \in TimerKeys :
                k.run = r /\ timers[k] = "pending" => timers'[k] # "fired"
          /\ \A s \in EventSteps :
                subs'[r][s].status \in {"consumed", "timed_out"} =>
                    subs'[r][s] = subs[r][s]
          /\ run'[r].step # run[r].step =>
                /\ run[r].step \in CallSteps
                /\ \E n \in DOMAIN attempts[r][run[r].step] :
                      /\ attempts[r][run[r].step][n].status = "scheduled"
                      /\ attempts'[r][run[r].step][n].status = "completed"
<1>2. ASSUME Base, [Next]_vars PROVE Blocked
  BY <1>2, PausedNext, PausedStands
<1>3. Base /\ [Next]_vars => [Blocked]_vars
  BY <1>2
<1>4. Spec => [][Blocked]_vars
  BY <1>1, <1>3, PTL DEF Spec
<1> QED
  BY <1>4 DEF PauseBlocksTimersAndEvents

=============================================================================
