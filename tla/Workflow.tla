------------------------------- MODULE Workflow -------------------------------
(***************************************************************************)
(* The durable workflow runtime (workflows/service.py, repository.py).     *)
(*                                                                         *)
(* Every database transaction of the service locks the row of the run it   *)
(* works on (SELECT ... FOR UPDATE) before it reads or writes anything of  *)
(* that run, and a raised exception rolls it back, so one transaction is   *)
(* one atomic action.  What is not atomic is a service call: advance_run   *)
(* is two transactions with the telephony request between them,            *)
(* fire_due_timers and ingest_external_event commit and only then advance  *)
(* the runs they woke.  A worker is one such call in flight; it keeps the  *)
(* Python locals that survive from one transaction to the next.            *)
(*                                                                         *)
(* Time is abstract: a pending timer may be due at any moment.             *)
(***************************************************************************)
EXTENDS RunStatus, WorkflowDefinition, Sequences, FiniteSets, Functions

CONSTANTS
    Runs,            \* run ids the application may start
    Workers,         \* service calls that may be in flight at once
    Events,          \* idempotency keys of external events
    NoEvent,         \* a matched_event_id that is None
    TopicOf,         \* event key -> the topic it is sent with
    Reports,         \* what a completion may report: call statuses, "callback"
    MaxCalls,        \* bound: calls the telephony provider accepts
    MaxAttemptRows,  \* bound: attempt rows of one step of one run
    BatchLimit       \* the limit argument of fire_due_timers

VARIABLES
    run,       \* workflow_runs
    attempts,  \* workflow_activity_attempts, in attempt_number order
    timers,    \* workflow_timers by idempotency key: their status
    subs,      \* workflow_event_subscriptions, unique per run and step
    events,    \* workflow_external_events by idempotency key
    calls,     \* calls the provider accepted, in order; call id = position
    workers    \* service calls in flight

store == <<run, attempts, timers, subs, events, calls>>
vars  == <<run, attempts, timers, subs, events, calls, workers>>

ASSUME WorkflowAssumption ==
    /\ NoEvent \notin Events
    /\ TopicOf \in [Events -> Topics]
    /\ Reports \subseteq CallStatuses \cup {"callback"}
    /\ MaxCalls \in Nat
    /\ MaxAttemptRows \in Nat
    /\ BatchLimit \in Nat \ {0}

-----------------------------------------------------------------------------
(* Rows and keys *)

NoCall == 0
CallIds == 1 .. MaxCalls

NoRun == [status |-> "absent", step |-> InitialStep,
          completed |-> {}, lastCall |-> NoCall]

\* A subscription is named by its run and step.
SubKeys == Runs \X EventSteps
NoSub == <<>>

NewAttempt == [status |-> "pending", call |-> NoCall]

\* Idempotency keys.  Wait and timeout keys name only the run and the step, a
\* retry key also the attempt number, a callback key the call.
WaitKey(r, s)        == [kind |-> "wait",     run |-> r, step |-> s, n |-> 0]
TimeoutKey(r, s)     == [kind |-> "timeout",  run |-> r, step |-> s, n |-> 0]
RetryKey(r, s, n)    == [kind |-> "retry",    run |-> r, step |-> s, n |-> n]
CallbackKey(r, s, c) == [kind |-> "callback", run |-> r, step |-> s, n |-> c]

TimerKeys ==
    [kind : {"wait"},     run : Runs, step : WaitSteps,  n : {0}] \cup
    [kind : {"timeout"},  run : Runs, step : EventSteps, n : {0}] \cup
    [kind : {"retry"},    run : Runs, step : CallSteps,  n : 1 .. MaxAttemptRows] \cup
    [kind : {"callback"}, run : Runs, step : CallSteps,  n : CallIds]

\* Mutant: a wait arms its timer with its own step, as a retry does.
WakeStepOfWaitIsItself(k) ==
    CASE k.kind = "timeout"  -> Definition[k.step].onTimeout
      [] k.kind = "callback" -> CallbackStep(k.step)
      [] OTHER               -> k.step

\* wake_step_id of a timer row; for a timeout, the branch its subscription
\* kept, which is None exactly when the step has no timeout.
WakeStep(k) ==
    CASE k.kind = "wait"     -> Definition[k.step].next
      [] k.kind = "timeout"  -> Definition[k.step].onTimeout
      [] k.kind = "retry"    -> k.step
      [] k.kind = "callback" -> CallbackStep(k.step)

\* create_timer: an existing row of that key is returned as it is.
Armed(k) ==
    IF timers[k] = "absent" THEN [timers EXCEPT ![k] = "pending"] ELSE timers

\* Mutant: the pending timers stay.
TimersKept(r) == timers

\* cancel_pending_timers_for_run
TimersCancelled(r) ==
    [k \in TimerKeys |->
        IF k.run = r /\ timers[k] = "pending" THEN "cancelled" ELSE timers[k]]

\* Mutant: the pending subscriptions stay.
SubsKept(r) == subs

\* cancel_pending_event_subscriptions_for_run
SubsCancelled(r) ==
    [subs EXCEPT ![r] =
        [s \in EventSteps |->
            IF @[s].status = "pending" THEN [@[s] EXCEPT !.status = "cancelled"]
            ELSE @[s]]]

\* create_event_subscription: an existing row of the step is returned as it is.
Subscribed(r, s) ==
    IF subs[r][s].status = "absent"
    THEN [subs EXCEPT ![r][s] = [status |-> "pending", event |-> NoEvent]]
    ELSE subs

Started(r)    == run[r].status # "absent"
Terminated(r) == run[r].status \in TerminalStatuses
Step(r)       == Definition[run[r].step]

\* get_scheduled_attempt_for_step: the scheduled attempt of highest number.
IsScheduledAttempt(r, s, n) ==
    /\ n \in DOMAIN attempts[r][s]
    /\ attempts[r][s][n].status = "scheduled"
    /\ \A m \in DOMAIN attempts[r][s] :
          attempts[r][s][m].status = "scheduled" => m <= n

\* Mutant: the row is not inserted.
AttemptUnrecorded(r, s) == attempts

\* create_activity_attempt, numbered by the rows there are.
AttemptCreated(r, s) == [attempts EXCEPT ![r][s] = Append(@, NewAttempt)]

\* Mutant: the first attempt is looked up instead of the last.
FirstAttemptBound(r, s, c) ==
    [attempts EXCEPT ![r][s][1] = [status |-> "scheduled", call |-> c]]

\* Mutant: the call is not stored with its attempt.
AttemptBoundWithoutCall(r, s, c) ==
    [attempts EXCEPT ![r][s][Len(attempts[r][s])].status = "scheduled"]

\* mark_attempt_scheduled of the attempt whose number is the number of rows
\* there are now: the last one, whichever call of advance_run created it.
AttemptBound(r, s, c) ==
    [attempts EXCEPT ![r][s][Len(attempts[r][s])] =
        [status |-> "scheduled", call |-> c]]

-----------------------------------------------------------------------------
(* Workers *)

Idle == [pc |-> "idle", queue |-> <<>>, step |-> NoStep, call |-> NoCall]

Advancing(queue) ==
    IF queue = <<>> THEN Idle
    ELSE [pc |-> "advance", queue |-> queue, step |-> NoStep, call |-> NoCall]

Job(w) == Head(workers[w].queue)

\* This advance_run returned: on to the next run the call has to advance.
Advanced(w) == [workers EXCEPT ![w] = Advancing(Tail(workers[w].queue))]

\* An exception leaves the service call: the runs still queued are dropped.
Raised(w) == [workers EXCEPT ![w] = Idle]

IsIdle(w) == workers[w].pc = "idle"

-----------------------------------------------------------------------------
Init ==
    /\ run = [r \in Runs |-> NoRun]
    /\ attempts = [r \in Runs |-> [s \in CallSteps |-> <<>>]]
    /\ timers = [k \in TimerKeys |-> "absent"]
    /\ subs = [r \in Runs |->
                 [s \in EventSteps |-> [status |-> "absent", event |-> NoEvent]]]
    /\ events = [e \in Events |-> [status |-> "absent", sub |-> NoSub]]
    /\ calls = <<>>
    /\ workers = [w \in Workers |-> Idle]

StartRun(r) ==
    /\ ~ Started(r)
    /\ run' = [run EXCEPT ![r].status = "pending"]
    /\ UNCHANGED <<attempts, timers, subs, events, calls, workers>>

\* The application calls advance_run.
RequestAdvance(w, r) ==
    /\ IsIdle(w)
    /\ Started(r)
    /\ workers' = [workers EXCEPT ![w] = Advancing(<<r>>)]
    /\ UNCHANGED store

-----------------------------------------------------------------------------
(* advance_run, first transaction: _prepare_current_step *)

\* The status a run has once a pending run was moved to running.
Begun(r) == IF run[r].status = "pending" THEN "running" ELSE run[r].status

\* Where the current step takes the run inside this transaction.
StepStatus(r) ==
    CASE Step(r).kind = "complete" -> "completed"
      [] Step(r).kind \in {"wait", "wait_for_event"} -> "waiting"
      [] Step(r).kind = "call" -> Begun(r)

Preparing(w) ==
    /\ workers[w].pc = "advance"
    /\ ~ Terminated(Job(w))
    /\ CanMove(Begun(Job(w)), StepStatus(Job(w)))

\* WorkflowRunTerminalError, or the step would move a paused run.
PrepareRejected(w) ==
    /\ workers[w].pc = "advance"
    /\ ~ Preparing(w)
    /\ workers' = Raised(w)
    /\ UNCHANGED store

PrepareComplete(w) ==
    LET r == Job(w) IN
    /\ Preparing(w)
    /\ Step(r).kind = "complete"
    /\ run' = [run EXCEPT ![r].status = "completed",
                          ![r].completed = @ \cup {run[r].step}]
    /\ workers' = Advanced(w)
    /\ UNCHANGED <<attempts, timers, subs, events, calls>>

PrepareWait(w) ==
    LET r == Job(w) IN
    /\ Preparing(w)
    /\ Step(r).kind = "wait"
    /\ timers' = Armed(WaitKey(r, run[r].step))
    /\ run' = [run EXCEPT ![r].status = "waiting"]
    /\ workers' = Advanced(w)
    /\ UNCHANGED <<attempts, subs, events, calls>>

PrepareEventWait(w) ==
    LET r == Job(w)
        s == run[r].step IN
    /\ Preparing(w)
    /\ Step(r).kind = "wait_for_event"
    /\ subs' = Subscribed(r, s)
    /\ timers' = IF Step(r).onTimeout = NoStep THEN timers
                 ELSE Armed(TimeoutKey(r, s))
    /\ run' = [run EXCEPT ![r].status = "waiting"]
    /\ workers' = Advanced(w)
    /\ UNCHANGED <<attempts, events, calls>>

\* The step's call is out already: its attempt is returned, nothing is dialled.
PrepareScheduledCall(w) ==
    LET r == Job(w) IN
    /\ Preparing(w)
    /\ Step(r).kind = "call"
    /\ \E n \in DOMAIN attempts[r][run[r].step] :
          IsScheduledAttempt(r, run[r].step, n)
    /\ run' = [run EXCEPT ![r].status = Begun(r)]
    /\ workers' = Advanced(w)
    /\ UNCHANGED <<attempts, timers, subs, events, calls>>

PrepareAttempt(w) ==
    LET r == Job(w)
        s == run[r].step IN
    /\ Preparing(w)
    /\ Step(r).kind = "call"
    /\ ~ \E n \in DOMAIN attempts[r][s] : IsScheduledAttempt(r, s, n)
    /\ Len(attempts[r][s]) < MaxAttemptRows
    /\ attempts' = AttemptCreated(r, s)
    /\ run' = [run EXCEPT ![r].status = Begun(r)]
    /\ workers' = [workers EXCEPT ![w].pc = "dial", ![w].step = s]
    /\ UNCHANGED <<timers, subs, events, calls>>

Prepare(w) ==
    \/ PrepareRejected(w)
    \/ PrepareComplete(w)
    \/ PrepareWait(w)
    \/ PrepareEventWait(w)
    \/ PrepareScheduledCall(w)
    \/ PrepareAttempt(w)

-----------------------------------------------------------------------------
(* advance_run, the telephony request and the second transaction *)

\* The provider takes the call of the step that was prepared.
Placed(w) ==
    /\ Len(calls) < MaxCalls
    /\ calls' = Append(calls, [run |-> Job(w), step |-> workers[w].step])

Dial(w) ==
    /\ workers[w].pc = "dial"
    /\ Placed(w)
    /\ workers' = [workers EXCEPT ![w].pc = "bind", ![w].call = Len(calls) + 1]
    /\ UNCHANGED <<run, attempts, timers, subs, events>>

\* UnavailableAgentError or CallInitiationFailed: the provider refused the
\* call, or took it and its answer was late or lost (a timeout, a broken
\* connection, an unreadable response).  advance_run cannot tell them apart.
DialFails(w) ==
    /\ workers[w].pc = "dial"
    /\ UNCHANGED calls \/ Placed(w)
    /\ workers' = [workers EXCEPT ![w].pc = "unwind"]
    /\ UNCHANGED <<run, attempts, timers, subs, events>>

Bind(w) ==
    LET r == Job(w) IN
    /\ workers[w].pc = "bind"
    /\ CanMove(run[r].status, "waiting")
    /\ attempts' = AttemptBound(r, workers[w].step, workers[w].call)
    /\ run' = [run EXCEPT ![r].status = "waiting",
                          ![r].lastCall = workers[w].call]
    /\ workers' = Advanced(w)
    /\ UNCHANGED <<timers, subs, events, calls>>

\* The run was paused or ended meanwhile: rolled back, the call is not recorded.
BindRejected(w) ==
    /\ workers[w].pc = "bind"
    /\ ~ CanMove(run[Job(w)].status, "waiting")
    /\ workers' = Raised(w)
    /\ UNCHANGED store

\* _mark_call_activity_failed, then the exception goes on to the caller.
Unwind(w) ==
    LET r == Job(w)
        s == workers[w].step
        last == Len(attempts[r][s]) IN
    /\ workers[w].pc = "unwind"
    /\ IF CanMove(run[r].status, "failed")
       THEN /\ attempts' = [attempts EXCEPT ![r][s][last].status = "failed"]
            /\ run' = [run EXCEPT ![r].status = "failed"]
       ELSE UNCHANGED <<attempts, run>>
    /\ workers' = Raised(w)
    /\ UNCHANGED <<timers, subs, events, calls>>

-----------------------------------------------------------------------------
(* complete_call_activity: one transaction.  Where it returns early (a repeat *)
(* for a run that has ended, a later step) or raises (the call is not the     *)
(* one of the latest scheduled attempt, an illegal move) nothing changes.     *)

\* Call c is reported for run r and matches attempt n of its current step.
Completing(r, c, n) ==
    /\ Started(r)
    /\ ~ (Terminated(r) /\ run[r].lastCall = c)
    /\ Step(r).kind = "call"
    /\ IsScheduledAttempt(r, run[r].step, n)
    /\ attempts[r][run[r].step][n].call = c

AttemptCompleted(r, n) ==
    [attempts EXCEPT ![r][run[r].step][n].status = "completed"]

\* The run waits for the wake-up that was just armed.
Rescheduled(r, c) ==
    [run EXCEPT ![r].status = "waiting", ![r].lastCall = c]

CompleteCallback(r, c, n, report) ==
    /\ Completing(r, c, n)
    /\ report = "callback"
    /\ CanMove(run[r].status, "waiting")
    /\ attempts' = AttemptCompleted(r, n)
    /\ timers' = Armed(CallbackKey(r, run[r].step, c))
    /\ run' = Rescheduled(r, c)
    /\ UNCHANGED <<subs, events, calls, workers>>

CompleteRetry(r, c, n, report) ==
    /\ Completing(r, c, n)
    /\ RetryDue(run[r].step, report, n)
    /\ CanMove(run[r].status, "waiting")
    /\ attempts' = AttemptCompleted(r, n)
    /\ timers' = Armed(RetryKey(r, run[r].step, n))
    /\ run' = Rescheduled(r, c)
    /\ UNCHANGED <<subs, events, calls, workers>>

\* Mutant: an optional branch is taken to be there.
HasBranchAssumed(s, report) == TRUE

HasBranch(s, report) == NextStepForCallStatus(s, report) # NoStep

\* No branch for this status: the run fails.
CompleteFailed(r, c, n, report) ==
    /\ Completing(r, c, n)
    /\ report # "callback"
    /\ ~ RetryDue(run[r].step, report, n)
    /\ ~ HasBranch(run[r].step, report)
    /\ CanMove(run[r].status, "failed")
    /\ attempts' = AttemptCompleted(r, n)
    /\ run' = [run EXCEPT ![r].status = "failed", ![r].lastCall = c]
    /\ UNCHANGED <<timers, subs, events, calls, workers>>

\* _move_to_step; a complete step ends the run in the same transaction.
Moved(r, next, c) ==
    LET ended == next \in CompleteSteps IN
    [run EXCEPT
       ![r] = [status    |-> IF ended THEN "completed" ELSE "running",
               step      |-> next,
               completed |-> @.completed \cup {@.step}
                               \cup (IF ended THEN {next} ELSE {}),
               lastCall  |-> c]]

CompleteMoved(r, c, n, report) ==
    /\ Completing(r, c, n)
    /\ report # "callback"
    /\ ~ RetryDue(run[r].step, report, n)
    /\ HasBranch(run[r].step, report)
    /\ CanMove(run[r].status, "running")
    /\ attempts' = AttemptCompleted(r, n)
    /\ run' = Moved(r, NextStepForCallStatus(run[r].step, report), c)
    /\ UNCHANGED <<timers, subs, events, calls, workers>>

CompleteCallActivity(r) ==
    \E c \in DOMAIN calls, n \in 1 .. MaxAttemptRows :
        /\ Completing(r, c, n)
        /\ \E report \in Reports :
              \/ CompleteCallback(r, c, n, report)
              \/ CompleteRetry(r, c, n, report)
              \/ CompleteFailed(r, c, n, report)
              \/ CompleteMoved(r, c, n, report)

-----------------------------------------------------------------------------
(* fire_due_timers *)

\* Mutant: timers of paused runs are claimed too.
DueTimersOfAnyRun == {k \in TimerKeys : timers[k] = "pending"}

\* claim_due_timers passes over the timers of paused runs.
DueTimers ==
    {k \in TimerKeys : timers[k] = "pending" /\ run[k.run].status # "paused"}

\* Mutant: timers of runs that have ended wake them.
WakesEndedRuns(batch) == {k \in batch : WakeStep(k) # NoStep}

\* Mutant: the whole batch is claimed and one timer of it is worked on.
WakesOne(batch) ==
    LET wakes == {k \in batch : ~ Terminated(k.run)} IN
    IF wakes = {} THEN {} ELSE {CHOOSE k \in wakes : TRUE}

\* The claimed timers that wake their run: not those of a run that has ended.
Wakes(batch) ==
    {k \in batch : ~ Terminated(k.run) /\ WakeStep(k) # NoStep}

\* mark_subscription_timed_out for every timeout among them.
TimedOut(wakes) ==
    [r \in Runs |-> [s \in EventSteps |->
        IF TimeoutKey(r, s) \in wakes /\ subs[r][s].status = "pending"
        THEN [subs[r][s] EXCEPT !.status = "timed_out"]
        ELSE subs[r][s]]]

\* One transaction claims a batch and moves the runs it wakes, in due order:
\* "order" is that order, and "final" the timer of a run that is due last and
\* so decides its step.  A run with two timers in the batch is queued twice.
FireDueTimers(w) ==
    /\ IsIdle(w)
    /\ \E batch \in SUBSET DueTimers, n \in 0 .. BatchLimit :
        LET wakes == Wakes(batch)
            woken == {k.run : k \in wakes} IN
        /\ batch # {}
        /\ Cardinality(batch) <= BatchLimit
        /\ timers' = [k \in TimerKeys |->
                        IF k \in batch THEN "fired" ELSE timers[k]]
        /\ subs' = TimedOut(wakes)
        /\ \E final \in [woken -> wakes] :
            /\ \A r \in woken : final[r].run = r
            /\ run' = [r \in Runs |->
                 IF r \in woken
                 THEN [run[r] EXCEPT
                         !.status = "running",
                         !.step = WakeStep(final[r]),
                         !.completed = @ \cup
                             {k.step : k \in {x \in wakes : x.run = r}}]
                 ELSE run[r]]
        /\ \E order \in Bijection(1 .. n, wakes) :
             workers' = [workers EXCEPT
                           ![w] = Advancing([i \in 1 .. n |-> order[i].run])]
    /\ UNCHANGED <<attempts, events, calls>>

-----------------------------------------------------------------------------
(* cancel_run, pause_run, resume_run *)

CancelRun(r) ==
    /\ Started(r)
    /\ CanMove(run[r].status, "cancelled")
    /\ timers' = TimersCancelled(r)
    /\ subs' = SubsCancelled(r)
    /\ run' = [run EXCEPT ![r].status = "cancelled"]
    /\ UNCHANGED <<attempts, events, calls, workers>>

PauseRun(r) ==
    /\ Started(r)
    /\ CanMove(run[r].status, "paused")
    /\ run' = [run EXCEPT ![r].status = "paused"]
    /\ UNCHANGED <<attempts, timers, subs, events, calls, workers>>

ResumeRun(w, r) ==
    /\ IsIdle(w)
    /\ Started(r)
    /\ CanMove(run[r].status, "running")
    /\ run' = [run EXCEPT ![r].status = "running"]
    /\ workers' = [workers EXCEPT ![w] = Advancing(<<r>>)]
    /\ UNCHANGED <<attempts, timers, subs, events, calls>>

-----------------------------------------------------------------------------
(* ingest_external_event.  A repeated key returns the stored row. *)

\* Mutant: the lookup finds subscriptions that are closed.
WaitingOrClosed(e) ==
    {k \in SubKeys :
        /\ subs[k[1]][k[2]].status # "absent"
        /\ Definition[k[2]].topic = TopicOf[e]
        /\ run[k[1]].status # "paused"}

\* The pending subscriptions the lookup of event e may find.
Waiting(e) ==
    {k \in SubKeys :
        /\ subs[k[1]][k[2]].status = "pending"
        /\ Definition[k[2]].topic = TopicOf[e]
        /\ run[k[1]].status # "paused"}

IngestMatched(w, e) ==
    /\ IsIdle(w)
    /\ events[e].status = "absent"
    /\ \E k \in Waiting(e) :
        LET r == k[1]
            s == k[2] IN
        /\ ~ Terminated(r)
        /\ events' = [events EXCEPT ![e] = [status |-> "matched", sub |-> k]]
        /\ subs' = [subs EXCEPT ![r][s] = [status |-> "consumed", event |-> e]]
        /\ timers' = TimersCancelled(r)
        /\ run' = [run EXCEPT ![r].status = "running",
                              ![r].step = Definition[s].next,
                              ![r].completed = @ \cup {s}]
        /\ workers' = [workers EXCEPT ![w] = Advancing(<<r>>)]
    /\ UNCHANGED <<attempts, calls>>

\* The lookup finds nothing, or the subscription of a run that has ended.  It
\* passes over locked rows (SKIP LOCKED), and any matching subscription or its
\* run may be locked by a transaction under way: by another ingest of the topic,
\* whose lookup has no LIMIT and locks all of them, by a batch of timers, by a
\* report or a cancellation of the run that is rolled back.  So what is found is
\* the oldest of an arbitrary part of the matching rows.
IngestUnmatched(w, e) ==
    /\ IsIdle(w)
    /\ events[e].status = "absent"
    /\ \E found \in SUBSET Waiting(e) : \A k \in found : Terminated(k[1])
    /\ events' = [events EXCEPT ![e].status = "unmatched"]
    /\ UNCHANGED <<run, attempts, timers, subs, calls, workers>>

-----------------------------------------------------------------------------
\* The process dies, or an error outside the handled ones aborts the call:
\* a transaction under way is rolled back and the Python locals are gone.
Crash(w) ==
    /\ ~ IsIdle(w)
    /\ workers' = Raised(w)
    /\ UNCHANGED store

\* advance_run after it was called.
AdvanceStep(w) ==
    Prepare(w) \/ Dial(w) \/ DialFails(w) \/ Bind(w) \/ BindRejected(w) \/ Unwind(w)

Next ==
    \/ \E r \in Runs :
          \/ StartRun(r)
          \/ CompleteCallActivity(r)
          \/ CancelRun(r)
          \/ PauseRun(r)
    \/ \E w \in Workers :
          \/ AdvanceStep(w)
          \/ FireDueTimers(w)
          \/ Crash(w)
          \/ \E r \in Runs : RequestAdvance(w, r) \/ ResumeRun(w, r)
          \/ \E e \in Events : IngestMatched(w, e) \/ IngestUnmatched(w, e)

Spec == Init /\ [][Next]_vars

-----------------------------------------------------------------------------
(* Properties *)

RunRow == [status : RunStatuses \cup {"absent"}, step : Steps,
           completed : SUBSET Steps, lastCall : CallIds \cup {NoCall}]

AttemptRow == [status : {"pending", "scheduled", "failed", "completed"},
               call : CallIds \cup {NoCall}]

SubRow == [status : {"absent", "pending", "consumed", "timed_out", "cancelled"},
           event : Events \cup {NoEvent}]

EventRow == [status : {"absent", "unmatched", "matched"}, sub : SubKeys \cup {NoSub}]

Worker == [pc : {"idle", "advance", "dial", "bind", "unwind"},
           queue : Seq(Runs), step : CallSteps \cup {NoStep},
           call : CallIds \cup {NoCall}]

\* The type invariant: rows of every table and the locals of every worker.
TypeOK ==
    /\ run \in [Runs -> RunRow]
    /\ attempts \in [Runs -> [CallSteps -> Seq(AttemptRow)]]
    /\ \A r \in Runs, s \in CallSteps : Len(attempts[r][s]) <= MaxAttemptRows
    /\ timers \in [TimerKeys -> {"absent", "pending", "fired", "cancelled"}]
    /\ subs \in [Runs -> [EventSteps -> SubRow]]
    /\ events \in [Events -> EventRow]
    /\ calls \in Seq([run : Runs, step : CallSteps])
    /\ Len(calls) <= MaxCalls
    /\ workers \in [Workers -> Worker]

\* A service call that is dialling, or unwinding a failed dial, works on a call
\* step that has an attempt row: the branches of advance_run and
\* _mark_call_activity_failed for a missing attempt are dead code.
DialledStepHasAttempt ==
    \A w \in Workers :
        /\ workers[w].pc # "idle" => workers[w].queue # <<>>
        /\ workers[w].pc \in {"dial", "bind", "unwind"} =>
              /\ workers[w].step \in CallSteps
              /\ attempts[Job(w)][workers[w].step] # <<>>
        /\ workers[w].pc = "bind" => workers[w].call \in DOMAIN calls

\* A step of a run never has two scheduled attempts, and a scheduled one is the
\* last: a completion cannot be matched with an older attempt, whatever the
\* interleaving of advance_run calls (each binds "the" attempt by counting).
ScheduledAttemptIsLast ==
    \A r \in Runs, s \in CallSteps : \A n \in DOMAIN attempts[r][s] :
        attempts[r][s][n].status = "scheduled" => n = Len(attempts[r][s])

\* An external event and its timeout exclude each other: a consumed wait has no
\* timeout timer left to fire, a timed-out one has fired its timer, and a
\* timeout still pending guards a subscription that is still open.
EventXorTimeout ==
    \A r \in Runs, s \in EventSteps :
        /\ subs[r][s].status = "consumed" =>
              timers[TimeoutKey(r, s)] \in {"absent", "cancelled"}
        /\ subs[r][s].status = "timed_out" => timers[TimeoutKey(r, s)] = "fired"
        /\ timers[TimeoutKey(r, s)] = "pending" => subs[r][s].status = "pending"

\* A matched event and the subscription it consumed name each other, so an
\* event resumes at most one wait and a wait is resumed by at most one event.
EventMatchesOneWait ==
    /\ \A e \in Events : events[e].status = "matched" =>
          /\ events[e].sub \in SubKeys
          /\ subs[events[e].sub[1]][events[e].sub[2]] =
                [status |-> "consumed", event |-> e]
    /\ \A r \in Runs, s \in EventSteps : subs[r][s].status = "consumed" =>
          /\ subs[r][s].event \in Events
          /\ events[subs[r][s].event] = [status |-> "matched", sub |-> <<r, s>>]

\* Cancelling a run silences it for good: no pending timer or subscription of a
\* cancelled run exists, also not one a concurrent call creates afterwards.
CancelledRunIsSilent ==
    \A r \in Runs : run[r].status = "cancelled" =>
        /\ \A k \in TimerKeys : k.run = r => timers[k] # "pending"
        /\ \A s \in EventSteps : subs[r][s].status # "pending"

\* A completed run stands on a complete step that it has recorded as completed,
\* also when stale timers or late calls moved it there.
CompletedRunStandsAtEnd ==
    \A r \in Runs : run[r].status = "completed" =>
        run[r].step \in CompleteSteps \cap run[r].completed

\* A run that has ended never changes its status, step or history again, and no
\* timer or event of it takes effect.
TerminalRunIsFinal ==
    [][\A r \in Runs : Terminated(r) =>
          /\ run'[r].status = run[r].status
          /\ run'[r].step = run[r].step
          /\ run'[r].completed = run[r].completed
          /\ \A s \in EventSteps :
                subs'[r][s].status \notin {"consumed", "timed_out"} \ {subs[r][s].status}]_vars

\* While a run is paused no timer of it fires and no event resumes it, and it
\* leaves the step it stands on only when the call of that step is reported.
PauseBlocksTimersAndEvents ==
    [][\A r \in Runs : run[r].status = "paused" =>
          /\ \A k \in TimerKeys :
                k.run = r /\ timers[k] = "pending" => timers'[k] # "fired"
          /\ \A s \in EventSteps :
                subs'[r][s].status \in {"consumed", "timed_out"} =>
                    subs'[r][s] = subs[r][s]
          /\ run'[r].step # run[r].step =>
                /\ run[r].step \in CallSteps
                /\ \E n \in DOMAIN attempts[r][run[r].step] :
                      /\ attempts[r][run[r].step][n].status = "scheduled"
                      /\ attempts'[r][run[r].step][n].status = "completed"]_vars

\* What a client of the service sees of a run.
Walk == INSTANCE RunWalk WITH
    status <- [r \in Runs |-> run[r].status],
    step   <- [r \in Runs |-> run[r].step],
    done   <- [r \in Runs |-> run[r].completed]

\* The service implements the walk: whatever timers, events, reports, retries
\* and concurrent calls do, a run only comes to steps its completed steps lead
\* to, moves by legal edges, and is left alone once it has ended.
RunIsAWalk == Walk!Spec

-----------------------------------------------------------------------------
(* What the docstrings of definition.py say of the program *)

\* WaitStepDefinition: "A durable timer step that wakes a run after persisted
\* business time."  A run waiting on a wait step has a timer that will fire.
WaitStepWakesRun ==
    \A r \in Runs :
        run[r].status = "waiting" /\ run[r].step \in WaitSteps =>
            timers[WaitKey(r, run[r].step)] = "pending"

CallsOf(r, s) == {c \in DOMAIN calls : calls[c] = [run |-> r, step |-> s]}

=============================================================================
