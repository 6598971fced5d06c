---------------------------- MODULE RunWalkProofs ----------------------------
(***************************************************************************)
(* The workflow runtime implements RunWalk, for every definition and any   *)
(* runs, workers and events.  A late timer moves its run to a successor of *)
(* the step that armed it, so the walk holds because timers and            *)
(* subscriptions only exist for steps the run had come to: WalkInv.        *)
(***************************************************************************)
EXTENDS WorkflowProofs

\* The steps run r may have come to.
Came(r) == {InitialStep} \cup UNION {Successors(s) : s \in run[r].completed}

\* Wake-ups exist for steps that a started run has come to, and service calls
\* only work on started runs.
WalkInv ==
    /\ \A r \in Runs : run[r].step \in Came(r)
    /\ \A k \in TimerKeys :
          timers[k] # "absent" => Started(k.run) /\ k.step \in Came(k.run)
    /\ \A r \in Runs, s \in EventSteps :
          subs[r][s].status # "absent" => Started(r) /\ s \in Came(r)
    /\ \A w \in Workers : \A i \in DOMAIN workers[w].queue :
          Started(workers[w].queue[i])

\* Run r takes a step of the walk: it completes the steps in "left".
Walked(r, left) ==
    /\ run[r].status \in RunStatuses \ TerminalStatuses
    /\ Walk!LegalMove(run[r].status, run'[r].status)
    /\ left \subseteq Came(r)
    /\ \/ run'[r].step = run[r].step
       \/ \E s \in left : run'[r].step \in Successors(s)
    /\ \/ run'[r].status # "completed" /\ run'[r].completed = run[r].completed \cup left
       \/ /\ run'[r].status = "completed"
          /\ run'[r].step \in CompleteSteps
          /\ run'[r].completed = run[r].completed \cup left \cup {run'[r].step}

\* A client sees the run stay as it is.
Stayed(r) ==
    /\ run'[r].status = run[r].status
    /\ run'[r].step = run[r].step
    /\ run'[r].completed = run[r].completed

Strolled(r) == Stayed(r) \/ \E left \in SUBSET Came(r) : Walked(r, left)

-----------------------------------------------------------------------------
(* Successors *)

\* RunWalk reads the same definition and state machine as the runtime.
LEMMA WalkSame ==
    /\ \A from, to :
          Walk!LegalMove(from, to) <=>
             \/ CanMove(from, to)
             \/ from = "pending" /\ CanMove("running", to)
             \/ to = "completed" /\ CanMove(from, "running")
    /\ Walk!RunStatuses = RunStatuses /\ Walk!TerminalStatuses = TerminalStatuses
    /\ Walk!Steps = Steps /\ Walk!CompleteSteps = CompleteSteps
    /\ \A s : Walk!Successors(s) = Successors(s)
<1>1. \A from, to : Walk!CanMove(from, to) = CanMove(from, to)
  BY DEF Walk!CanMove, CanMove, Walk!LegalTransitions, LegalTransitions,
         Walk!RunStatuses, RunStatuses
<1> QED
  BY <1>1 DEF Walk!LegalMove, Walk!RunStatuses, RunStatuses, Walk!TerminalStatuses,
     TerminalStatuses, Walk!Steps, Steps, Walk!CompleteSteps, CompleteSteps,
     Walk!Successors, Successors

-----------------------------------------------------------------------------
(* Every step walks *)

\* A legal change of status that leaves the step alone is a step of the walk.
LEMMA StatusWalks ==
    ASSUME NEW r \in Runs, run[r].status \in RunStatuses \ TerminalStatuses,
           NEW st \in RunStatuses \ {"completed"},
           Walk!LegalMove(run[r].status, st),
           run'[r].status = st, run'[r].step = run[r].step,
           run'[r].completed = run[r].completed
    PROVE  Strolled(r)
<1>1. Walked(r, {})
  BY DEF Walked
<1> QED
  BY <1>1 DEF Strolled

\* A run that can move and has been started has not ended, or stays as it is.
LEMMA LiveMoves ==
    ASSUME NEW r \in Runs, run[r] \in RunRow, Started(r), NEW st, CanMove(run[r].status, st)
    PROVE  \/ run[r].status = st
           \/ run[r].status \in RunStatuses \ TerminalStatuses
BY DEF RunRow, Started, CanMove, LegalTransitions, TerminalStatuses, RunStatuses

\* A service call works on a started run.
LEMMA JobStarted ==
    ASSUME Base, WalkInv, NEW w \in Workers, workers[w].pc # "idle"
    PROVE  Job(w) \in Runs /\ run[Job(w)] \in RunRow /\ Started(Job(w))
<1>1. /\ Job(w) \in Runs
      /\ workers[w].queue \in Seq(Runs) /\ workers[w].queue # <<>>
  BY JobType DEF Base, DialledStepHasAttempt
<1>2. 1 \in DOMAIN workers[w].queue /\ Job(w) = workers[w].queue[1]
  BY <1>1, EmptySeq, LenProperties DEF Job
<1>3. run[Job(w)] \in RunRow
  BY <1>1, BaseParts DEF StoreOK
<1> QED
  BY <1>1, <1>2, <1>3 DEF WalkInv

\* What advance_run does to the run it works on, and to no other.
LEMMA AdvanceWalks ==
    ASSUME Base, WalkInv, NEW w \in Workers, AdvanceStep(w), NEW r \in Runs
    PROVE  Strolled(r)
<1>0. /\ run \in [Runs -> RunRow]
      /\ run[r] \in RunRow
  BY BaseParts DEF StoreOK
<1>1. CASE run' = run
  BY <1>1 DEF Strolled, Stayed
<1>2. CASE run' # run
  <2>1. workers[w].pc # "idle"
    BY <1>2 DEF AdvanceStep, Prepare, PrepareRejected, PrepareComplete, PrepareWait,
       PrepareEventWait, PrepareScheduledCall, PrepareAttempt, Preparing, Dial,
       DialFails, Bind, BindRejected, Unwind, store
  <2>2. Job(w) \in Runs /\ Started(Job(w))
    BY <2>1, JobStarted
  <2>3. \/ PrepareComplete(w)
        \/ PrepareWait(w) \/ PrepareEventWait(w)
        \/ PrepareScheduledCall(w) \/ PrepareAttempt(w)
        \/ Bind(w) \/ Unwind(w)
    BY <1>2 DEF AdvanceStep, Prepare, PrepareRejected, Dial, DialFails, BindRejected, store
  <2>4. CASE r # Job(w)
    <3>1. run'[r] = run[r]
      BY <1>0, <2>2, <2>3, <2>4
      DEF PrepareComplete, PrepareWait, PrepareEventWait, PrepareScheduledCall,
          PrepareAttempt, Bind, Unwind
    <3> QED
      BY <3>1 DEF Strolled, Stayed
  <2>5. CASE r = Job(w)
    <3>1. ASSUME Preparing(w)
          PROVE  /\ run[r].status \in RunStatuses \ TerminalStatuses
                 /\ Walk!LegalMove(run[r].status, StepStatus(r))
      <4>1. run[r].status \in RunStatuses \ TerminalStatuses
        BY <1>0, <2>2, <2>5, <3>1 DEF Preparing, Terminated, Started, RunRow
      <4>2. CanMove(Begun(r), StepStatus(r))
        BY <2>5, <3>1 DEF Preparing
      <4> QED
        BY <4>1, <4>2, WalkSame DEF Begun
    <3>2. CASE PrepareComplete(w)
      <4>1. /\ run'[r].status = "completed" /\ run'[r].step = run[r].step
            /\ run'[r].completed = run[r].completed \cup {run[r].step}
            /\ StepStatus(r) = "completed" /\ run[r].step \in CompleteSteps
        BY <1>0, <2>5, <3>2 DEF PrepareComplete, StepStatus, Step, RunRow, CompleteSteps
      <4>2. Preparing(w)
        BY <3>2 DEF PrepareComplete
      <4>3. Walked(r, {})
        BY <3>1, <4>1, <4>2 DEF Walked
      <4> QED
        BY <4>3 DEF Strolled
    <3>3. CASE PrepareWait(w) \/ PrepareEventWait(w)
      <4>1. /\ run'[r].status = "waiting" /\ run'[r].step = run[r].step
            /\ run'[r].completed = run[r].completed
            /\ Preparing(w)
            /\ StepStatus(r) = "waiting"
        BY <1>0, <2>5, <3>3 DEF PrepareWait, PrepareEventWait, StepStatus, RunRow
      <4> QED
        BY <3>1, <4>1, StatusWalks DEF RunStatuses
    <3>4. CASE PrepareScheduledCall(w) \/ PrepareAttempt(w)
      <4>1. /\ run'[r].status = Begun(r) /\ run'[r].step = run[r].step
            /\ run'[r].completed = run[r].completed
            /\ Preparing(w)
            /\ StepStatus(r) = Begun(r)
        BY <1>0, <2>5, <3>4 DEF PrepareScheduledCall, PrepareAttempt, StepStatus, RunRow
      <4>2. Begun(r) \in RunStatuses \ {"completed"}
        BY <3>1, <4>1 DEF Begun, RunStatuses, TerminalStatuses
      <4> QED
        BY <3>1, <4>1, <4>2, StatusWalks
    <3>5. CASE Bind(w)
      <4>1. /\ run'[r].status = "waiting" /\ run'[r].step = run[r].step
            /\ run'[r].completed = run[r].completed
            /\ CanMove(run[r].status, "waiting")
        BY <1>0, <2>5, <3>5 DEF Bind, RunRow
      <4>2. run[r].status \in RunStatuses \ TerminalStatuses
        BY <1>0, <2>2, <2>5, <4>1, LiveMoves DEF RunStatuses, TerminalStatuses
      <4> QED
        BY <4>1, <4>2, StatusWalks, WalkSame DEF RunStatuses
    <3>6. CASE Unwind(w)
      <4>1. /\ run'[r].status = "failed" /\ run'[r].step = run[r].step
            /\ run'[r].completed = run[r].completed
            /\ CanMove(run[r].status, "failed")
        BY <1>0, <1>2, <2>5, <3>6 DEF Unwind, RunRow
      <4>2. CASE run[r].status = "failed"
        BY <4>1, <4>2 DEF Strolled, Stayed
      <4>3. CASE run[r].status \in RunStatuses \ TerminalStatuses
        BY <4>1, <4>3, StatusWalks, WalkSame DEF RunStatuses
      <4> QED
        BY <1>0, <2>2, <2>5, <4>1, <4>2, <4>3, LiveMoves
    <3> QED
      BY <2>3, <3>2, <3>3, <3>4, <3>5, <3>6
  <2> QED
    BY <2>4, <2>5
<1> QED
  BY <1>1, <1>2

\* What complete_call_activity does to its run.
LEMMA CompletionWalks ==
    ASSUME Base, WalkInv, NEW q \in Runs, CompleteCallActivity(q), NEW r \in Runs
    PROVE  Strolled(r)
<1>0. /\ run \in [Runs -> RunRow]
      /\ run[r] \in RunRow
  BY BaseParts DEF StoreOK
<1>1. PICK c \in DOMAIN calls, n \in 1 .. MaxAttemptRows, report \in Reports :
        \/ CompleteCallback(q, c, n, report)
        \/ CompleteRetry(q, c, n, report)
        \/ CompleteFailed(q, c, n, report)
        \/ CompleteMoved(q, c, n, report)
  BY DEF CompleteCallActivity
<1>2. CASE r # q
  <2>1. run'[r] = run[r]
    BY <1>0, <1>1, <1>2 DEF CompleteCallback, CompleteRetry, CompleteFailed,
       CompleteMoved, Rescheduled, Moved
  <2> QED
    BY <2>1 DEF Strolled, Stayed
<1>3. CASE r = q
  <2>0. Started(r) /\ run[r].step \in CallSteps
    BY <1>0, <1>1, <1>3 DEF CompleteCallback, CompleteRetry, CompleteFailed,
       CompleteMoved, Completing, Step, CallSteps, RunRow
  <2>1. CASE CompleteCallback(q, c, n, report) \/ CompleteRetry(q, c, n, report)
    <3>1. /\ run'[r].status = "waiting" /\ run'[r].step = run[r].step
          /\ run'[r].completed = run[r].completed
          /\ CanMove(run[r].status, "waiting")
      BY <1>0, <1>3, <2>1 DEF CompleteCallback, CompleteRetry, Rescheduled, RunRow
    <3>2. run[r].status \in RunStatuses \ TerminalStatuses
      BY <1>0, <2>0, <3>1, LiveMoves DEF RunStatuses, TerminalStatuses
    <3> QED
      BY <3>1, <3>2, StatusWalks, WalkSame DEF RunStatuses
  <2>2. CASE CompleteFailed(q, c, n, report)
    <3>1. /\ run'[r].status = "failed" /\ run'[r].step = run[r].step
          /\ run'[r].completed = run[r].completed
          /\ CanMove(run[r].status, "failed")
      BY <1>0, <1>3, <2>2 DEF CompleteFailed, RunRow
    <3>2. CASE run[r].status = "failed"
      BY <3>1, <3>2 DEF Strolled, Stayed
    <3>3. CASE run[r].status \in RunStatuses \ TerminalStatuses
      BY <3>1, <3>3, StatusWalks, WalkSame DEF RunStatuses
    <3> QED
      BY <1>0, <2>0, <3>1, <3>2, <3>3, LiveMoves
  <2>3. CASE CompleteMoved(q, c, n, report)
    <3> DEFINE s == run[r].step
               next == NextStepForCallStatus(s, report)
    <3>1. /\ CanMove(run[r].status, "running")
          /\ HasBranch(s, report)
          /\ run'[r] = [status    |-> IF next \in CompleteSteps THEN "completed" ELSE "running",
                        step      |-> next,
                        completed |-> run[r].completed \cup {s}
                                      \cup (IF next \in CompleteSteps THEN {next} ELSE {}),
                        lastCall  |-> c]
      BY <1>0, <1>3, <2>3 DEF CompleteMoved, Moved
    <3>2. run[r].status \in RunStatuses \ TerminalStatuses
      BY <1>0, <2>0, <3>1, LiveMoves DEF RunStatuses, TerminalStatuses
    <3>3. Walk!LegalMove(run[r].status, run'[r].status)
      BY <3>1, WalkSame
    <3>4. next \in Successors(s)
      BY <2>0, <3>1, SuccessorType
    <3>5. {s} \subseteq Came(r)
      BY DEF WalkInv
    <3>6. /\ run'[r].step = next
          /\ next \in CompleteSteps =>
                /\ run'[r].status = "completed"
                /\ run'[r].completed = run[r].completed \cup {s} \cup {next}
          /\ next \notin CompleteSteps =>
                /\ run'[r].status = "running"
                /\ run'[r].completed = run[r].completed \cup {s}
      BY <3>1
    <3> HIDE DEF next
    <3>7. Walked(r, {s})
      BY <3>2, <3>3, <3>4, <3>5, <3>6 DEF Walked
    <3> QED
      BY <3>5, <3>7 DEF Strolled
  <2> QED
    BY <1>1, <2>1, <2>2, <2>3
<1> QED
  BY <1>2, <1>3

\* A run that has not ended may be set running.
LEMMA WakeMoves ==
    ASSUME NEW r \in Runs, run[r] \in RunRow, Started(r), ~ Terminated(r)
    PROVE  /\ run[r].status \in RunStatuses \ TerminalStatuses
           /\ Walk!LegalMove(run[r].status, "running")
BY WalkSame DEF RunRow, Started, Terminated, CanMove, LegalTransitions, TerminalStatuses,
                RunStatuses

\* What fire_due_timers does to the runs of its batch: each walks over the
\* steps of its timers and on from the one that is due last.
LEMMA TimersWalk ==
    ASSUME Base, WalkInv, NEW w \in Workers, FireDueTimers(w), NEW r \in Runs
    PROVE  Strolled(r)
<1>0. run \in [Runs -> RunRow] /\ run[r] \in RunRow
  BY BaseParts DEF StoreOK
<1>1. PICK batch \in SUBSET DueTimers :
        \E final \in [{k.run : k \in Wakes(batch)} -> Wakes(batch)] :
          /\ \A x \in {k.run : k \in Wakes(batch)} : final[x].run = x
          /\ run' = [x \in Runs |->
               IF x \in {k.run : k \in Wakes(batch)}
               THEN [run[x] EXCEPT
                       !.status = "running",
                       !.step = WakeStep(final[x]),
                       !.completed = @ \cup
                           {k.step : k \in {y \in Wakes(batch) : y.run = x}}]
               ELSE run[x]]
  BY DEF FireDueTimers
<1>2. PICK final \in [{k.run : k \in Wakes(batch)} -> Wakes(batch)] :
        /\ \A x \in {k.run : k \in Wakes(batch)} : final[x].run = x
        /\ run' = [x \in Runs |->
             IF x \in {k.run : k \in Wakes(batch)}
             THEN [run[x] EXCEPT
                     !.status = "running",
                     !.step = WakeStep(final[x]),
                     !.completed = @ \cup
                         {k.step : k \in {y \in Wakes(batch) : y.run = x}}]
             ELSE run[x]]
  BY <1>1
<1>3. CASE r \notin {k.run : k \in Wakes(batch)}
  BY <1>2, <1>3 DEF Strolled, Stayed
<1>4. CASE r \in {k.run : k \in Wakes(batch)}
  <2> DEFINE left == {k.step : k \in {y \in Wakes(batch) : y.run = r}}
             last == final[r]
  <2>1. last \in Wakes(batch) /\ last.run = r
    BY <1>2, <1>4
  <2>2. \A k \in Wakes(batch) : /\ k \in TimerKeys /\ timers[k] = "pending"
                                /\ WakeStep(k) # NoStep /\ ~ Terminated(k.run)
    BY DEF Wakes, DueTimers
  <2>3. Started(r) /\ ~ Terminated(r)
    BY <2>1, <2>2 DEF WalkInv
  <2>4. left \subseteq Came(r)
    BY <2>2 DEF WalkInv
  <2>5. last.step \in left /\ WakeStep(last) \in Successors(last.step)
    BY <2>1, <2>2, WakeFollows
  <2>6. /\ run'[r].status = "running"
        /\ run'[r].step = WakeStep(last)
        /\ run'[r].completed = run[r].completed \cup left
    BY <1>0, <1>2, <1>4 DEF RunRow
  <2> HIDE DEF left, last
  <2>7. Walked(r, left)
    BY <1>0, <2>3, <2>4, <2>5, <2>6, WakeMoves DEF Walked
  <2> QED
    BY <2>4, <2>7 DEF Strolled
<1> QED
  BY <1>3, <1>4

\* What a matched event does to the run it resumes.
LEMMA EventWalks ==
    ASSUME Base, WalkInv, NEW w \in Workers, NEW e \in Events, IngestMatched(w, e),
           NEW r \in Runs
    PROVE  Strolled(r)
<1>0. run \in [Runs -> RunRow] /\ run[r] \in RunRow
  BY BaseParts DEF StoreOK
<1>1. PICK k \in Waiting(e) :
        /\ ~ Terminated(k[1])
        /\ run' = [run EXCEPT ![k[1]].status = "running",
                              ![k[1]].step = Definition[k[2]].next,
                              ![k[1]].completed = @ \cup {k[2]}]
  BY DEF IngestMatched
<1>2. k[1] \in Runs /\ k[2] \in EventSteps /\ subs[k[1]][k[2]].status = "pending"
  BY DEF Waiting, SubKeys
<1>3. CASE r # k[1]
  BY <1>0, <1>1, <1>2, <1>3 DEF Strolled, Stayed
<1>4. CASE r = k[1]
  <2> DEFINE s == k[2]
  <2>1. Started(r) /\ ~ Terminated(r) /\ {s} \subseteq Came(r)
    BY <1>1, <1>2, <1>4 DEF WalkInv
  <2>2. Definition[s].next \in Successors(s)
    BY <1>2, SuccessorType
  <2>3. /\ run'[r].status = "running"
        /\ run'[r].step = Definition[s].next
        /\ run'[r].completed = run[r].completed \cup {s}
    BY <1>0, <1>1, <1>2, <1>4 DEF RunRow
  <2> HIDE DEF s
  <2>4. Walked(r, {s})
    BY <1>0, <2>1, <2>2, <2>3, WakeMoves DEF Walked
  <2> QED
    BY <2>1, <2>4 DEF Strolled
<1> QED
  BY <1>3, <1>4

\* cancel_run, pause_run and resume_run move the status alone.
LEMMA CommandsWalk ==
    ASSUME Base, NEW q \in Runs, NEW r \in Runs,
           CancelRun(q) \/ PauseRun(q) \/ \E w \in Workers : ResumeRun(w, q)
    PROVE  Strolled(r)
<1>0. run \in [Runs -> RunRow] /\ run[r] \in RunRow
  BY BaseParts DEF StoreOK
<1>1. PICK st \in {"cancelled", "paused", "running"} :
        /\ Started(q) /\ CanMove(run[q].status, st)
        /\ run' = [run EXCEPT ![q].status = st]
  BY DEF CancelRun, PauseRun, ResumeRun
<1>2. CASE r # q \/ run[r].status = st
  BY <1>0, <1>1, <1>2 DEF Strolled, Stayed, RunRow
<1>3. CASE r = q /\ run[r].status # st
  <2>1. run[r].status \in RunStatuses \ TerminalStatuses
    BY <1>0, <1>1, <1>3, LiveMoves
  <2>2. run'[r].status = st /\ run'[r].step = run[r].step
        /\ run'[r].completed = run[r].completed
    BY <1>0, <1>1, <1>3 DEF RunRow
  <2> QED
    BY <1>1, <1>3, <2>1, <2>2, StatusWalks, WalkSame DEF RunStatuses
<1> QED
  BY <1>2, <1>3

\* Every step that is not the start of a run is a stroll of all runs.
LEMMA NextWalks ==
    ASSUME Base, WalkInv, [Next]_vars, \A q \in Runs : ~ StartRun(q), NEW r \in Runs
    PROVE  Strolled(r)
<1>1. CASE run' = run
  BY <1>1 DEF Strolled, Stayed
<1>2. ASSUME NEW w \in Workers, Crash(w) \/ (\E q \in Runs : RequestAdvance(w, q))
                                \/ \E e \in Events : IngestUnmatched(w, e)
      PROVE  run' = run
  BY <1>2 DEF Crash, RequestAdvance, IngestUnmatched, store
<1> QED
  BY <1>1, <1>2, AdvanceWalks, CompletionWalks, TimersWalk, EventWalks, CommandsWalk
  DEF Next, vars

-----------------------------------------------------------------------------
(* The invariant *)

\* A stroll keeps what a run has come to, and it stands on such a step.
LEMMA StrollKeeps ==
    ASSUME NEW r \in Runs, run[r].step \in Came(r), Strolled(r)
    PROVE  /\ Came(r) \subseteq Came(r)'
           /\ (run[r].step \in Came(r))'
           /\ Started(r) => run'[r].status # "absent"
<1>1. CASE Stayed(r)
  BY <1>1 DEF Stayed, Came, Started
<1>2. ASSUME NEW left \in SUBSET Came(r), Walked(r, left)
      PROVE  /\ Came(r) \subseteq Came(r)'
             /\ (run[r].step \in Came(r))'
             /\ Started(r) => run'[r].status # "absent"
  <2>1. run[r].completed \cup left \subseteq run'[r].completed
    BY <1>2 DEF Walked
  <2>2. Came(r) \subseteq Came(r)'
    BY <2>1 DEF Came
  <2>3. run'[r].step \in Came(r)'
    <3>1. CASE run'[r].step = run[r].step
      BY <2>2, <3>1
    <3>2. ASSUME NEW s \in left, run'[r].step \in Successors(s)
          PROVE  run'[r].step \in Came(r)'
      BY <2>1, <3>2 DEF Came
    <3> QED
      BY <1>2, <3>1, <3>2 DEF Walked
  <2>4. run'[r].status # "absent"
    BY <1>2, WalkSame DEF Walked, CanMove, LegalTransitions, RunStatuses, TerminalStatuses
  <2> QED
    BY <2>2, <2>3, <2>4 DEF Started
<1> QED
  BY <1>1, <1>2 DEF Strolled

\* A timer is armed for the step its run stands on.
LEMMA TimerOrigin ==
    ASSUME Base, WalkInv, [Next]_vars, NEW k \in TimerKeys, timers'[k] # "absent"
    PROVE  \/ timers[k] # "absent"
           \/ Started(k.run) /\ k.step = run[k.run].step
<1> DEFINE Goal == \/ timers[k] # "absent"
                   \/ Started(k.run) /\ k.step = run[k.run].step
<1>1. ASSUME NEW x \in TimerKeys, timers' = Armed(x), Started(x.run),
             x.step = run[x.run].step
      PROVE  Goal
  BY <1>1, ArmedFrame
<1>2. ASSUME NEW q \in Runs, timers' = TimersCancelled(q) PROVE Goal
  BY <1>2 DEF TimersCancelled
<1>3. ASSUME timers' = timers PROVE Goal
  BY <1>3
<1>4. ASSUME NEW w \in Workers, PrepareWait(w) PROVE Goal
  <2>1. Job(w) \in Runs /\ Started(Job(w))
    BY <1>4, JobStarted DEF PrepareWait, Preparing
  <2>2. WaitKey(Job(w), run[Job(w)].step) \in TimerKeys
    BY <1>4, JobType, KeyType DEF PrepareWait, Preparing, Step, WaitSteps
  <2> QED
    BY <1>1, <1>4, <2>1, <2>2 DEF PrepareWait, WaitKey
<1>5. ASSUME NEW w \in Workers, PrepareEventWait(w) PROVE Goal
  <2>1. Job(w) \in Runs /\ Started(Job(w))
    BY <1>5, JobStarted DEF PrepareEventWait, Preparing
  <2>2. TimeoutKey(Job(w), run[Job(w)].step) \in TimerKeys
    BY <1>5, JobType, KeyType DEF PrepareEventWait, Preparing, Step, EventSteps
  <2> QED
    BY <1>1, <1>3, <1>5, <2>1, <2>2 DEF PrepareEventWait, TimeoutKey
<1>6. ASSUME NEW q \in Runs, CompleteCallActivity(q) PROVE Goal
  <2>1. PICK c \in DOMAIN calls, n \in 1 .. MaxAttemptRows, report \in Reports :
          \/ CompleteCallback(q, c, n, report)
          \/ CompleteRetry(q, c, n, report)
          \/ CompleteFailed(q, c, n, report)
          \/ CompleteMoved(q, c, n, report)
    BY <1>6 DEF CompleteCallActivity
  <2>2. run[q].step \in CallSteps /\ c \in CallIds /\ Started(q)
    BY <2>1, BaseParts, CallNumbers DEF CompleteCallback, CompleteRetry, CompleteFailed,
          CompleteMoved, Completing, StoreOK, RunRow, Step, CallSteps
  <2>3. /\ CallbackKey(q, run[q].step, c) \in TimerKeys
        /\ RetryKey(q, run[q].step, n) \in TimerKeys
    BY <2>2, KeyType
  <2>4. CASE CompleteCallback(q, c, n, report)
    BY <1>1, <2>2, <2>3, <2>4 DEF CompleteCallback, CallbackKey
  <2>5. CASE CompleteRetry(q, c, n, report)
    BY <1>1, <2>2, <2>3, <2>5 DEF CompleteRetry, RetryKey
  <2> QED
    BY <1>3, <2>1, <2>4, <2>5 DEF CompleteFailed, CompleteMoved
<1>7. ASSUME NEW w \in Workers, FireDueTimers(w) PROVE Goal
  <2>1. PICK batch \in SUBSET DueTimers :
          timers' = [x \in TimerKeys |-> IF x \in batch THEN "fired" ELSE timers[x]]
    BY <1>7 DEF FireDueTimers
  <2> QED
    BY <2>1 DEF DueTimers
<1>8. ASSUME NEW w \in Workers, NEW e \in Events, IngestMatched(w, e) PROVE Goal
  <2>1. PICK q \in Runs, x \in EventSteps : Matched(e, q, x)
    BY <1>8, MatchedFrame
  <2> QED
    BY <1>2, <2>1 DEF Matched
<1> QED
  BY <1>2, <1>3, <1>4, <1>5, <1>6, <1>7, <1>8
  DEF Next, vars, store, StartRun, CancelRun, PauseRun, AdvanceStep, Prepare,
      PrepareRejected, PrepareComplete, PrepareAttempt, PrepareScheduledCall, Dial,
      DialFails, Bind, BindRejected, Unwind, Crash, RequestAdvance, ResumeRun,
      IngestUnmatched

\* A subscription is opened for the step its run stands on.
LEMMA SubOrigin ==
    ASSUME Base, WalkInv, [Next]_vars, NEW r \in Runs, NEW s \in EventSteps,
           subs'[r][s].status # "absent"
    PROVE  \/ subs[r][s].status # "absent"
           \/ Started(r) /\ s = run[r].step
<1> DEFINE Goal == \/ subs[r][s].status # "absent"
                   \/ Started(r) /\ s = run[r].step
<1>1. CASE UNCHANGED <<subs, events>>
  BY <1>1
<1>2. ASSUME NEW w \in Workers, PrepareEventWait(w) PROVE Goal
  <2>1. Job(w) \in Runs /\ Started(Job(w)) /\ run[Job(w)].step \in EventSteps
    BY <1>2, JobStarted, JobType DEF PrepareEventWait, Preparing, Step, EventSteps
  <2>2. CASE r = Job(w) /\ s = run[r].step
    BY <2>1, <2>2
  <2>3. CASE ~ (r = Job(w) /\ s = run[r].step)
    <3>1. subs \in [Runs -> [EventSteps -> SubRow]]
      BY BaseParts DEF StoreOK
    <3>2. subs'[r][s] = subs[r][s]
      BY <1>2, <2>1, <2>3, <3>1 DEF PrepareEventWait, Subscribed
    <3> QED
      BY <3>2
  <2> QED
    BY <2>2, <2>3
<1>3. ASSUME NEW w \in Workers, FireDueTimers(w) PROVE Goal
  BY <1>3, TimedOutFrame
<1>4. ASSUME NEW q \in Runs, CancelRun(q) PROVE Goal
  BY <1>4, CancelledFrame
<1>5. ASSUME NEW w \in Workers, NEW e \in Events, IngestUnmatched(w, e) PROVE Goal
  BY <1>5 DEF IngestUnmatched
<1>6. ASSUME NEW w \in Workers, NEW e \in Events, IngestMatched(w, e) PROVE Goal
  <2>1. PICK q \in Runs, x \in EventSteps : Matched(e, q, x)
    BY <1>6, MatchedFrame
  <2> QED
    BY <2>1 DEF Matched
<1> QED
  BY <1>1, <1>2, <1>3, <1>4, <1>5, <1>6, WaitsFrame

QueuesStarted ==
    \A w \in Workers : \A i \in DOMAIN workers[w].queue : Started(workers[w].queue[i])

\* A service call that goes on with started runs keeps the queues so.
LEMMA QueueAdvances ==
    ASSUME Base, WalkInv, \A r \in Runs : Started(r) => run'[r].status # "absent",
           NEW w \in Workers, NEW q \in Seq(Runs),
           \A i \in DOMAIN q : run'[q[i]].status # "absent",
           workers' = [workers EXCEPT ![w] = Advancing(q)]
    PROVE  QueuesStarted'
<1>1. workers \in [Workers -> Worker]
  BY BaseParts DEF WorkersOK
<1>2. Advancing(q).queue \in {q, <<>>}
  BY DEF Advancing, Idle
<1>3. ASSUME NEW v \in Workers, NEW i \in DOMAIN workers'[v].queue
      PROVE  run'[workers'[v].queue[i]].status # "absent"
  <2>1. CASE v = w
    BY <1>1, <1>2, <1>3, <2>1
  <2>2. CASE v # w
    <3>1. workers'[v] = workers[v] /\ workers[v].queue \in Seq(Runs)
      BY <1>1, <2>2 DEF Worker
    <3>2. workers[v].queue[i] \in Runs /\ i \in DOMAIN workers[v].queue
      BY <1>3, <3>1, ElementOfSeq, LenProperties
    <3> QED
      BY <3>1, <3>2 DEF WalkInv, Started
  <2> QED
    BY <2>1, <2>2
<1> QED
  BY <1>3 DEF QueuesStarted, Started

\* So does one that leaves its queue as it is.
LEMMA QueueStays ==
    ASSUME Base, WalkInv, \A r \in Runs : Started(r) => run'[r].status # "absent",
           \A v \in Workers : workers'[v].queue = workers[v].queue
    PROVE  QueuesStarted'
<1>1. workers \in [Workers -> Worker]
  BY BaseParts DEF WorkersOK
<1>2. ASSUME NEW v \in Workers, NEW i \in DOMAIN workers'[v].queue
      PROVE  run'[workers'[v].queue[i]].status # "absent"
  <2>1. workers[v].queue \in Seq(Runs)
    BY <1>1 DEF Worker
  <2>2. workers[v].queue[i] \in Runs /\ i \in DOMAIN workers[v].queue
    BY <1>2, <2>1, ElementOfSeq, LenProperties
  <2> QED
    BY <2>2 DEF WalkInv, Started
<1> QED
  BY <1>2 DEF QueuesStarted, Started

\* Service calls go on working on started runs only.
LEMMA QueuesNext ==
    ASSUME Base, WalkInv, [Next]_vars,
           \A r \in Runs : Started(r) => run'[r].status # "absent"
    PROVE  QueuesStarted'
<1>0. /\ workers \in [Workers -> Worker]
      /\ run \in [Runs -> RunRow]
  BY BaseParts DEF WorkersOK, StoreOK
<1>1. ASSUME NEW w \in Workers, workers' = Advanced(w), workers[w].pc # "idle"
      PROVE  QueuesStarted'
  <2> DEFINE old == workers[w].queue
             q == Tail(old)
  <2>1. old \in Seq(Runs) /\ q \in Seq(Runs) /\ old # <<>>
    BY <1>1, JobType DEF Base, DialledStepHasAttempt
  <2>2. ASSUME NEW i \in DOMAIN q PROVE i + 1 \in DOMAIN old /\ q[i] = old[i + 1]
    BY <2>1, HeadTailProperties, LenProperties, EmptySeq
  <2>3. ASSUME NEW i \in DOMAIN old PROVE old[i] \in Runs
    BY <2>1, ElementOfSeq, LenProperties
  <2>4. \A i \in DOMAIN q : run'[q[i]].status # "absent"
    BY <2>2, <2>3 DEF WalkInv
  <2> QED
    BY <1>1, <2>1, <2>4, QueueAdvances DEF Advanced
<1>2. ASSUME NEW w \in Workers, workers' = Raised(w) PROVE QueuesStarted'
  <2>1. Idle = Advancing(<<>>) /\ <<>> \in Seq(Runs) /\ DOMAIN <<>> = {}
    BY EmptySeq, LenProperties DEF Advancing
  <2> QED
    BY <1>2, <2>1, QueueAdvances DEF Raised
<1>3. ASSUME NEW w \in Workers, NEW r \in Runs, Started(r),
             workers' = [workers EXCEPT ![w] = Advancing(<<r>>)]
      PROVE  QueuesStarted'
  <2>1. <<r>> \in Seq(Runs) /\ DOMAIN <<r>> = {1} /\ <<r>>[1] = r
    OBVIOUS
  <2> QED
    BY <1>3, <2>1, QueueAdvances
<1>4. ASSUME \A v \in Workers : workers'[v].queue = workers[v].queue
      PROVE  QueuesStarted'
  BY <1>4, QueueStays
<1>5. ASSUME NEW w \in Workers, FireDueTimers(w) PROVE QueuesStarted'
  <2>1. PICK batch \in SUBSET DueTimers, n \in 0 .. BatchLimit :
          \E order \in Bijection(1 .. n, Wakes(batch)) :
            workers' = [workers EXCEPT ![w] = Advancing([i \in 1 .. n |-> order[i].run])]
    BY <1>5 DEF FireDueTimers
  <2>2. PICK order \in [1 .. n -> Wakes(batch)] :
            workers' = [workers EXCEPT ![w] = Advancing([i \in 1 .. n |-> order[i].run])]
    BY <2>1 DEF Bijection, Injection, Surjection, IsInjective
  <2> DEFINE q == [i \in 1 .. n |-> order[i].run]
  <2>3. \A i \in 1 .. n : order[i].run \in Runs /\ Started(order[i].run)
    <3>1. \A k \in Wakes(batch) : k \in TimerKeys /\ timers[k] = "pending"
      BY DEF Wakes, DueTimers
    <3> QED
      BY <3>1, WakeType DEF WalkInv
  <2>4. n \in Nat
    BY WorkflowAssumption
  <2>5. q \in Seq(Runs) /\ DOMAIN q = 1 .. n
    BY <2>3, <2>4
  <2>6. \A i \in DOMAIN q : run'[q[i]].status # "absent"
    BY <2>3, <2>5
  <2> HIDE DEF q
  <2>7. workers' = [workers EXCEPT ![w] = Advancing(q)]
    BY <2>2 DEF q
  <2> QED
    BY <2>5, <2>6, <2>7, QueueAdvances
<1>6. ASSUME NEW w \in Workers, NEW e \in Events, IngestMatched(w, e) PROVE QueuesStarted'
  <2>1. PICK k \in Waiting(e) :
           workers' = [workers EXCEPT ![w] = Advancing(<<k[1]>>)]
    BY <1>6 DEF IngestMatched
  <2>2. k[1] \in Runs /\ Started(k[1])
    BY DEF Waiting, SubKeys, WalkInv
  <2> QED
    BY <1>3, <2>1, <2>2
<1>7. ASSUME NEW w \in Workers, AdvanceStep(w) PROVE QueuesStarted'
  <2>1. CASE /\ workers[w].pc # "idle"
             /\ workers' = Advanced(w) \/ workers' = Raised(w)
    BY <1>1, <1>2, <2>1
  <2>2. CASE PrepareAttempt(w) \/ Dial(w) \/ DialFails(w)
    <3>1. CASE PrepareAttempt(w)
      BY <1>0, <1>4, <3>1 DEF PrepareAttempt, Worker
    <3>2. CASE Dial(w)
      BY <1>0, <1>4, <3>2 DEF Dial, Worker
    <3>3. CASE DialFails(w)
      BY <1>0, <1>4, <3>3 DEF DialFails, Worker
    <3> QED
      BY <2>2, <3>1, <3>2, <3>3
  <2> QED
    BY <1>7, <2>1, <2>2
    DEF AdvanceStep, Prepare, PrepareRejected, PrepareComplete, PrepareWait,
        PrepareEventWait, PrepareScheduledCall, Preparing, Bind, BindRejected, Unwind
<1>8. ASSUME NEW q \in Runs, CompleteCallActivity(q) PROVE QueuesStarted'
  BY <1>4, <1>8, CompletionFrame
<1> QED
  BY <1>2, <1>3, <1>4, <1>5, <1>6, <1>7, <1>8
  DEF Next, vars, StartRun, CancelRun, PauseRun, RequestAdvance, ResumeRun, Crash,
      IngestUnmatched

\* Nothing has happened initially.
LEMMA WalkInit == Init => WalkInv
<1> SUFFICES ASSUME Init PROVE WalkInv
  OBVIOUS
<1>1. \A w \in Workers : workers[w].queue = <<>> /\ DOMAIN workers[w].queue = {}
  BY EmptySeq, LenProperties DEF Init, Idle
<1>2. \A r \in Runs : run[r].step \in Came(r)
  BY DEF Init, NoRun, Came
<1>3. \A r \in Runs, s \in EventSteps : subs[r][s].status = "absent"
  BY DEF Init
<1>4. \A k \in TimerKeys : timers[k] = "absent"
  BY DEF Init
<1> QED
  BY <1>1, <1>2, <1>3, <1>4 DEF WalkInv

\* Every step walks, or starts a run, and keeps the invariant.
LEMMA WalkNext ==
    ASSUME Base, WalkInv, [Next]_vars
    PROVE  WalkInv'
<1>1. ASSUME NEW r \in Runs
      PROVE  /\ Came(r) \subseteq Came(r)'
             /\ (run[r].step \in Came(r))'
             /\ Started(r) => run'[r].status # "absent"
  <2>1. CASE \A q \in Runs : ~ StartRun(q)
    BY <2>1, NextWalks, StrollKeeps DEF WalkInv
  <2>2. ASSUME NEW q \in Runs, StartRun(q)
        PROVE  /\ run'[r].step = run[r].step /\ run'[r].completed = run[r].completed
               /\ run'[r].status \in {run[r].status, "pending"}
    BY <2>2, BaseParts DEF StartRun, StoreOK, RunRow
  <2> QED
    BY <2>1, <2>2 DEF WalkInv, Came, Started
<1>2. ASSUME NEW k \in TimerKeys, timers'[k] # "absent"
      PROVE  run'[k.run].status # "absent" /\ (k.step \in Came(k.run))'
  <2>1. k.run \in Runs
    BY WakeType
  <2>2. Started(k.run) /\ k.step \in Came(k.run)
    BY <1>2, <2>1, TimerOrigin DEF WalkInv
  <2> QED
    BY <1>1, <2>1, <2>2
<1>3. ASSUME NEW r \in Runs, NEW s \in EventSteps, subs'[r][s].status # "absent"
      PROVE  run'[r].status # "absent" /\ (s \in Came(r))'
  <2>1. Started(r) /\ s \in Came(r)
    BY <1>3, SubOrigin DEF WalkInv
  <2> QED
    BY <1>1, <2>1
<1>4. QueuesStarted'
  BY <1>1, QueuesNext
<1> QED
  BY <1>1, <1>2, <1>3, <1>4 DEF WalkInv, QueuesStarted, Started

\* What a step looks like to a client.
LEMMA WalkStep ==
    ASSUME Base, Base', WalkInv, [Next]_vars
    PROVE  [Walk!Next]_(Walk!walk)
<1>0. /\ run \in [Runs -> RunRow]
      /\ run' \in [Runs -> RunRow]
  BY BaseParts DEF Base, TypeOK
<1>1. ASSUME NEW q \in Runs, StartRun(q) PROVE Walk!Start(q)
  BY <1>0, <1>1 DEF StartRun, Started, Walk!Start, RunRow
<1>2. CASE \A q \in Runs : ~ StartRun(q)
  <2>1. ASSUME NEW r \in Runs
        PROVE  Walk!Stays(r) \/ \E left \in SUBSET Came(r) : Walk!Walks(r, left)
    <3>1. CASE Stayed(r)
      BY <3>1 DEF Stayed, Walk!Stays
    <3>2. ASSUME NEW left \in SUBSET Came(r), Walked(r, left)
          PROVE  Walk!Walks(r, left)
      BY <3>2, WalkSame DEF Walked, Walk!Walks
    <3> QED
      BY <1>2, <3>1, <3>2, NextWalks DEF Strolled
  <2>3. \A r \in Runs : Walk!Reached([q \in Runs |-> run[q].completed][r]) = Came(r)
    BY WalkSame DEF Walk!Reached, Came
  <2>2. /\ [r \in Runs |-> run'[r].status] \in [Runs -> Walk!RunStatuses \cup {"absent"}]
        /\ [r \in Runs |-> run'[r].step] \in [Runs -> Walk!Steps]
        /\ [r \in Runs |-> run'[r].completed] \in [Runs -> SUBSET Walk!Steps]
    BY <1>0, WalkSame DEF RunRow
  <2> QED
    BY <2>1, <2>2, <2>3 DEF Walk!Next
<1> QED
  BY <1>1, <1>2 DEF Walk!Next

\* Whatever timers, events, reports, retries, crashes and concurrent service
\* calls do, each run walks along the edges of its definition and is left alone
\* once it has ended.
THEOREM RunAlwaysWalks == Spec => RunIsAWalk
<1>1. Spec => []Base
  BY BaseInit, BaseNext, PTL DEF Spec
<1>2. Base /\ WalkInv /\ [Next]_vars => WalkInv'
  BY WalkNext
<1>3. Spec => []WalkInv
  BY <1>1, <1>2, WalkInit, PTL DEF Spec
<1>4. Init => Walk!Init
  BY DEF Init, NoRun, Walk!Init
<1>5. Base /\ Base' /\ WalkInv /\ [Next]_vars => [Walk!Next]_(Walk!walk)
  BY WalkStep
<1> QED
  BY <1>1, <1>3, <1>4, <1>5, PTL DEF Spec, RunIsAWalk, Walk!Spec

=============================================================================
