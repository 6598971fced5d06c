---------------------------- MODULE WorkflowDriver ----------------------------
(***************************************************************************)
(* The workflow runtime under a careful application.  Nothing under src/   *)
(* calls WorkflowService: who advances runs, polls timers and reports      *)
(* calls is the embedding application, modelled from the way the           *)
(* integration tests drive the service.  It advances a run only when the   *)
(* run is pending or running and no service call has it in hand, and it    *)
(* neither pauses nor cancels.  Processes may still die, a bounded number  *)
(* of times.                                                               *)
(***************************************************************************)
EXTENDS Workflow

CONSTANT MaxCrashes  \* bound: crashes of a service call

VARIABLE crashes     \* how many there were

driverVars == <<vars, crashes>>

ASSUME DriverAssumption == MaxCrashes \in Nat

\* No service call has run r in hand.
Unattended(r) ==
    \A w \in Workers : \A i \in DOMAIN workers[w].queue : workers[w].queue[i] # r

DriveRun(w, r) ==
    /\ run[r].status \in {"pending", "running"}
    /\ Unattended(r)
    /\ RequestAdvance(w, r)
    /\ UNCHANGED crashes

Report(r)     == CompleteCallActivity(r) /\ UNCHANGED crashes
Proceed(w)    == AdvanceStep(w) /\ UNCHANGED crashes
PollTimers(w) == FireDueTimers(w) /\ UNCHANGED crashes

Receive(w, e) ==
    /\ IngestMatched(w, e) \/ IngestUnmatched(w, e)
    /\ UNCHANGED crashes

Begin(r) == StartRun(r) /\ UNCHANGED crashes

Die(w) ==
    /\ crashes < MaxCrashes
    /\ Crash(w)
    /\ crashes' = crashes + 1

DriverInit == Init /\ crashes = 0

DriverNext ==
    \/ \E r \in Runs : Begin(r) \/ Report(r)
    \/ \E w \in Workers :
          \/ Proceed(w)
          \/ PollTimers(w)
          \/ Die(w)
          \/ \E r \in Runs : DriveRun(w, r)
          \/ \E e \in Events : Receive(w, e)

\* The application polls: a run that can be advanced is, due timers are fired,
\* every recorded call is eventually reported; a service call proceeds.
DriverFairness ==
    /\ \A w \in Workers : WF_driverVars(Proceed(w))
    /\ \A r \in Runs :
          /\ WF_driverVars(Report(r))
          /\ WF_driverVars(\E w \in Workers : DriveRun(w, r))
    /\ WF_driverVars(\E w \in Workers : PollTimers(w))

DriverSpec == DriverInit /\ [][DriverNext]_driverVars /\ DriverFairness

-----------------------------------------------------------------------------
(* Properties *)

\* A run that waits has what will wake it: the open subscription, the pending
\* timer or the scheduled call of the step it stands on.  Wake-ups are armed
\* and consumed by different calls, with crashes between their transactions.
WaitingRunHasWaker ==
    \A r \in Runs : run[r].status = "waiting" =>
        LET s == run[r].step IN
        \/ s \in EventSteps /\ subs[r][s].status = "pending"
        \/ s \in WaitSteps /\ timers[WaitKey(r, s)] = "pending"
        \/ s \in CallSteps /\
             \/ \E n \in DOMAIN attempts[r][s] : attempts[r][s][n].status = "scheduled"
             \/ \E k \in TimerKeys :
                   /\ k.run = r /\ k.step = s
                   /\ k.kind \in {"retry", "callback"}
                   /\ timers[k] = "pending"

\* The retry policy bounds the calls placed for a call activity, also those the
\* provider took although the request failed; a crash between dialling and
\* recording the call costs at most one call more.  It speaks of definitions
\* whose steps do not lead back to a call they have left: a callback that returns
\* to its own call dials it once more each time.
RetryPolicyBoundsCalls ==
    \A r \in Runs, s \in CallSteps :
        Cardinality(CallsOf(r, s)) <= Definition[s].maxAttempts + crashes

\* A call no attempt knows: its completion cannot be matched.
Untracked ==
    {c \in DOMAIN calls :
        /\ \A n \in DOMAIN attempts[calls[c].run][calls[c].step] :
              attempts[calls[c].run][calls[c].step][n].call # c
        /\ \A w \in Workers :
              ~ (workers[w].pc = "bind" /\ workers[w].call = c)}

\* The telephony request of the run failed: it is being recorded as the end of
\* the run, or has been.
GivenUp(r) ==
    \/ \E w \in Workers : workers[w].pc = "unwind" /\ Job(w) = r
    \/ /\ run[r].status = "failed"
       /\ \E s \in CallSteps : \E n \in DOMAIN attempts[r][s] :
             attempts[r][s][n].status = "failed"

\* The runs that were given up and have a call they do not know.
RunsGivenUp ==
    {calls[c].run : c \in {d \in Untracked : GivenUp(calls[d].run)}}

\* The runtime loses track of a call in two ways only: a service call dies between
\* its transactions, or the provider took a call whose request failed, and that
\* ends the run.  A crash loses one call at most and so does a run given up; while
\* no process dies, every other run knows all the calls it has placed.
LostCallsAreAccountedFor ==
    Cardinality(Untracked) <= crashes + Cardinality(RunsGivenUp)

\* Every run that is started ends, or sleeps on an event that has not come and
\* has no timeout.  An error of one run drops the others of its batch in
\* fire_due_timers, and a crash all of them; no wake-up is lost for good.
StartedRunSettles ==
    \A r \in Runs :
        Started(r) ~> \/ Terminated(r)
                      \/ /\ run[r].status = "waiting"
                         /\ run[r].step \in EventSteps
                         /\ subs[r][run[r].step].status = "pending"
                         /\ Step(r).onTimeout = NoStep

=============================================================================
