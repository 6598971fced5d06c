-------------------------------- MODULE RunWalk --------------------------------
(***************************************************************************)
(* What a workflow run promises to whoever started it, without timers,     *)
(* subscriptions, attempts, calls or processes: it walks along the edges   *)
(* of its definition.  It never stands on a step that no completed step    *)
(* leads to, its status moves along the edges of the state machine, a      *)
(* completed run stands on a complete step, and a run that has ended stays *)
(* as it is.  The walk may go back to a step that was reached before: the  *)
(* timer of an earlier step may fire late.                                 *)
(***************************************************************************)
EXTENDS RunStatus, WorkflowDefinition

CONSTANT Runs     \* run ids

VARIABLES
    status,       \* the status of each run, "absent" before it is started
    step,         \* the step it stands on
    done          \* the steps it has recorded as completed

walk == <<status, step, done>>

\* The steps a run that has completed "steps" may have come to.
Reached(steps) == {InitialStep} \cup UNION {Successors(s) : s \in steps}

Init ==
    /\ status = [r \in Runs |-> "absent"]
    /\ step = [r \in Runs |-> InitialStep]
    /\ done = [r \in Runs |-> {}]

Start(r) ==
    /\ status[r] = "absent"
    /\ status' = [status EXCEPT ![r] = "pending"]
    /\ UNCHANGED <<step, done>>

\* One legal move, or two when a step is begun or left and ended at once.
LegalMove(from, to) ==
    \/ CanMove(from, to)
    \/ from = "pending" /\ CanMove("running", to)
    \/ to = "completed" /\ CanMove(from, "running")

\* A run that has not ended completes the steps in "left", which it has reached,
\* and stands where it stood or on a successor of one of them.
Walks(r, left) ==
    /\ status[r] \in RunStatuses \ TerminalStatuses
    /\ LegalMove(status[r], status'[r])
    /\ \/ step'[r] = step[r]
       \/ \E s \in left : step'[r] \in Successors(s)
    /\ \/ status'[r] # "completed" /\ done'[r] = done[r] \cup left
       \/ /\ status'[r] = "completed"
          /\ step'[r] \in CompleteSteps
          /\ done'[r] = done[r] \cup left \cup {step'[r]}

Stays(r) ==
    /\ status'[r] = status[r]
    /\ step'[r] = step[r]
    /\ done'[r] = done[r]

\* Several runs walk in one step when their timers fire in one batch.
Next ==
    \/ \E r \in Runs : Start(r)
    \/ /\ status' \in [Runs -> RunStatuses \cup {"absent"}]
       /\ step' \in [Runs -> Steps]
       /\ done' \in [Runs -> SUBSET Steps]
       /\ \A r \in Runs : Stays(r) \/ \E left \in SUBSET Reached(done[r]) : Walks(r, left)

Spec == Init /\ [][Next]_walk

================================================================================
