------------------------------ MODULE RunStatus ------------------------------
(***************************************************************************)
(* The pure lifecycle rules of a workflow run (workflows/state.py): its    *)
(* statuses, the terminal ones, and the edges the state machine allows.    *)
(***************************************************************************)

RunStatuses ==
    {"pending", "running", "waiting", "paused",
     "completed", "failed", "cancelled"}

TerminalStatuses == {"completed", "failed", "cancelled"}

LegalTransitions ==
    [s \in RunStatuses |->
        CASE s = "pending" -> {"running", "paused", "cancelled", "failed"}
          [] s \in {"running", "waiting"} ->
                 {"running", "waiting", "paused",
                  "completed", "failed", "cancelled"} \ {s}
          [] s = "paused" -> {"running", "cancelled"}
          [] OTHER -> {}]

\* resolve_workflow_transition returns normally: the move is legal, or it is
\* the idempotent one to the status the run has already.
CanMove(current, target) ==
    \/ current = target
    \/ target \in LegalTransitions[current]

==============================================================================
