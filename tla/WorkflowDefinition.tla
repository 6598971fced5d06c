-------------------------- MODULE WorkflowDefinition --------------------------
(***************************************************************************)
(* A validated workflow definition (workflows/definition.py): a graph of   *)
(* steps, each a call activity, a durable wait, an external-event wait or  *)
(* the completion of the run.  Steps are names; agents, numbers, delays    *)
(* and correlation strings are abstracted away.                            *)
(***************************************************************************)
EXTENDS Naturals, CallStatus

CONSTANTS
    Definition,   \* step id -> step record, the definition snapshot of a run
    InitialStep,  \* initial_step_id
    NoStep,       \* an optional step id that is None
    Topics        \* (event_type, correlation_key) pairs

Steps == DOMAIN Definition

CallSteps     == {s \in Steps : Definition[s].kind = "call"}
WaitSteps     == {s \in Steps : Definition[s].kind = "wait"}
EventSteps    == {s \in Steps : Definition[s].kind = "wait_for_event"}
CompleteSteps == {s \in Steps : Definition[s].kind = "complete"}

\* What the pydantic validators of definition.py enforce.  An optional branch
\* may be NoStep; the timeout of an event wait exists iff its branch does, so
\* onTimeout stands for both.  Graphs may be cyclic.
ASSUME DefinitionAssumption ==
    /\ NoStep \notin Steps
    /\ InitialStep \in Steps
    /\ CompleteSteps # {}
    /\ Steps = CallSteps \cup WaitSteps \cup EventSteps \cup CompleteSteps
    /\ \A s \in CallSteps :
          /\ Definition[s].next \in Steps
          /\ Definition[s].busy \in Steps \cup {NoStep}
          /\ Definition[s].noAnswer \in Steps \cup {NoStep}
          /\ Definition[s].failed \in Steps \cup {NoStep}
          /\ Definition[s].callback \in Steps \cup {NoStep}
          /\ Definition[s].maxAttempts \in 1 .. 20
          /\ Definition[s].retryOn \subseteq {"busy", "no-answer", "failed"}
    /\ \A s \in WaitSteps : Definition[s].next \in Steps
    /\ \A s \in EventSteps :
          /\ Definition[s].next \in Steps
          /\ Definition[s].onTimeout \in Steps \cup {NoStep}
          /\ Definition[s].topic \in Topics

\* _next_step_for_call_status: the branch taken once no retry is due.
NextStepForCallStatus(s, callStatus) ==
    CASE callStatus \in {"completed", "in-progress"} -> Definition[s].next
      [] callStatus = "busy"      -> Definition[s].busy
      [] callStatus = "no-answer" -> Definition[s].noAnswer
      [] callStatus = "failed"    -> Definition[s].failed
      [] OTHER -> NoStep

\* Mutant: the last attempt is retried once more.
RetryDueOffByOne(s, callStatus, n) ==
    /\ callStatus \in Definition[s].retryOn
    /\ n <= Definition[s].maxAttempts

\* _retry_due_at is not None: attempt number n of s is followed by a retry.
RetryDue(s, callStatus, n) ==
    /\ callStatus \in Definition[s].retryOn
    /\ n < Definition[s].maxAttempts

\* The steps that may follow s: its branches, and a call itself when it is
\* repeated.
Successors(s) ==
    CASE Definition[s].kind = "call" ->
             {s, Definition[s].next, Definition[s].busy, Definition[s].noAnswer,
              Definition[s].failed, Definition[s].callback} \ {NoStep}
      [] Definition[s].kind = "wait" -> {Definition[s].next}
      [] Definition[s].kind = "wait_for_event" ->
             {Definition[s].next, Definition[s].onTimeout} \ {NoStep}
      [] OTHER -> {}

\* The step a requested callback wakes: the callback branch or the call itself.
CallbackStep(s) ==
    IF Definition[s].callback = NoStep THEN s ELSE Definition[s].callback

==============================================================================
