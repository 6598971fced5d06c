---------------------------- MODULE WorkflowFlows ----------------------------
(* The workflow definitions of the model-checking runs. *)
EXTENDS WorkflowDefinition

Call(next, busy, max) ==
    [kind |-> "call", next |-> next, busy |-> busy, noAnswer |-> NoStep,
     failed |-> NoStep, callback |-> NoStep, maxAttempts |-> max,
     retryOn |-> {"no-answer"}]

Wait(next) == [kind |-> "wait", next |-> next]

AwaitEvent(next, onTimeout) ==
    [kind |-> "wait_for_event", next |-> next, onTimeout |-> onTimeout,
     topic |-> "payment"]

Complete == [kind |-> "complete"]

\* An event wait whose timeout branch dials, twice when nobody answers; its event
\* leads to a wait.
RaceFlow ==
    [event |-> AwaitEvent("wait", "call"), call |-> Call("done", NoStep, 2),
     wait |-> Wait("done"), done |-> Complete]

\* A call that is repeated after a wait while the customer is busy.
LoopFlow ==
    [call |-> Call("done", "wait", 1), wait |-> Wait("call"), done |-> Complete]

\* A retried call, then a wait, then an event wait with a timeout.
ChainFlow ==
    [call |-> Call("wait", NoStep, 2), wait |-> Wait("event"),
     event |-> AwaitEvent("done", "done"), done |-> Complete]

=============================================================================
