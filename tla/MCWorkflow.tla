------------------------------ MODULE MCWorkflow ------------------------------
(* Instances of Workflow for TLC. *)
EXTENDS Workflow, WorkflowFlows, TLC

PaymentEvents == [e \in Events |-> "payment"]

\* Service calls, runs and events are interchangeable.
Interchangeable == Permutations(Workers) \cup Permutations(Runs) \cup Permutations(Events)

=============================================================================
