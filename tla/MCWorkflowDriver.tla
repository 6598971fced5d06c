---- MODULE MCWorkflowDriver ----
(* Instances of WorkflowDriver for TLC. *)
EXTENDS WorkflowDriver, WorkflowFlows

PaymentEvents == [e \in Events |-> "payment"]

====
