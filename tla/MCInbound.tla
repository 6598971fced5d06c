------------------------------- MODULE MCInbound -------------------------------
(* An instance of Inbound for TLC. *)
EXTENDS Inbound, TLC

Context(number, language, category) ==
    [number |-> number, language |-> language, category |-> category]

Rule(number, language, category, priority, agent) ==
    [signal |-> Context(number, language, category), priority |-> priority, agent |-> agent]

\* The one edit takes an agent away.  One that is enabled meanwhile serves as if it
\* had been enabled before, and has stood for nothing.
AllEnabled == {[a \in Agents |-> "enabled"]}

\* A caller with every signal, and one to another number without a category.
TwoContexts == {Context("n1", "en", "sales"), Context("n2", "en", Unset)}

ExactAndFallback == {[number |-> "n1", agent |-> "a1"], [number |-> Unset, agent |-> "a2"]}

\* An urgent rule for a language, a specific rule of a lower priority, and a tie
\* with it for another agent.
ThreeRules ==
    {Rule(Unset, "en", Unset, 1, "a1"),
     Rule("n1", Unset, "sales", 0, "a2"),
     Rule(Unset, "en", "sales", 0, "a1")}

\* The provider id of an outbound call without an agent.
OneDialled == {[id |-> "c0", sid |-> "s2", number |-> "n2", agent |-> NoAgent]}

Interchangeable == Permutations(Deliveries)

================================================================================
