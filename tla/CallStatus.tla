------------------------------ MODULE CallStatus ------------------------------
(***************************************************************************)
(* The pure lifecycle rules of a call (calls/lifecycle.py): its statuses,  *)
(* the statuses a provider reports, and which report moves a call.         *)
(***************************************************************************)
EXTENDS Naturals

LiveCallStatuses == {"pending", "queued", "initiated", "ringing", "in-progress"}

TerminalCallStatuses == {"completed", "failed", "busy", "no-answer"}

CallStatuses == LiveCallStatuses \cup TerminalCallStatuses

NonTerminalOrder ==
    [s \in LiveCallStatuses |->
        CASE s = "pending"     -> 0
          [] s = "queued"      -> 1
          [] s = "initiated"   -> 2
          [] s = "ringing"     -> 3
          [] s = "in-progress" -> 4]

\* The statuses a provider may report, in its own words.
ProviderStatuses == (CallStatuses \ {"pending"}) \cup {"answered"}

\* normalize_provider_status, which raises for any other word.
Normalized ==
    [p \in ProviderStatuses |-> IF p = "answered" THEN "in-progress" ELSE p]

\* Mutant: a later report moves a call that has ended.
MovesEndedCall(current, target) ==
    /\ current # target
    /\ \/ target \in TerminalCallStatuses
       \/ /\ current \in LiveCallStatuses
          /\ NonTerminalOrder[current] < NonTerminalOrder[target]

\* resolve_call_transition is not None: the report is neither a duplicate nor
\* stale, and the call has not ended.
MovesCall(current, target) ==
    /\ current # target
    /\ current \notin TerminalCallStatuses
    /\ \/ target \in TerminalCallStatuses
       \/ NonTerminalOrder[current] < NonTerminalOrder[target]

===============================================================================
