------------------------------ MODULE CallRecord ------------------------------
(***************************************************************************)
(* What the record of a call promises to its readers, without provider     *)
(* ids, idempotency keys, transactions, locks or restarts: a status that   *)
(* only moves forward, and a log that grows by one entry at a time.  A     *)
(* change of status and its entry are one step; an entry that names a      *)
(* status names the one the call has at that point of the log.             *)
(***************************************************************************)
EXTENDS CallStatus, Sequences

CONSTANTS
    Calls,        \* call ids
    NoStatus      \* an entry that names no status

VARIABLES
    status,       \* of each call, "absent" before it is requested
    log           \* the statuses named by the entries, oldest first

record == <<status, log>>

Init ==
    /\ status = [c \in Calls |-> "absent"]
    /\ log = [c \in Calls |-> <<>>]

Logs(c, entry) == log' = [log EXCEPT ![c] = Append(@, entry)]

\* The call is requested.
Open(c) ==
    /\ status[c] = "absent"
    /\ status' = [status EXCEPT ![c] = "pending"]
    /\ Logs(c, NoStatus)

\* The call advances; nothing moves a call that has ended.
Advance(c, to) ==
    /\ status[c] \in LiveCallStatuses
    /\ to \in LiveCallStatuses => NonTerminalOrder[status[c]] < NonTerminalOrder[to]
    /\ status' = [status EXCEPT ![c] = to]
    /\ Logs(c, to)

\* The provider has accepted a call that has gone on meanwhile.
Confirm(c) ==
    /\ status[c] \in CallStatuses \ {"pending"}
    /\ Logs(c, status[c])
    /\ UNCHANGED status

\* The request to the provider has failed: so has the call, whatever was known
\* of it.
Refuse(c) ==
    /\ status[c] # "absent"
    /\ status' = [status EXCEPT ![c] = "failed"]
    /\ Logs(c, "failed")

\* The conversation adds an entry.
Note(c) ==
    /\ status[c] # "absent"
    /\ Logs(c, NoStatus)
    /\ UNCHANGED status

Next ==
    \E c \in Calls :
        \/ Open(c)
        \/ \E to \in CallStatuses : Advance(c, to)
        \/ Confirm(c)
        \/ Refuse(c)
        \/ Note(c)

Spec == Init /\ [][Next]_record

===============================================================================
