------------------------------- MODULE Transfers -------------------------------
(***************************************************************************)
(* Transfers of live calls to another agent or to a human                  *)
(* (calls/transfers.py), over the media sessions they change.              *)
(*                                                                         *)
(* A handler is a request or a provider callback that is being served.     *)
(* Between its transactions it keeps what it read: the session it found,   *)
(* the outcome it will record.  A transaction is one step where it locks   *)
(* the call's row before it reads what it depends on, two where it reads   *)
(* without a lock and writes later.                                        *)
(***************************************************************************)
EXTENDS MediaSessions

CONSTANTS
    Handlers,    \* requests and callbacks served at once
    Keys,        \* idempotency keys of requests
    NoTarget     \* a target_agent_id that is None

VARIABLES
    transfer,    \* call_transfers, by call and idempotency key
    handler,     \* where each handler stands
    made         \* how often each transfer was carried out

ASSUME TransferAssumption ==
    /\ NoTarget \notin Agents
    /\ Free \notin Handlers

vars == <<mediaVars, transfer, handler, made>>

-----------------------------------------------------------------------------
(* Rows and handlers *)

NoTransfer == [status |-> "absent", target |-> NoTarget]

\* The target of a human transfer is a number, not an agent.
Pending(target) == [status |-> "pending", target |-> target]

Settled(status) == status \in {"completed", "failed"}

Idle == [at |-> "idle"]

RowOf(h) == transfer[handler[h].call][handler[h].key]

Goes(h, at)   == handler' = [handler EXCEPT ![h].at = at]
Returns(h)    == handler' = [handler EXCEPT ![h] = Idle]

\* The handler goes on to _finish with an outcome.
Finishes(h, outcome) ==
    handler' = [handler EXCEPT ![h].at = "finishing", ![h].outcome = outcome]

\* Mutant: what fails is recorded like what succeeds.
FailsQuietly(h) == Goes(h, "recording")

FailsWith(h) == Finishes(h, "failed")

CarriedOut(h) == made' = [made EXCEPT ![handler[h].call][handler[h].key] = @ + 1]

Init ==
    /\ MediaInit
    /\ transfer = [c \in Calls |-> [k \in Keys |-> NoTransfer]]
    /\ handler = [h \in Handlers |-> Idle]
    /\ made = [c \in Calls |-> [k \in Keys |-> 0]]

-----------------------------------------------------------------------------
(* transfer_to_agent and transfer_to_human, up to the pending row *)

\* A request finds the active session of the call and, before and after that,
\* no row with its key; it has locked nothing yet.  Any other request returns
\* the row it finds or raises, and changes nothing.
Requests(h, c, k, target) ==
    /\ handler[h] = Idle
    /\ transfer[c][k] = NoTransfer
    /\ streamOf[c] # NoSocket
    /\ handler' = [handler EXCEPT ![h] =
                      [at |-> "checked", call |-> c, key |-> k, target |-> target,
                       session |-> streamOf[c], outcome |-> "none"]]
    /\ UNCHANGED <<mediaVars, transfer, made>>

\* Mutant: call and key are not unique.
InsertableAnew(h) == TRUE

\* uq_call_transfer_idempotency lets the row in.
Insertable(h) == RowOf(h) = NoTransfer

\* An agent is transferred to whatever the status, a human only before the
\* call has ended.
Inserts(h) ==
    /\ handler[h].at = "checked"
    /\ Insertable(h)
    /\ handler[h].target = NoTarget => handler[h].call \notin ended
    /\ transfer' = [transfer EXCEPT ![handler[h].call][handler[h].key] =
                       Pending(handler[h].target)]
    /\ Goes(h, "acting")
    /\ UNCHANGED <<mediaVars, made>>

\* The key was taken meanwhile, the agent is not selectable or the call ended.
InsertFails(h) ==
    /\ handler[h].at = "checked"
    /\ Returns(h)
    /\ UNCHANGED <<mediaVars, transfer, made>>

-----------------------------------------------------------------------------
(* To an agent: ActiveCallSession.transfer_to *)

Unlocked(h) == session[handler[h].session].lock = Free

\* Mutant: the check is made before the lock is taken.
LocksEarly(h) == TRUE

\* The session's _transfer_lock is free.
Locks(h) == Unlocked(h)

\* The session is still open and the target has not spoken in it.
Acceptable(h) ==
    /\ session[handler[h].session].stage = "live"
    /\ handler[h].target \notin Range(session[handler[h].session].spoken)

TransferLocks(h) ==
    /\ handler[h].at = "acting"
    /\ handler[h].target # NoTarget
    /\ Locks(h)
    /\ Acceptable(h)
    /\ session' = [session EXCEPT ![handler[h].session].lock = h]
    /\ Goes(h, "swapping")
    /\ UNCHANGED <<agentOf, ended, socket, byStream, streamOf, restarts, transfer, made>>

TransferRefused(h) ==
    /\ handler[h].at = "acting"
    /\ handler[h].target # NoTarget
    /\ Locks(h)
    /\ ~Acceptable(h)
    /\ FailsWith(h)
    /\ UNCHANGED <<mediaVars, transfer, made>>

\* reconfigure returns.  It asks only at its start whether the conversation is
\* closed, so a session that closes or has closed meanwhile lets it through.
Swaps(h) ==
    LET s == handler[h].session IN
    /\ handler[h].at = "swapping"
    /\ session' = [session EXCEPT ![s].spoken = Append(@, handler[h].target),
                                  ![s].lock = Free]
    /\ CarriedOut(h)
    /\ Goes(h, "recording")
    /\ UNCHANGED <<agentOf, ended, socket, byStream, streamOf, restarts, transfer>>

\* Mutant: the lock is not released by an exception.
KeepsLock(h) == UNCHANGED session

ReleasesLock(h) == session' = [session EXCEPT ![handler[h].session].lock = Free]

\* reconfigure raises: the conversation is closed or an append failed.
SwapFails(h) ==
    /\ handler[h].at = "swapping"
    /\ ReleasesLock(h)
    /\ FailsWith(h)
    /\ UNCHANGED <<agentOf, ended, socket, byStream, streamOf, restarts, transfer, made>>

\* The last transaction of transfer_to_agent, under the lock of the call's row.
Records(h) ==
    /\ handler[h].at = "recording"
    /\ agentOf' = [agentOf EXCEPT ![handler[h].call] = handler[h].target]
    /\ transfer' = [transfer EXCEPT ![handler[h].call][handler[h].key].status = "completed"]
    /\ Returns(h)
    /\ UNCHANGED <<ended, socket, session, byStream, streamOf, restarts, made>>

-----------------------------------------------------------------------------
(* To a human *)

\* transfer_call returns.
DialReturns(h) ==
    /\ handler[h].at = "acting"
    /\ handler[h].target = NoTarget
    /\ CarriedOut(h)
    /\ Finishes(h, "accepted")
    /\ UNCHANGED <<mediaVars, transfer>>

\* transfer_call raises; the provider may have carried it out all the same.
DialRaises(h) ==
    /\ handler[h].at = "acting"
    /\ handler[h].target = NoTarget
    /\ CarriedOut(h) \/ UNCHANGED made
    /\ Finishes(h, "failed")
    /\ UNCHANGED <<mediaVars, transfer>>

\* apply_human_status: the provider reports the end of a human transfer.
ProviderReports(h, c, k, outcome) ==
    /\ handler[h] = Idle
    /\ transfer[c][k].target = NoTarget
    /\ made[c][k] > 0
    /\ handler' = [handler EXCEPT ![h] =
                      [at |-> "finishing", call |-> c, key |-> k, target |-> NoTarget,
                       session |-> NoSocket, outcome |-> outcome]]
    /\ UNCHANGED <<mediaVars, transfer, made>>

-----------------------------------------------------------------------------
(* _finish: it reads the row, and writes it without having locked it *)

\* Mutant: the media is closed whatever the outcome.
ClosesAlways(h) == handler[h].session # NoSocket /\ handler[h].target = NoTarget

\* Only an accepted human transfer goes on to close the AI session.
ClosesMedia(h) == handler[h].outcome = "accepted"

Finished(h) == IF ClosesMedia(h) THEN Goes(h, "handing") ELSE Returns(h)

FinishReads(h) ==
    /\ handler[h].at = "finishing"
    /\ IF Settled(RowOf(h).status) THEN Finished(h) ELSE Goes(h, "writing")
    /\ UNCHANGED <<mediaVars, transfer, made>>

FinishWrites(h) ==
    /\ handler[h].at = "writing"
    /\ transfer' = [transfer EXCEPT ![handler[h].call][handler[h].key].status =
                       handler[h].outcome]
    /\ Finished(h)
    /\ UNCHANGED <<mediaVars, made>>

\* registry.close, which does nothing if the session is not registered any more.
HandsOver(h) ==
    LET s == handler[h].session IN
    /\ handler[h].at = "handing"
    /\ IF s \in byStream
       THEN Deregistered(s)
       ELSE UNCHANGED <<session, byStream, streamOf>>
    /\ Returns(h)
    /\ UNCHANGED <<agentOf, ended, socket, restarts, transfer, made>>

-----------------------------------------------------------------------------
MediaActs == MediaStep /\ UNCHANGED <<transfer, handler, made>>

Restart ==
    /\ MemoryLost
    /\ handler' = [h \in Handlers |-> Idle]
    /\ UNCHANGED <<transfer, made>>

HandlerStep(h) ==
    \/ Inserts(h)
    \/ InsertFails(h)
    \/ TransferLocks(h)
    \/ TransferRefused(h)
    \/ Swaps(h)
    \/ SwapFails(h)
    \/ Records(h)
    \/ DialReturns(h)
    \/ DialRaises(h)
    \/ FinishReads(h)
    \/ FinishWrites(h)
    \/ HandsOver(h)

Next ==
    \/ MediaActs
    \/ Restart
    \/ \E h \in Handlers :
          \/ HandlerStep(h)
          \/ \E c \in Calls, k \in Keys :
                \/ \E target \in Agents \cup {NoTarget} : Requests(h, c, k, target)
                \/ \E outcome \in {"completed", "failed"} : ProviderReports(h, c, k, outcome)

Spec == Init /\ [][Next]_vars

-----------------------------------------------------------------------------
(* Properties *)

Rows ==
    [status : {"absent", "pending", "accepted", "completed", "failed"},
     target : Agents \cup {NoTarget}]

HandlerRecords ==
    [at      : {"checked", "acting", "swapping", "recording", "finishing", "writing",
                "handing"},
     call    : Calls,
     key     : Keys,
     target  : Agents \cup {NoTarget},
     session : Sockets \cup {NoSocket},
     outcome : {"none", "accepted", "completed", "failed"}]

TypeOK ==
    /\ MediaTypeOK(Handlers)
    /\ transfer \in [Calls -> [Keys -> Rows]]
    /\ handler \in [Handlers -> HandlerRecords \cup {Idle}]
    /\ made \in [Calls -> [Keys -> Nat]]

\* A transfer is carried out once per idempotency key, however many requests
\* with the key are served at the same time or again after a restart.
TransferIsMadeOnce == \A c \in Calls, k \in Keys : made[c][k] <= 1

\* The record of an agent transfer tells the truth: completed transfers have
\* reconfigured the conversation, failed ones have not.
AgentTransferIsToldTruly ==
    \A c \in Calls, k \in Keys : transfer[c][k].target # NoTarget =>
        /\ transfer[c][k].status = "completed" => made[c][k] = 1
        /\ transfer[c][k].status = "failed" => made[c][k] = 0

\* "human transfer closes ai only after provider acceptance"
\* (tests/integration/calls/test_transfers.py): a session that ends under its
\* socket has been handed over by the provider.
MediaClosesOnAcceptance ==
    \A s \in Sockets :
        socket[s].at = "streaming" /\ session[s].stage # "live" =>
            \E k \in Keys : /\ transfer[socket[s].call][k].target = NoTarget
                            /\ made[socket[s].call][k] > 0

\* A session's transfer lock is held by a transfer that is being served, which
\* releases it whatever reconfigure meets: no later transfer waits for ever.
TransferLockIsServed ==
    \A s \in Sockets : session[s].lock # Free =>
        /\ handler[session[s].lock].at = "swapping"
        /\ handler[session[s].lock].session = s

\* Refuted: "Mark a transfer terminal or accepted while making repeats
\* idempotent" (calls/transfers.py).  The acceptance that _finish has decided
\* to write replaces the final status a callback has written meanwhile.
SettledTransferIsFinal ==
    [][\A c \in Calls, k \in Keys :
          Settled(transfer[c][k].status) => transfer'[c][k] = transfer[c][k]]_vars

================================================================================
