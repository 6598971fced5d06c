---------------------------- MODULE CallLifecycle -----------------------------
(***************************************************************************)
(* Outbound calls: calls/outbound.py, calls/lifecycle_service.py,          *)
(* calls/repository.py, and the events they append with those of the live  *)
(* conversation (events/sink.py).                                          *)
(*                                                                         *)
(* Three parties write: the initiating request (a transaction, the         *)
(* provider's API, a second transaction), the status callbacks of the      *)
(* provider, and the sinks of the conversation.  The first two lock the    *)
(* row of the call, so there is one such transaction per call; a sink      *)
(* takes no lock.  A transaction is two steps, because a sink may read the *)
(* ledger between what the transaction reads and what it inserts: Begin..  *)
(* evaluates the handler and keeps what it will write, Commit writes it.   *)
(*                                                                         *)
(* The provider is external: it places a call, possibly without the        *)
(* initiator learning of it, and reports statuses that arrive in any       *)
(* order, any number of times or never, and perhaps at the address of      *)
(* another call.                                                           *)
(***************************************************************************)
EXTENDS CallStatus, EventLedger, FiniteSets

CONSTANTS
    Calls,            \* call ids; the provider's id of a call is its call id
    ForeignSids,      \* provider ids of calls that are not in the database
    NoSid,            \* a provider_call_id that is None
    Sinks,            \* conversation appends that may be in flight at once
    Reports,          \* statuses the provider may report, known or not
    NoTx,             \* no transaction holds the row
    Idle,             \* a sink with no append in flight
    MaxConversation,  \* bound: rows the conversation appends to one ledger
    MaxCrashes        \* bound: restarts of the server

VARIABLES
    row,         \* calls: status, provider_call_id, failure_code is not None
    ledger,      \* events, by call
    initiation,  \* where initiate_call of each call stands
    tx,          \* the transaction holding the lock of each call's row
    sink,        \* conversation appends between their read and their insert
    placed,      \* calls the provider has placed
    reported,    \* statuses the provider has reported, by call
    crashes

vars == <<row, ledger, initiation, tx, sink, placed, reported, crashes>>

-----------------------------------------------------------------------------
(* Rows, keys and transactions *)

Sids == Calls \cup ForeignSids

CallRow == [status : CallStatuses \cup {"absent"},
            sid    : Sids \cup {NoSid},
            failed : BOOLEAN]

Keys ==
    [kind : {"requested", "initiation_failed"}] \cup
    [kind : {"queued"}, sid : Sids] \cup
    [kind : {"status"}, sid : Sids, report : ProviderStatuses]

Event == [sequence : Nat \ {0}, key : Keys \cup {NoKey}, status : CallStatuses \cup {NoStatus}]

\* What a transaction will write, and what an append of the conversation will.
Transactions == [by : {"initiator", "callback"}, row : CallRow, events : SUBSET Event]
Appends      == [call : Calls, event : Event]

ASSUME CallAssumption ==
    /\ Calls \cap ForeignSids = {}
    /\ NoSid \notin Sids
    /\ NoStatus \notin CallStatuses
    /\ NoKey \notin Keys
    /\ NoTx \notin Transactions
    /\ Idle \notin Appends
    /\ MaxConversation \in Nat
    /\ MaxCrashes \in Nat

Absent == [status |-> "absent", sid |-> NoSid, failed |-> FALSE]

RequestedKey      == [kind |-> "requested"]
RefusedKey        == [kind |-> "initiation_failed"]
QueuedKey(sid)    == [kind |-> "queued", sid |-> sid]

\* Mutant: the key of a callback does not name the status.
StatusKeyOfCall(sid, p) == QueuedKey(sid)

StatusKey(sid, p) == [kind |-> "status", sid |-> sid, report |-> p]

Exists(c) == row[c].status # "absent"
Locked(c) == tx[c] # NoTx

\* The unique constraint of provider_call_id; a transaction that would take an
\* id another one is about to commit waits for it.
SidFree(c, sid) ==
    \A d \in Calls \ {c} : row[d].sid # sid /\ (Locked(d) => tx[d].row.sid # sid)

\* bind_provider_call_id does not raise.
Binds(c, sid) == row[c].sid \in {NoSid, sid} /\ SidFree(c, sid)

Transaction(by, call, events) == [by |-> by, row |-> call, events |-> events]

\* mark_failed
MarkedFailed(c) == [row[c] EXCEPT !.status = "failed", !.failed = TRUE]

\* Mutant: the provider's id is left to the callbacks.
AcceptedUnbound(c) == [row[c] EXCEPT !.status = IF @ = "pending" THEN "queued" ELSE @]

\* mark_provider_accepted
MarkedAccepted(c) ==
    [status |-> IF row[c].status = "pending" THEN "queued" ELSE row[c].status,
     sid    |-> c,
     failed |-> FALSE]

-----------------------------------------------------------------------------
Init ==
    /\ row = [c \in Calls |-> Absent]
    /\ ledger = [c \in Calls |-> {}]
    /\ initiation = [c \in Calls |-> "none"]
    /\ tx = [c \in Calls |-> NoTx]
    /\ sink = [k \in Sinks |-> Idle]
    /\ placed = {}
    /\ reported = [c \in Calls |-> {}]
    /\ crashes = 0

(* The initiating request *)

\* initiate_call, the first transaction: nobody else knows the call yet.
Request(c) ==
    /\ initiation[c] = "none"
    /\ initiation' = [initiation EXCEPT ![c] = "dialling"]
    /\ row' = [row EXCEPT ![c].status = "pending"]
    /\ ledger' = [ledger EXCEPT ![c] = Appended({}, RequestedKey, NoStatus)]
    /\ UNCHANGED <<tx, sink, placed, reported, crashes>>

\* create_call returns.
DialReturns(c) ==
    /\ initiation[c] = "dialling"
    /\ c \in placed
    /\ initiation' = [initiation EXCEPT ![c] = "accepted"]
    /\ UNCHANGED <<row, ledger, tx, sink, placed, reported, crashes>>

\* create_call raises TelephonyProviderError: the provider refused, or its
\* answer did not come in time.
DialRaises(c) ==
    /\ initiation[c] = "dialling"
    /\ initiation' = [initiation EXCEPT ![c] = "refused"]
    /\ UNCHANGED <<row, ledger, tx, sink, placed, reported, crashes>>

BeginAccepted(c) ==
    /\ initiation[c] = "accepted"
    /\ ~Locked(c)
    /\ Binds(c, c)
    /\ LET marked == MarkedAccepted(c) IN
       tx' = [tx EXCEPT ![c] =
                 Transaction("initiator", marked,
                             Appended(ledger[c], QueuedKey(c), marked.status))]
    /\ UNCHANGED <<row, ledger, initiation, sink, placed, reported, crashes>>

\* The call is bound to another provider id: ProviderCallMismatchError.
AcceptedMismatch(c) ==
    /\ initiation[c] = "accepted"
    /\ ~Locked(c)
    /\ ~Binds(c, c)
    /\ initiation' = [initiation EXCEPT ![c] = "cut"]
    /\ UNCHANGED <<row, ledger, tx, sink, placed, reported, crashes>>

BeginRefused(c) ==
    /\ initiation[c] = "refused"
    /\ ~Locked(c)
    /\ LET marked == MarkedFailed(c) IN
       tx' = [tx EXCEPT ![c] =
                 Transaction("initiator", marked,
                             Appended(ledger[c], RefusedKey, marked.status))]
    /\ UNCHANGED <<row, ledger, initiation, sink, placed, reported, crashes>>

-----------------------------------------------------------------------------
(* Status callbacks *)

\* What is reported of a foreign call is not recorded.
Delivered(sid, p) == sid \in Calls => p \in reported[sid]

\* apply_status_callback(c, sid, p).  An unknown call, a mismatched id or an
\* unsupported status raises and changes nothing.
BeginCallback(c, sid, p) ==
    /\ p \in ProviderStatuses
    /\ Delivered(sid, p)
    /\ Exists(c)
    /\ ~Locked(c)
    /\ Binds(c, sid)
    /\ LET target == Normalized[p]
           bound  == [row[c] EXCEPT !.sid = sid]
       IN  tx' = [tx EXCEPT ![c] =
                     IF MovesCall(row[c].status, target)
                     THEN Transaction("callback", [bound EXCEPT !.status = target],
                                      Appended(ledger[c], StatusKey(sid, p), target))
                     ELSE Transaction("callback", bound, {})]
    /\ UNCHANGED <<row, ledger, initiation, sink, placed, reported, crashes>>

-----------------------------------------------------------------------------
(* The end of a transaction *)

Ended(c, outcome) ==
    /\ tx' = [tx EXCEPT ![c] = NoTx]
    /\ initiation' = IF tx[c].by = "initiator"
                     THEN [initiation EXCEPT ![c] = outcome]
                     ELSE initiation

Commit(c) ==
    /\ Locked(c)
    /\ \A e \in tx[c].events : Insertable(ledger[c], e)
    /\ row' = [row EXCEPT ![c] = tx[c].row]
    /\ ledger' = [ledger EXCEPT ![c] = @ \cup tx[c].events]
    /\ Ended(c, "done")
    /\ UNCHANGED <<sink, placed, reported, crashes>>

\* A sink has inserted the same sequence number and waits for the locked row,
\* on which its foreign key depends: the deadlock is broken by either one.
Collides(c, k) ==
    /\ sink[k] # Idle
    /\ sink[k].call = c
    /\ Locked(c)
    /\ \E e \in tx[c].events : e.sequence = sink[k].event.sequence

Abort(c) ==
    /\ \E k \in Sinks : Collides(c, k)
    /\ Ended(c, "cut")
    /\ UNCHANGED <<row, ledger, sink, placed, reported, crashes>>

-----------------------------------------------------------------------------
(* Appends of the live conversation *)

\* DatabaseEventSink.append reads the ledger.  A media session exists only for
\* a call with a provider id.
SinkReads(k, c) ==
    /\ sink[k] = Idle
    /\ row[c].sid # NoSid
    /\ Cardinality({e \in ledger[c] : e.key = NoKey}) < MaxConversation
    /\ \E e \in Appended(ledger[c], NoKey, NoStatus) :
          sink' = [sink EXCEPT ![k] = [call |-> c, event |-> e]]
    /\ UNCHANGED <<row, ledger, initiation, tx, placed, reported, crashes>>

\* The foreign key lets the insert through only when nobody holds the row.
SinkInserts(k) ==
    /\ sink[k] # Idle
    /\ ~Locked(sink[k].call)
    /\ Insertable(ledger[sink[k].call], sink[k].event)
    /\ ledger' = [ledger EXCEPT ![sink[k].call] = @ \cup {sink[k].event}]
    /\ sink' = [sink EXCEPT ![k] = Idle]
    /\ UNCHANGED <<row, initiation, tx, placed, reported, crashes>>

SinkRefused(k) ==
    /\ sink[k] # Idle
    /\ \/ ~Insertable(ledger[sink[k].call], sink[k].event)
       \/ Collides(sink[k].call, k)
    /\ sink' = [sink EXCEPT ![k] = Idle]
    /\ UNCHANGED <<row, ledger, initiation, tx, placed, reported, crashes>>

-----------------------------------------------------------------------------
(* The environment *)

\* A request that timed out may still be carried out.
ProviderPlaces(c) ==
    /\ initiation[c] # "none"
    /\ placed' = placed \cup {c}
    /\ UNCHANGED <<row, ledger, initiation, tx, sink, reported, crashes>>

\* Nothing is reported of a call that has ended; "canceled" ends one too.
ProviderReports(c, p) ==
    /\ c \in placed
    /\ reported[c] \subseteq LiveCallStatuses \cup {"answered"}
    /\ reported' = [reported EXCEPT ![c] = @ \cup {p}]
    /\ UNCHANGED <<row, ledger, initiation, tx, sink, placed, crashes>>

\* The server restarts: every open transaction is rolled back.
Crash ==
    /\ crashes < MaxCrashes
    /\ crashes' = crashes + 1
    /\ tx' = [c \in Calls |-> NoTx]
    /\ sink' = [k \in Sinks |-> Idle]
    /\ initiation' = [c \in Calls |->
                         IF initiation[c] \in {"none", "done"} THEN initiation[c]
                         ELSE "cut"]
    /\ UNCHANGED <<row, ledger, placed, reported>>

Next ==
    \/ \E c \in Calls :
          \/ Request(c)
          \/ DialReturns(c)
          \/ DialRaises(c)
          \/ BeginAccepted(c)
          \/ AcceptedMismatch(c)
          \/ BeginRefused(c)
          \/ \E sid \in Sids, p \in Reports : BeginCallback(c, sid, p)
          \/ Commit(c)
          \/ Abort(c)
          \/ ProviderPlaces(c)
          \/ \E p \in Reports : ProviderReports(c, p)
    \/ \E k \in Sinks :
          \/ \E c \in Calls : SinkReads(k, c)
          \/ SinkInserts(k)
          \/ SinkRefused(k)
    \/ Crash

Spec == Init /\ [][Next]_vars

-----------------------------------------------------------------------------
(* Properties *)

Initiations == {"none", "dialling", "accepted", "refused", "done", "cut"}

\* The variables hold rows, ledgers and transactions of the declared shapes.
TypeOK ==
    /\ row \in [Calls -> CallRow]
    /\ ledger \in [Calls -> SUBSET Event]
    /\ initiation \in [Calls -> Initiations]
    /\ tx \in [Calls -> Transactions \cup {NoTx}]
    /\ sink \in [Sinks -> Appends \cup {Idle}]
    /\ placed \subseteq Calls
    /\ reported \in [Calls -> SUBSET Reports]
    /\ crashes \in 0 .. MaxCrashes

StatusEvents(c) == {e \in ledger[c] : e.status # NoStatus}

CallbackEvents(c) == {e \in ledger[c] : e.key # NoKey /\ e.key.kind = "status"}

\* The ledger tells the state of the call: the payload of its latest event
\* that names a status names the call's status, whichever of initiation and
\* callbacks wrote it, and there is none as long as the call is pending.
\* Callbacks that are repeated, reordered or worded differently ("answered",
\* "in-progress") leave one event per status.
LedgerTracksStatus ==
    \A c \in Calls : Exists(c) =>
        /\ \/ StatusEvents(c) = {} /\ row[c].status = "pending"
           \/ \E e \in StatusEvents(c) :
                 /\ e.status = row[c].status
                 /\ \A f \in StatusEvents(c) : f.sequence <= e.sequence
        /\ \A e, f \in CallbackEvents(c) : e.status = f.status => e = f

\* Once initiate_call is through, the call is not pending any more, and it
\* either carries the id the provider gave it, whatever callbacks for other
\* ids arrive at its address, or is marked as failed.  "failed calls are not
\* reported as success" (repository.py): a call so marked has the status failed,
\* even if the provider placed it after all and goes on reporting.
InitiatedCallIsRecorded ==
    \A c \in Calls :
        /\ initiation[c] = "done" =>
              /\ row[c].status # "pending"
              /\ row[c].sid = c \/ row[c].failed
        /\ row[c].failed => row[c].status = "failed"

\* The log a reader of a ledger sees: the status in the entry with each sequence
\* number, from 1 on.  A number that is missing or taken twice has no entry.
Log(events) ==
    [i \in 1 .. Highest(events) |->
        LET at == {e \in events : e.sequence = i} IN
        IF \E e \in at : at = {e} THEN (CHOOSE e \in at : TRUE).status ELSE "no entry"]

Record == INSTANCE CallRecord WITH
              status <- [c \in Calls |-> row[c].status],
              log    <- [c \in Calls |-> Log(ledger[c])]

\* Rows and ledger implement the abstract record of a call: the status only moves
\* forward (a refusal recorded by the initiator apart), no change of it goes
\* without its event, and sequence numbers run from 1 without a gap or a
\* repetition in the order of the commits, though appends read the highest one
\* without a lock, repeated keys append nothing and transactions are rolled back.
CallKeepsRecord == Record!Spec

\* Refuted: "Append one event, returning an existing row for repeated
\* idempotency keys" (events/repository.py).  Of two transactions that read the
\* same highest number only one leaves its event, though the server does not stop.
AppendAppends ==
    [][\A k \in Sinks :
          sink[k] # Idle /\ sink'[k] = Idle /\ crashes' = crashes =>
             sink[k].event \in ledger'[sink[k].call]]_vars

===============================================================================
