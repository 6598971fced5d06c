-------------------------------- MODULE Cases ---------------------------------
(***************************************************************************)
(* Durable cases: cases/service.py, cases/repository.py, cases/schemas.py, *)
(* and the outcomes recorded in them (calls/outcomes.py).                  *)
(*                                                                         *)
(* A client is code of the embedding application.  It reads a row, and     *)
(* later changes the case giving the version it read; the change is one    *)
(* UPDATE statement whose WHERE clause compares versions.  Attaching a     *)
(* call is a transaction that reads the call without locking it and then   *)
(* writes: two steps.  Requests that raise change nothing and are left     *)
(* out, but for the refused change, after which the client has to read     *)
(* again.  business_state, attempt_count and customer_state are written    *)
(* like status and left out, as are the details of an outcome that go with *)
(* promise_to_pay and human_required the way callback_at goes with         *)
(* callback_requested.                                                     *)
(***************************************************************************)
EXTENDS Naturals

CONSTANTS
    Cases,       \* case ids
    Calls,       \* call ids
    Clients,     \* clients of the case service that act at the same time
    Times,       \* values of callback_at
    Statuses,    \* statuses that clients write
    Kinds,       \* kinds of outcome that clients record
    None,        \* a column that is NULL, a field that is left out
    Absent,      \* a row that does not exist
    Free,        \* a client that holds nothing
    MaxVersion   \* bound: versions of a case

VARIABLES
    cases,       \* rows of cases
    caseOf,      \* calls.case_id
    client       \* what each client has read

vars == <<cases, caseOf, client>>

CaseStatuses == {"open", "waiting", "completed", "cancelled"}

CallOutcomeKinds ==
    {"completed", "callback_requested", "not_interested", "promise_to_pay",
     "human_required", "wrong_number", "unknown"}

ASSUME CaseAssumption ==
    /\ None \notin Cases \cup Times \cup CaseStatuses
    /\ Absent \notin Cases \cup {None}
    /\ Statuses \subseteq CaseStatuses
    /\ Kinds \subseteq CallOutcomeKinds
    /\ MaxVersion \in Nat

-----------------------------------------------------------------------------
(* Rows and payloads *)

\* An outcome names a callback exactly when it is callback_requested.
CallOutcomes ==
    {o \in [kind : CallOutcomeKinds, callback_at : Times \cup {None}] :
        o.kind = "callback_requested" <=> o.callback_at # None}

CaseRow == [status       : CaseStatuses,
            last_outcome : CallOutcomes \cup {None},
            callback_at  : Times \cup {None},
            version      : Nat]

\* What a client may hold: a row it has read, an attachment it has checked.
Holdings   == [doing : {"holding"}, case : Cases, row : CaseRow]
Attachings == [doing : {"attaching"}, case : Cases, call : Calls, seen : Cases \cup {None}]

ASSUME MarkerAssumption ==
    /\ None \notin CallOutcomes
    /\ Absent \notin CaseRow
    /\ Free \notin Holdings \cup Attachings

Fields == {"status", "last_outcome", "callback_at"}

NewCase ==
    [status |-> "open", last_outcome |-> None, callback_at |-> None, version |-> 1]

CaseStateUpdates ==
    [status       : Statuses \cup {None},
     last_outcome : {o \in CallOutcomes : o.kind \in Kinds} \cup {None},
     callback_at  : Times \cup {None}]

\* Mutant: the validator is missing.
AsGiven(p) == p

\* keep_callback_consistent_with_outcome
Consistent(p) ==
    IF p.last_outcome # None /\ p.callback_at = None
    THEN [p EXCEPT !.callback_at = p.last_outcome.callback_at]
    ELSE p

\* Mutant: a field that is left out is written as NULL.
ChangedWholly(r, p, expected) ==
    [f \in Fields \cup {"version"} |-> IF f = "version" THEN expected + 1 ELSE p[f]]

\* The row after update_state: what is left out stays.
Changed(r, p, expected) ==
    [f \in Fields \cup {"version"} |->
        IF f = "version" THEN expected + 1
        ELSE IF p[f] = None THEN r[f]
        ELSE p[f]]

\* Mutant: the row is found by its id alone.
FoundById(r, expected) == TRUE

\* The WHERE clause of the UPDATE.
Found(r, expected) == r.version = expected

Exists(a) == cases[a] # Absent

Holding(a, r)       == [doing |-> "holding", case |-> a, row |-> r]
Attaching(a, c, at) == [doing |-> "attaching", case |-> a, call |-> c, seen |-> at]

Holds(k)    == client[k] # Free /\ client[k].doing = "holding"
Attaches(k) == client[k] # Free /\ client[k].doing = "attaching"

-----------------------------------------------------------------------------
Init ==
    /\ cases = [a \in Cases |-> Absent]
    /\ caseOf = [c \in Calls |-> Absent]
    /\ client = [k \in Clients |-> Free]

CreateCase(a) ==
    /\ ~Exists(a)
    /\ cases' = [cases EXCEPT ![a] = NewCase]
    /\ UNCHANGED <<caseOf, client>>

\* initiate_call, for a case or without one.
CreateCall(c, at) ==
    /\ caseOf[c] = Absent
    /\ at # None => Exists(at)
    /\ caseOf' = [caseOf EXCEPT ![c] = at]
    /\ UNCHANGED <<cases, client>>

\* A client reads a case, for the first time or again.
ReadCase(k, a) ==
    /\ ~Attaches(k)
    /\ Exists(a)
    /\ client' = [client EXCEPT ![k] = Holding(a, cases[a])]
    /\ UNCHANGED <<cases, caseOf>>

\* update_state with the version the client has read.  Its answer may be lost:
\* then the client still holds the row from before.
UpdateState(k, p) ==
    /\ Holds(k)
    /\ LET a        == client[k].case
           expected == client[k].row.version
           row      == Changed(cases[a], Consistent(p), expected)
       IN  /\ Found(cases[a], expected)
           /\ expected < MaxVersion
           /\ cases' = [cases EXCEPT ![a] = row]
           /\ \/ client' = [client EXCEPT ![k].row = row]
              \/ UNCHANGED client
    /\ UNCHANGED caseOf

\* CaseConcurrencyError
UpdateRefused(k) ==
    /\ Holds(k)
    /\ ~Found(cases[client[k].case], client[k].row.version)
    /\ client' = [client EXCEPT ![k] = Free]
    /\ UNCHANGED <<cases, caseOf>>

\* attach_call finds the call unattached, or attached to this case.
AttachReads(k, a, c) ==
    /\ ~Attaches(k)
    /\ Exists(a)
    /\ caseOf[c] \in {None, a}
    /\ client' = [client EXCEPT ![k] = Attaching(a, c, caseOf[c])]
    /\ UNCHANGED <<cases, caseOf>>

\* An assignment that changes nothing is not written.
AttachWrites(k) ==
    /\ Attaches(k)
    /\ caseOf' = IF client[k].seen = None
                 THEN [caseOf EXCEPT ![client[k].call] = client[k].case]
                 ELSE caseOf
    /\ client' = [client EXCEPT ![k] = Free]
    /\ UNCHANGED cases

Next ==
    \/ \E a \in Cases : CreateCase(a)
    \/ \E c \in Calls, at \in Cases \cup {None} : CreateCall(c, at)
    \/ \E k \in Clients :
          \/ \E a \in Cases : ReadCase(k, a)
          \/ \E p \in CaseStateUpdates : UpdateState(k, p)
          \/ UpdateRefused(k)
          \/ \E a \in Cases, c \in Calls : AttachReads(k, a, c)
          \/ AttachWrites(k)

Spec == Init /\ [][Next]_vars

-----------------------------------------------------------------------------
(* Properties *)

\* Rows, pointers and what clients hold have the declared shapes; no column
\* that must not be NULL becomes NULL by an update that leaves it out.
TypeOK ==
    /\ cases \in [Cases -> CaseRow \cup {Absent}]
    /\ caseOf \in [Calls -> Cases \cup {None, Absent}]
    /\ client \in [Clients -> {Free} \cup Holdings \cup Attachings]

\* No update is lost and none is applied twice: a case changes only by a client
\* that holds the very row it replaces, although the statement compares nothing
\* but versions, answers get lost and clients come back with what they read
\* long ago (repository.py:51-86).
UpdateBuildsOnWhatItRead ==
    [][\A a \in Cases :
          Exists(a) /\ cases'[a] # cases[a] =>
             \E k \in Clients :
                /\ Holds(k)
                /\ client[k].case = a
                /\ client[k].row = cases[a]]_vars

\* The case tells when to call back: as long as its last outcome is a requested
\* callback there is a callback_at, whether the update that recorded it or a
\* later one that leaves fields out named it (schemas.py:44-50).
RequestedCallbackIsKept ==
    \A a \in Cases :
        /\ Exists(a)
        /\ cases[a].last_outcome # None
        /\ cases[a].last_outcome.kind = "callback_requested"
        => cases[a].callback_at # None

\* Refuted: a call attached to a case cannot be attached to another one
\* ("with pytest.raises(CaseAttachmentError)", test_case_service.py).
AttachmentIsFinal ==
    [][\A c \in Calls : caseOf[c] \in Cases => caseOf'[c] = caseOf[c]]_vars

===============================================================================
