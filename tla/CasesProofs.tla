----------------------------- MODULE CasesProofs ------------------------------
(***************************************************************************)
(* Proofs about Cases, for any cases, calls and clients.  The version in   *)
(* the WHERE clause stands for the whole row because of one invariant:     *)
(* what a client holds is never newer than the row in the table, and is    *)
(* that row if it has its version.                                         *)
(***************************************************************************)
EXTENDS Cases, TLAPS

\* What a client holds is a past or the present row of its case.
HeldInv ==
    \A k \in Clients : Holds(k) =>
        LET a == client[k].case
            r == client[k].row
        IN  /\ Exists(a)
            /\ r.version <= cases[a].version
            /\ r.version = cases[a].version => r = cases[a]

Inv == TypeOK /\ HeldInv /\ RequestedCallbackIsKept

-----------------------------------------------------------------------------
(* Helpers *)

\* A row stays a row when an update is written to it, and its version is the
\* next one.
LEMMA ChangedIsRow ==
    ASSUME NEW r \in CaseRow, NEW p \in CaseStateUpdates, NEW v \in Nat
    PROVE  /\ Changed(r, Consistent(p), v) \in CaseRow
           /\ Changed(r, Consistent(p), v).version = v + 1
<1>1. Consistent(p) \in [status       : Statuses \cup {None},
                         last_outcome : {o \in CallOutcomes : o.kind \in Kinds} \cup {None},
                         callback_at  : Times \cup {None}]
  BY DEF Consistent, CaseStateUpdates, CallOutcomes
<1>2. QED
  BY <1>1, CaseAssumption DEF Changed, Fields, CaseRow

\* An update keeps the callback of a requested callback.
LEMMA ChangedKeepsCallback ==
    ASSUME NEW r \in CaseRow, NEW p \in CaseStateUpdates, NEW v \in Nat,
           r.last_outcome # None /\ r.last_outcome.kind = "callback_requested"
              => r.callback_at # None
    PROVE  LET n == Changed(r, Consistent(p), v) IN
           n.last_outcome # None /\ n.last_outcome.kind = "callback_requested"
              => n.callback_at # None
<1> DEFINE n == Changed(r, Consistent(p), v)
<1>1. CASE p.last_outcome = None
  <2>1. Consistent(p) = p
    BY <1>1 DEF Consistent
  <2>2. n.last_outcome = r.last_outcome
    BY <1>1, <2>1 DEF Changed, Fields
  <2>3. n.callback_at = IF p.callback_at = None THEN r.callback_at ELSE p.callback_at
    BY <2>1 DEF Changed, Fields
  <2>4. QED
    BY <2>2, <2>3
<1>2. CASE p.last_outcome # None
  <2>1. p.last_outcome \in CallOutcomes
    BY <1>2 DEF CaseStateUpdates
  <2>2. Consistent(p).last_outcome = p.last_outcome
    BY DEF Consistent, CaseStateUpdates
  <2>3. n.last_outcome = p.last_outcome
    BY <1>2, <2>2 DEF Changed, Fields
  <2>4. ASSUME p.last_outcome.kind = "callback_requested"
        PROVE  n.callback_at # None
    <3>1. p.last_outcome.callback_at # None
      BY <2>1, <2>4 DEF CallOutcomes
    <3>2. Consistent(p).callback_at # None
      BY <1>2, <3>1 DEF Consistent, CaseStateUpdates
    <3>3. QED
      BY <3>2 DEF Changed, Fields
  <2>5. QED
    BY <2>3, <2>4
<1>3. QED
  BY <1>1, <1>2

-----------------------------------------------------------------------------
(* The invariant *)

\* The invariant holds before any case exists.
LEMMA InitInv == Init => Inv
BY CaseAssumption
   DEF Init, Inv, TypeOK, HeldInv, Holds, RequestedCallbackIsKept, Exists

\* Every step keeps the invariant; one case for each action.
LEMMA NextInv == Inv /\ [Next]_vars => Inv'
<1> SUFFICES ASSUME Inv, [Next]_vars PROVE Inv'
  OBVIOUS
<1> USE DEF Inv
<1>1. ASSUME NEW a \in Cases, CreateCase(a) PROVE Inv'
  <2>1. NewCase \in CaseRow
    BY CaseAssumption DEF NewCase, CaseRow, CaseStatuses
  <2>2. TypeOK'
    BY <1>1, <2>1 DEF CreateCase, TypeOK
  <2>3. HeldInv'
    BY <1>1 DEF CreateCase, TypeOK, HeldInv, Holds, Exists, Holdings
  <2>4. RequestedCallbackIsKept'
    BY <1>1 DEF CreateCase, TypeOK, RequestedCallbackIsKept, Exists, NewCase
  <2>5. QED
    BY <2>2, <2>3, <2>4
<1>2. ASSUME NEW c \in Calls, NEW at \in Cases \cup {None}, CreateCall(c, at) PROVE Inv'
  BY <1>2 DEF CreateCall, TypeOK, HeldInv, Holds, Exists, RequestedCallbackIsKept
<1>3. ASSUME NEW k \in Clients, NEW a \in Cases, ReadCase(k, a) PROVE Inv'
  <2>1. cases[a] \in CaseRow
    BY <1>3 DEF ReadCase, Exists, TypeOK
  <2>2. Holding(a, cases[a]) \in Holdings
    BY <2>1 DEF Holding, Holdings
  <2>3. TypeOK'
    BY <1>3, <2>2 DEF ReadCase, TypeOK
  <2>4. HeldInv'
    BY <1>3, <2>1 DEF ReadCase, TypeOK, HeldInv, Holds, Exists, Holding, CaseRow
  <2>5. RequestedCallbackIsKept'
    BY <1>3 DEF ReadCase, RequestedCallbackIsKept, Exists
  <2>6. QED
    BY <2>3, <2>4, <2>5
<1>4. ASSUME NEW k \in Clients, NEW p \in CaseStateUpdates, UpdateState(k, p) PROVE Inv'
  <2> DEFINE a == client[k].case
             v == client[k].row.version
             n == Changed(cases[a], Consistent(p), v)
  <2>1. client[k] \in Holdings
    BY <1>4, MarkerAssumption DEF UpdateState, Holds, TypeOK, Holdings, Attachings
  <2>2. a \in Cases /\ v \in Nat /\ client[k].row \in CaseRow
    BY <2>1 DEF Holdings, CaseRow
  <2>3. cases[a] \in CaseRow /\ cases[a].version = v
    BY <1>4, <2>2 DEF UpdateState, Found, HeldInv, Exists, TypeOK
  <2>4. n \in CaseRow /\ n.version = v + 1
    BY <2>2, <2>3, ChangedIsRow
  <2>5. cases' = [cases EXCEPT ![a] = n]
    BY <1>4 DEF UpdateState
  <2>6. client' = client \/ client' = [client EXCEPT ![k].row = n]
    BY <1>4 DEF UpdateState
  <2>7. [client[k] EXCEPT !.row = n] \in Holdings
    BY <2>1, <2>4 DEF Holdings
  <2>8. TypeOK'
    BY <1>4, <2>2, <2>4, <2>5, <2>6, <2>7 DEF UpdateState, TypeOK
  <2>9. HeldInv'
    <3> SUFFICES ASSUME NEW j \in Clients, Holds(j)'
                 PROVE  /\ Exists(client[j].case)'
                        /\ client'[j].row.version <= cases'[client'[j].case].version
                        /\ client'[j].row.version = cases'[client'[j].case].version
                              => client'[j].row = cases'[client'[j].case]
      BY DEF HeldInv
    <3>1. n # Absent
      BY <2>4, MarkerAssumption
    <3>2. CASE client'[j] = client[j]
      <4>1. Holds(j)
        BY <3>2 DEF Holds
      <4>2. client[j] \in Holdings
        BY <4>1, MarkerAssumption DEF Holds, TypeOK, Holdings, Attachings
      <4>3. client[j].case \in Cases /\ client[j].row.version \in Nat
        BY <4>2 DEF Holdings, CaseRow
      <4>4. /\ Exists(client[j].case)
            /\ client[j].row.version <= cases[client[j].case].version
            /\ client[j].row.version = cases[client[j].case].version
                  => client[j].row = cases[client[j].case]
        BY <4>1 DEF HeldInv
      <4>5. CASE client[j].case = a
        <5>1. cases'[a] = n
          BY <2>2, <2>5 DEF TypeOK
        <5>2. client[j].row.version <= v
          BY <2>3, <4>4, <4>5
        <5>3. client[j].row.version < n.version
          BY <2>2, <2>4, <4>3, <5>2
        <5>4. QED
          BY <2>2, <2>4, <3>1, <3>2, <4>3, <4>5, <5>1, <5>3 DEF Exists
      <4>6. CASE client[j].case # a
        BY <2>5, <3>2, <4>3, <4>4, <4>6 DEF Exists, TypeOK
      <4>7. QED
        BY <4>5, <4>6
    <3>3. CASE client'[j] # client[j]
      <4>1. j = k /\ client' = [client EXCEPT ![k].row = n]
        BY <2>6, <3>3 DEF TypeOK
      <4>2. client'[j].row = n /\ client'[j].case = a
        BY <2>1, <4>1 DEF TypeOK, Holdings
      <4>3. cases'[a] = n
        BY <2>2, <2>5 DEF TypeOK
      <4>4. QED
        BY <2>2, <2>4, <3>1, <4>2, <4>3 DEF Exists
    <3>4. QED
      BY <3>2, <3>3
  <2>10. RequestedCallbackIsKept'
    <3>1. /\ cases[a].last_outcome # None
          /\ cases[a].last_outcome.kind = "callback_requested"
          => cases[a].callback_at # None
      BY <2>2, <2>3, MarkerAssumption DEF RequestedCallbackIsKept, Exists
    <3>2. /\ n.last_outcome # None
          /\ n.last_outcome.kind = "callback_requested"
          => n.callback_at # None
      BY <2>2, <2>3, <3>1, ChangedKeepsCallback
    <3>3. QED
      BY <2>2, <2>5, <3>2 DEF RequestedCallbackIsKept, Exists, TypeOK
  <2>11. QED
    BY <2>8, <2>9, <2>10
<1>5. ASSUME NEW k \in Clients, UpdateRefused(k) PROVE Inv'
  BY <1>5 DEF UpdateRefused, TypeOK, HeldInv, Holds, Exists, RequestedCallbackIsKept
<1>6. ASSUME NEW k \in Clients, NEW a \in Cases, NEW c \in Calls, AttachReads(k, a, c)
      PROVE  Inv'
  <2>1. Attaching(a, c, caseOf[c]) \in Attachings
    BY <1>6 DEF AttachReads, Attaching, Attachings
  <2>2. TypeOK'
    BY <1>6, <2>1 DEF AttachReads, TypeOK
  <2>3. HeldInv'
    BY <1>6 DEF AttachReads, TypeOK, HeldInv, Holds, Exists, Attaching
  <2>4. RequestedCallbackIsKept'
    BY <1>6 DEF AttachReads, RequestedCallbackIsKept, Exists
  <2>5. QED
    BY <2>2, <2>3, <2>4
<1>7. ASSUME NEW k \in Clients, AttachWrites(k) PROVE Inv'
  <2>1. client[k] \in Attachings
    BY <1>7, MarkerAssumption DEF AttachWrites, Attaches, TypeOK, Holdings, Attachings
  <2>2. TypeOK'
    BY <1>7, <2>1 DEF AttachWrites, TypeOK, Attachings
  <2>3. HeldInv'
    BY <1>7 DEF AttachWrites, TypeOK, HeldInv, Holds, Exists
  <2>4. RequestedCallbackIsKept'
    BY <1>7 DEF AttachWrites, RequestedCallbackIsKept, Exists
  <2>5. QED
    BY <2>2, <2>3, <2>4
<1>8. CASE UNCHANGED vars
  BY <1>8 DEF vars, TypeOK, HeldInv, Holds, Exists, RequestedCallbackIsKept
<1>9. QED
  BY <1>1, <1>2, <1>3, <1>4, <1>5, <1>6, <1>7, <1>8 DEF Next

-----------------------------------------------------------------------------
(* Theorems *)

\* Rows, pointers and what clients hold have their shapes; no partial update
\* empties a column.
THEOREM TypeCorrect == Spec => []TypeOK
BY InitInv, NextInv, PTL DEF Spec, Inv

\* The case tells when to call back as long as its last outcome asks for it.
THEOREM RequestedCallbackIsAlwaysKept == Spec => []RequestedCallbackIsKept
BY InitInv, NextInv, PTL DEF Spec, Inv

\* No update is lost and none is applied twice: what is replaced is what the
\* writer has read.
THEOREM UpdateAlwaysBuildsOnWhatItRead == Spec => UpdateBuildsOnWhatItRead
<1> DEFINE Builds ==
        \A a \in Cases :
            Exists(a) /\ cases'[a] # cases[a] =>
               \E k \in Clients :
                  /\ Holds(k)
                  /\ client[k].case = a
                  /\ client[k].row = cases[a]
<1>1. Inv /\ [Next]_vars => [Builds]_vars
  <2> SUFFICES ASSUME Inv, Next, NEW a \in Cases, Exists(a), cases'[a] # cases[a]
               PROVE  \E k \in Clients : /\ Holds(k)
                                         /\ client[k].case = a
                                         /\ client[k].row = cases[a]
    OBVIOUS
  <2>1. ASSUME NEW b \in Cases, CreateCase(b) PROVE FALSE
    BY <2>1 DEF CreateCase, Inv, TypeOK, Exists
  <2>2. ASSUME NEW k \in Clients, NEW p \in CaseStateUpdates, UpdateState(k, p)
        PROVE  /\ Holds(k)
               /\ client[k].case = a
               /\ client[k].row = cases[a]
    <3>1. Holds(k) /\ Found(cases[client[k].case], client[k].row.version)
      BY <2>2 DEF UpdateState
    <3>2. client[k].case = a
      BY <2>2 DEF UpdateState, Inv, TypeOK
    <3>3. client[k].row = cases[a]
      BY <3>1, <3>2 DEF Found, Inv, HeldInv
    <3>4. QED
      BY <3>1, <3>2, <3>3
  <2>3. PICK k \in Clients, p \in CaseStateUpdates : UpdateState(k, p)
    BY <2>1 DEF Next, CreateCall, ReadCase, UpdateRefused, AttachReads, AttachWrites
  <2>4. QED
    BY <2>2, <2>3
<1>2. QED
  BY <1>1, InitInv, NextInv, PTL DEF Spec, UpdateBuildsOnWhatItRead

===============================================================================
