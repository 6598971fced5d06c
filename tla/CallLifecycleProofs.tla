-------------------------- MODULE CallLifecycleProofs --------------------------
(***************************************************************************)
(* Proofs about CallLifecycle, for any calls, provider ids, reports and    *)
(* conversation appends.  The inductive invariant Inv says what a          *)
(* transaction holding a row will write (TxInv; neither the row nor the    *)
(* ledger changes under it), how far an append of the conversation may     *)
(* have fallen behind (SinkInv), and what the keys in a ledger prove about *)
(* the status of the call and about its initiation (KeyInv): a repeated    *)
(* key is that of a status the call has passed, so that no change of       *)
(* status ever goes without its event.                                     *)
(***************************************************************************)
EXTENDS CallLifecycle, SequenceTheorems, TLAPS

-----------------------------------------------------------------------------
(* Ledgers *)

\* The sequence numbers run from 1 to n, each taken once.
Dense(events, n) ==
    /\ {e.sequence : e \in events} = 1 .. n
    /\ \A e, f \in events : e.sequence = f.sequence => e = f

\* The highest number of a dense ledger is its length (EventRepository._next_sequence).
LEMMA HighestOfDense ==
    ASSUME NEW L, NEW n \in Nat, Dense(L, n)
    PROVE  Highest(L) = n
<1>1. {0} \cup {e.sequence : e \in L} = 0 .. n
  BY DEF Dense
<1>2. Max(0 .. n) = n
  BY DEF Max
<1>3. QED
  BY <1>1, <1>2 DEF Highest

\* A ledger without gaps stays without gaps when the next event is added.
LEMMA DenseGrows ==
    ASSUME NEW L \in SUBSET Event, NEW n \in Nat, Dense(L, n),
           NEW e \in Event, e.sequence = n + 1
    PROVE  /\ Dense(L \cup {e}, n + 1)
           /\ e \notin L
           /\ \A f \in L : f.sequence \in 1 .. n
<1>1. \A f \in L : f.sequence \in 1 .. n
  BY DEF Dense
<1>2. {f.sequence : f \in L \cup {e}} = 1 .. n + 1
  <2>1. {f.sequence : f \in L \cup {e}} = (1 .. n) \cup {n + 1}
    BY DEF Dense
  <2>2. QED
    BY <2>1
<1>3. \A f, g \in L \cup {e} : f.sequence = g.sequence => f = g
  BY <1>1 DEF Dense
<1>4. QED
  BY <1>1, <1>2, <1>3 DEF Dense

\* The log of a dense ledger has one entry for each event, at its number.
LEMMA LogOfDense ==
    ASSUME NEW L \in SUBSET Event, NEW n \in Nat, Dense(L, n)
    PROVE  /\ Log(L) \in Seq(CallStatuses \cup {NoStatus})
           /\ Len(Log(L)) = n
           /\ DOMAIN Log(L) = 1 .. n
           /\ \A e \in L : e.sequence \in 1 .. n /\ Log(L)[e.sequence] = e.status
<1>1. Highest(L) = n
  BY HighestOfDense
<1>2. ASSUME NEW e \in L
      PROVE  e.sequence \in 1 .. n /\ Log(L)[e.sequence] = e.status
  <2> DEFINE at == {f \in L : f.sequence = e.sequence}
  <2>1. e.sequence \in 1 .. n
    BY DEF Dense
  <2>2. at = {e}
    BY DEF Dense
  <2>3. (CHOOSE f \in at : TRUE) = e
    BY <2>2
  <2>4. \E f \in at : at = {f}
    BY <2>2
  <2>5. QED
    BY <1>1, <2>1, <2>3, <2>4 DEF Log
<1>3. \A i \in 1 .. n : \E e \in L : e.sequence = i
  BY DEF Dense
<1>4. \A i \in 1 .. n : Log(L)[i] \in CallStatuses \cup {NoStatus}
  BY <1>2, <1>3 DEF Event
<1>5. Log(L) \in [1 .. n -> CallStatuses \cup {NoStatus}]
  BY <1>1, <1>4 DEF Log
<1>6. QED
  BY <1>2, <1>5

\* A new event at the end of the ledger is a new entry at the end of the log.
LEMMA LogGrows ==
    ASSUME NEW L \in SUBSET Event, NEW n \in Nat, Dense(L, n),
           NEW e \in Event, e.sequence = n + 1
    PROVE  Log(L \cup {e}) = Append(Log(L), e.status)
<1> DEFINE M == L \cup {e}
<1>1. Dense(M, n + 1) /\ M \in SUBSET Event /\ n + 1 \in Nat
  BY DenseGrows
<1>2. /\ Log(M) \in Seq(CallStatuses \cup {NoStatus})
      /\ Len(Log(M)) = n + 1
      /\ DOMAIN Log(M) = 1 .. n + 1
      /\ \A f \in M : f.sequence \in 1 .. n + 1 /\ Log(M)[f.sequence] = f.status
  BY <1>1, LogOfDense
<1>3. /\ Log(L) \in Seq(CallStatuses \cup {NoStatus})
      /\ Len(Log(L)) = n
      /\ DOMAIN Log(L) = 1 .. n
      /\ \A f \in L : f.sequence \in 1 .. n /\ Log(L)[f.sequence] = f.status
  BY LogOfDense
<1>4. \A i \in 1 .. n : Log(M)[i] = Log(L)[i]
  <2> SUFFICES ASSUME NEW i \in 1 .. n PROVE Log(M)[i] = Log(L)[i]
    OBVIOUS
  <2>1. PICK f \in L : f.sequence = i
    BY DEF Dense
  <2>2. QED
    BY <1>2, <1>3, <2>1
<1>5. Log(M)[n + 1] = e.status
  BY <1>2
<1>6. e.status \in CallStatuses \cup {NoStatus}
  BY DEF Event
<1> DEFINE N == Append(Log(L), e.status)
<1>7. /\ N \in Seq(CallStatuses \cup {NoStatus})
      /\ Len(N) = n + 1
      /\ \A i \in 1 .. n : N[i] = Log(L)[i]
      /\ N[n + 1] = e.status
  BY <1>3, <1>6, AppendProperties
<1>8. \A i \in 1 .. Len(N) : N[i] = Log(M)[i]
  <2> SUFFICES ASSUME NEW i \in 1 .. n + 1 PROVE N[i] = Log(M)[i]
    BY <1>7
  <2>1. i = n + 1 \/ i \in 1 .. n
    OBVIOUS
  <2>2. QED
    BY <1>4, <1>5, <1>7, <2>1
<1>9. Len(N) = Len(Log(M))
  BY <1>2, <1>7
<1> HIDE DEF N, M
<1>10. N = Log(M)
  BY <1>2, <1>7, <1>8, <1>9, SeqEqual
<1>11. QED
  BY <1>10 DEF N, M

-----------------------------------------------------------------------------
(* Statuses *)

\* A call does not move to a status it has passed, wherever it moves.
LEMMA PassedStaysPassed ==
    ASSUME NEW from \in CallStatuses, NEW to \in CallStatuses, NEW s \in CallStatuses,
           ~MovesCall(from, s), MovesCall(from, to)
    PROVE  ~MovesCall(to, s)
BY DEF CallStatuses, LiveCallStatuses, TerminalCallStatuses, NonTerminalOrder, MovesCall

\* A status reported again does not move the call, and nothing moves a failed one
\* to failed.
LEMMA StatusIsPassed ==
    ASSUME NEW s \in CallStatuses
    PROVE  ~MovesCall(s, s) /\ ~MovesCall("failed", s)
BY DEF MovesCall, TerminalCallStatuses

\* Every status of the provider that the map knows is one the call can be moved to.
LEMMA NormalizedStatus ==
    ASSUME NEW p \in ProviderStatuses
    PROVE  Normalized[p] \in CallStatuses \ {"pending"}
BY DEF ProviderStatuses, Normalized, CallStatuses, LiveCallStatuses, TerminalCallStatuses

\* A pending call may become queued.
LEMMA QueuedIsNext ==
    /\ MovesCall("pending", "queued")
    /\ {"pending", "queued", "failed"} \subseteq CallStatuses
    /\ "absent" \notin CallStatuses
BY DEF CallStatuses, LiveCallStatuses, TerminalCallStatuses, NonTerminalOrder, MovesCall

-----------------------------------------------------------------------------
(* The invariant *)

LedgerInv == \A c \in Calls : \E n \in Nat : Dense(ledger[c], n)

\* What the four kinds of transaction will write.
Binding(c) ==
    /\ tx[c].by = "callback"
    /\ tx[c].row = [status |-> row[c].status, sid |-> tx[c].row.sid, failed |-> row[c].failed]
    /\ tx[c].events = {}

Moving(c) ==
    \E sid \in Sids, p \in ProviderStatuses :
        /\ tx[c].by = "callback"
        /\ MovesCall(row[c].status, Normalized[p])
        /\ tx[c].row = [status |-> Normalized[p], sid |-> sid, failed |-> row[c].failed]
        /\ tx[c].events = Appended(ledger[c], StatusKey(sid, p), Normalized[p])

Accepting(c) ==
    /\ tx[c].by = "initiator"
    /\ initiation[c] = "accepted"
    /\ tx[c].row = MarkedAccepted(c)
    /\ tx[c].events = Appended(ledger[c], QueuedKey(c), tx[c].row.status)

Refusing(c) ==
    /\ tx[c].by = "initiator"
    /\ initiation[c] = "refused"
    /\ tx[c].row = MarkedFailed(c)
    /\ tx[c].events = Appended(ledger[c], RefusedKey, tx[c].row.status)

TxInv ==
    \A c \in Calls : Locked(c) =>
        /\ Exists(c)
        /\ row[c].sid \in {NoSid, tx[c].row.sid}
        /\ Binding(c) \/ Moving(c) \/ Accepting(c) \/ Refusing(c)

\* A conversation append is no further on than the ledger it will meet.
SinkInv ==
    \A k \in Sinks : sink[k] # Idle =>
        /\ Exists(sink[k].call)
        /\ sink[k].event.key = NoKey
        /\ sink[k].event.status = NoStatus
        /\ sink[k].event.sequence <= Highest(ledger[sink[k].call]) + 1

\* What an event proves: of the request and the conversation, of a callback, of
\* the end of the initiation.
Notes(e)         == e.key = NoKey \/ e.key = RequestedKey
Confirms(e)      == \E sid \in Sids, p \in ProviderStatuses :
                       e.key = StatusKey(sid, p) /\ e.status = Normalized[p]
Concludes(e)     == e.key = RefusedKey \/ \E sid \in Sids : e.key = QueuedKey(sid)

KeyInv ==
    \A c \in Calls : \A e \in ledger[c] :
        \/ Notes(e) /\ e.status = NoStatus
        \/ Confirms(e) /\ ~MovesCall(row[c].status, e.status)
        \/ Concludes(e) /\ e.status \in CallStatuses /\ initiation[c] = "done"

InitiationInv ==
    \A c \in Calls :
        /\ initiation[c] = "none" => row[c] = Absent /\ ledger[c] = {}
        /\ initiation[c] # "none" => Exists(c)
        /\ row[c].failed => initiation[c] = "done"

Inv ==
    /\ TypeOK
    /\ LedgerInv
    /\ TxInv
    /\ SinkInv
    /\ KeyInv
    /\ InitiationInv
    /\ LedgerTracksStatus
    /\ InitiatedCallIsRecorded

\* Keys of different kinds differ.
LEMMA KeysDiffer ==
    ASSUME NEW sid \in Sids, NEW p \in ProviderStatuses, NEW s \in Sids
    PROVE  /\ StatusKey(sid, p) # NoKey
           /\ QueuedKey(s) # NoKey
           /\ RefusedKey # NoKey
           /\ RequestedKey # NoKey
           /\ StatusKey(sid, p) # QueuedKey(s)
           /\ StatusKey(sid, p) # RefusedKey
           /\ StatusKey(sid, p) # RequestedKey
           /\ QueuedKey(s) # RefusedKey
           /\ QueuedKey(s) # RequestedKey
           /\ RefusedKey # RequestedKey
           /\ {StatusKey(sid, p), QueuedKey(s), RefusedKey, RequestedKey} \subseteq Keys
<1>1. /\ StatusKey(sid, p).kind = "status"
      /\ QueuedKey(s).kind = "queued"
      /\ RefusedKey.kind = "initiation_failed"
      /\ RequestedKey.kind = "requested"
  BY DEF StatusKey, QueuedKey, RefusedKey, RequestedKey
<1>2. {StatusKey(sid, p), QueuedKey(s), RefusedKey, RequestedKey} \subseteq Keys
  BY DEF Keys, StatusKey, QueuedKey, RefusedKey, RequestedKey
<1>3. QED
  BY <1>1, <1>2, CallAssumption

\* A callback's key names its provider id and its report.
LEMMA StatusKeyNames ==
    ASSUME NEW sid \in Sids, NEW p \in ProviderStatuses,
           NEW s \in Sids, NEW q \in ProviderStatuses,
           StatusKey(sid, p) = StatusKey(s, q)
    PROVE  p = q
<1>1. StatusKey(sid, p).report = p /\ StatusKey(s, q).report = q
  BY DEF StatusKey
<1>2. QED
  BY <1>1

\* Appending to a dense ledger a key it does not hold.
LEMMA AppendedIsNext ==
    ASSUME NEW L \in SUBSET Event, NEW n \in Nat, Dense(L, n),
           NEW key \in Keys \cup {NoKey}, NEW s \in CallStatuses \cup {NoStatus}
    PROVE  /\ Appended(L, key, s) \in SUBSET Event
           /\ ~Recorded(L, key) =>
                 \E e \in Event :
                    /\ Appended(L, key, s) = {e}
                    /\ e.sequence = n + 1
                    /\ e.key = key
                    /\ e.status = s
<1> DEFINE e == [sequence |-> n + 1, key |-> key, status |-> s]
<1>1. NextSequence(L) = n + 1
  BY HighestOfDense DEF NextSequence
<1>2. e \in Event
  BY DEF Event
<1>3. QED
  BY <1>1, <1>2 DEF Appended

-----------------------------------------------------------------------------
(* Steps that change neither rows nor ledgers *)

\* The invariant holds while no call exists.
LEMMA InitInv == Init => Inv
<1> SUFFICES ASSUME Init PROVE Inv
  OBVIOUS
<1>1. TypeOK
  BY CallAssumption DEF Init, TypeOK, Absent, CallRow, Initiations
<1>2. LedgerInv
  <2> SUFFICES ASSUME NEW c \in Calls PROVE Dense(ledger[c], 0)
    BY DEF LedgerInv
  <2> QED
    BY DEF Init, Dense
<1>3. QED
  BY <1>1, <1>2 DEF Init, Inv, TxInv, SinkInv, KeyInv, InitiationInv,
     LedgerTracksStatus, InitiatedCallIsRecorded, Locked, Exists, Absent

\* A transaction or an append that is given up, the provider's answer.
LEMMA QuietStep ==
    ASSUME Inv, TypeOK', UNCHANGED <<row, ledger>>,
           \A c \in Calls : tx'[c] \in {tx[c], NoTx},
           \A k \in Sinks : sink'[k] \in {sink[k], Idle},
           \A c \in Calls :
              \/ initiation'[c] = initiation[c]
              \/ /\ initiation[c] \in {"dialling", "accepted", "refused"}
                 /\ initiation'[c] \in {"accepted", "refused", "cut"}
                 /\ tx'[c] = NoTx \/ tx[c].by = "callback"
    PROVE  Inv'
<1> USE DEF Inv
<1>1. LedgerInv'
  BY DEF LedgerInv
<1>2. TxInv'
  <2> SUFFICES ASSUME NEW c \in Calls, Locked(c)'
               PROVE  /\ Exists(c)'
                      /\ row'[c].sid \in {NoSid, tx'[c].row.sid}
                      /\ (Binding(c) \/ Moving(c) \/ Accepting(c) \/ Refusing(c))'
    BY DEF TxInv
  <2>1. Locked(c) /\ tx'[c] = tx[c]
    BY DEF Locked
  <2>2. /\ Exists(c)
        /\ row[c].sid \in {NoSid, tx[c].row.sid}
        /\ Binding(c) \/ Moving(c) \/ Accepting(c) \/ Refusing(c)
    BY <2>1 DEF TxInv
  <2>3. Binding(c) => Binding(c)'
    BY <2>1 DEF Binding
  <2>4. ASSUME Moving(c) PROVE Moving(c)'
    <3>1. PICK sid \in Sids, p \in ProviderStatuses :
             /\ tx[c].by = "callback"
             /\ MovesCall(row[c].status, Normalized[p])
             /\ tx[c].row = [status |-> Normalized[p], sid |-> sid, failed |-> row[c].failed]
             /\ tx[c].events = Appended(ledger[c], StatusKey(sid, p), Normalized[p])
      BY <2>4 DEF Moving
    <3>2. row' = row /\ ledger' = ledger
      OBVIOUS
    <3>3. QED
      BY <2>1, <3>1, <3>2 DEF Moving
  <2>5. tx[c].by = "initiator" => initiation'[c] = initiation[c]
    BY <2>1 DEF Locked
  <2>6. Accepting(c) => Accepting(c)'
    BY <2>1, <2>5 DEF Accepting, MarkedAccepted
  <2>7. Refusing(c) => Refusing(c)'
    BY <2>1, <2>5 DEF Refusing, MarkedFailed
  <2>8. QED
    BY <2>1, <2>2, <2>3, <2>4, <2>6, <2>7 DEF Exists
<1>3. SinkInv'
  BY DEF SinkInv, Exists
<1>4. KeyInv'
  BY DEF KeyInv, Notes, Confirms, Concludes
<1>5. InitiationInv'
  BY DEF InitiationInv, Exists
<1>6. LedgerTracksStatus'
  BY DEF LedgerTracksStatus, StatusEvents, CallbackEvents, Exists
<1>7. InitiatedCallIsRecorded'
  BY DEF InitiatedCallIsRecorded
<1>8. QED
  BY <1>1, <1>2, <1>3, <1>4, <1>5, <1>6, <1>7

\* A transaction begins; it holds the row and says what it will write.
LEMMA BeginStep ==
    ASSUME Inv, NEW c \in Calls, NEW t \in Transactions, ~Locked(c),
           tx' = [tx EXCEPT ![c] = t],
           UNCHANGED <<row, ledger, initiation, sink, placed, reported, crashes>>,
           Exists(c),
           row[c].sid \in {NoSid, t.row.sid},
           (Binding(c) \/ Moving(c) \/ Accepting(c) \/ Refusing(c))'
    PROVE  Inv'
<1> USE DEF Inv
<1>1. TypeOK'
  BY DEF TypeOK
<1>2. TxInv'
  <2> SUFFICES ASSUME NEW d \in Calls, Locked(d)'
               PROVE  /\ Exists(d)'
                      /\ row'[d].sid \in {NoSid, tx'[d].row.sid}
                      /\ (Binding(d) \/ Moving(d) \/ Accepting(d) \/ Refusing(d))'
    BY DEF TxInv
  <2>1. CASE d = c
    <3>1. tx'[c] = t
      BY DEF TypeOK
    <3>2. QED
      BY <2>1, <3>1 DEF Exists
  <2>2. CASE d # c
    <3>1. tx'[d] = tx[d] /\ Locked(d)
      BY <2>2 DEF TypeOK, Locked
    <3>2. /\ Exists(d)
          /\ row[d].sid \in {NoSid, tx[d].row.sid}
          /\ Binding(d) \/ Moving(d) \/ Accepting(d) \/ Refusing(d)
      BY <3>1 DEF TxInv
    <3>3. Binding(d) => Binding(d)'
      BY <3>1 DEF Binding
    <3>4. Moving(d) => Moving(d)'
      BY <3>1 DEF Moving
    <3>5. Accepting(d) => Accepting(d)'
      BY <3>1 DEF Accepting, MarkedAccepted
    <3>6. Refusing(d) => Refusing(d)'
      BY <3>1 DEF Refusing, MarkedFailed
    <3>7. QED
      BY <3>1, <3>2, <3>3, <3>4, <3>5, <3>6 DEF Exists
  <2>3. QED
    BY <2>1, <2>2
<1>3. /\ LedgerInv'
      /\ SinkInv'
      /\ InitiationInv'
      /\ InitiatedCallIsRecorded'
  BY DEF LedgerInv, SinkInv, InitiationInv, InitiatedCallIsRecorded, Exists
<1>4. KeyInv'
  BY DEF KeyInv, Notes, Confirms, Concludes
<1>5. LedgerTracksStatus'
  BY DEF LedgerTracksStatus, StatusEvents, CallbackEvents, Exists
<1>6. QED
  BY <1>1, <1>2, <1>3, <1>4, <1>5

\* What a row is after its provider id, and then its status, have been written.
LEMMA RebuiltRow ==
    ASSUME NEW r \in CallRow, NEW sid, NEW s
    PROVE  /\ [r EXCEPT !.sid = sid] = [status |-> r.status, sid |-> sid, failed |-> r.failed]
           /\ [[r EXCEPT !.sid = sid] EXCEPT !.status = s]
                 = [status |-> s, sid |-> sid, failed |-> r.failed]
<1>1. r = [status |-> r.status, sid |-> r.sid, failed |-> r.failed]
  BY DEF CallRow
<1>2. [r EXCEPT !.sid = sid] = [status |-> r.status, sid |-> sid, failed |-> r.failed]
  BY <1>1
<1> DEFINE q == [r EXCEPT !.sid = sid]
<1>3. q = [status |-> r.status, sid |-> sid, failed |-> r.failed]
  BY <1>2
<1> HIDE DEF q
<1>4. [q EXCEPT !.status = s] = [status |-> s, sid |-> sid, failed |-> r.failed]
  BY <1>3
<1>5. QED
  BY <1>2, <1>4 DEF q

\* What a row is after its status has been written.
LEMMA RestatedRow ==
    ASSUME NEW r \in CallRow, NEW s
    PROVE  [r EXCEPT !.status = s] = [status |-> s, sid |-> r.sid, failed |-> r.failed]
<1>1. r = [status |-> r.status, sid |-> r.sid, failed |-> r.failed]
  BY DEF CallRow
<1>2. QED
  BY <1>1

\* What begins is one of the four kinds of transaction.
LEMMA BeginsStep ==
    ASSUME Inv, NEW c \in Calls,
           \/ BeginAccepted(c)
           \/ BeginRefused(c)
           \/ \E sid \in Sids, p \in Reports : BeginCallback(c, sid, p)
    PROVE  Inv'
<1>1. /\ row[c] \in CallRow
      /\ ledger[c] \in SUBSET Event
      /\ \E n \in Nat : Dense(ledger[c], n)
      /\ c \in Sids
  BY DEF Inv, TypeOK, LedgerInv, Sids
<1>2. ASSUME NEW key \in Keys, NEW s \in CallStatuses \cup {NoStatus}
      PROVE  Appended(ledger[c], key, s) \in SUBSET Event
  BY <1>1, AppendedIsNext
<1>3. CASE BeginAccepted(c)
  <2> DEFINE t == Transaction("initiator", MarkedAccepted(c),
                              Appended(ledger[c], QueuedKey(c), MarkedAccepted(c).status))
  <2>1. Exists(c)
    BY <1>3 DEF BeginAccepted, Inv, InitiationInv
  <2>2. MarkedAccepted(c) \in CallRow /\ MarkedAccepted(c).status \in CallStatuses
    BY <1>1, <2>1, QueuedIsNext DEF MarkedAccepted, CallRow, Exists
  <2>3. t \in Transactions
    <3>1. QueuedKey(c) \in Keys
      BY <1>1 DEF QueuedKey, Keys
    <3>2. Appended(ledger[c], QueuedKey(c), MarkedAccepted(c).status) \in SUBSET Event
      BY <1>2, <2>2, <3>1
    <3>3. QED
      BY <2>2, <3>2 DEF Transaction, Transactions
  <2>4. tx' = [tx EXCEPT ![c] = t] /\ ~Locked(c)
    BY <1>3 DEF BeginAccepted
  <2>5. tx'[c] = t
    BY <2>4 DEF Inv, TypeOK
  <2>6. row[c].sid \in {NoSid, t.row.sid}
    BY <1>3 DEF BeginAccepted, Binds, Transaction, MarkedAccepted
  <2>7. Accepting(c)'
    <3>1. /\ t.by = "initiator"
          /\ t.row = MarkedAccepted(c)
          /\ t.events = Appended(ledger[c], QueuedKey(c), MarkedAccepted(c).status)
      BY DEF Transaction
    <3>2. /\ row' = row
          /\ ledger' = ledger
          /\ initiation' = initiation
          /\ initiation[c] = "accepted"
      BY <1>3 DEF BeginAccepted
    <3>3. MarkedAccepted(c)' = MarkedAccepted(c)
      BY <3>2 DEF MarkedAccepted
    <3> HIDE DEF t
    <3>4. QED
      BY <2>5, <3>1, <3>2, <3>3 DEF Accepting
  <2>8. UNCHANGED <<row, ledger, initiation, sink, placed, reported, crashes>>
    BY <1>3 DEF BeginAccepted
  <2> HIDE DEF t
  <2>9. QED
    BY <2>1, <2>3, <2>4, <2>6, <2>7, <2>8, BeginStep
<1>4. CASE BeginRefused(c)
  <2> DEFINE t == Transaction("initiator", MarkedFailed(c),
                              Appended(ledger[c], RefusedKey, MarkedFailed(c).status))
  <2>1. Exists(c)
    BY <1>4 DEF BeginRefused, Inv, InitiationInv
  <2>2. /\ MarkedFailed(c) \in CallRow
        /\ MarkedFailed(c).status = "failed"
        /\ MarkedFailed(c).sid = row[c].sid
    BY <1>1, QueuedIsNext DEF MarkedFailed, CallRow
  <2>3. t \in Transactions
    <3>1. RefusedKey \in Keys
      BY DEF RefusedKey, Keys
    <3>2. Appended(ledger[c], RefusedKey, MarkedFailed(c).status) \in SUBSET Event
      BY <1>2, <2>2, <3>1, QueuedIsNext
    <3>3. QED
      BY <2>2, <3>2 DEF Transaction, Transactions
  <2>4. tx' = [tx EXCEPT ![c] = t] /\ ~Locked(c)
    BY <1>4 DEF BeginRefused
  <2>5. tx'[c] = t
    BY <2>4 DEF Inv, TypeOK
  <2>6. row[c].sid \in {NoSid, t.row.sid}
    BY <2>2 DEF Transaction
  <2>7. Refusing(c)'
    <3>1. /\ t.by = "initiator"
          /\ t.row = MarkedFailed(c)
          /\ t.events = Appended(ledger[c], RefusedKey, MarkedFailed(c).status)
      BY DEF Transaction
    <3>2. /\ row' = row
          /\ ledger' = ledger
          /\ initiation' = initiation
          /\ initiation[c] = "refused"
      BY <1>4 DEF BeginRefused
    <3>3. MarkedFailed(c)' = MarkedFailed(c)
      BY <3>2 DEF MarkedFailed
    <3> HIDE DEF t
    <3>4. QED
      BY <2>5, <3>1, <3>2, <3>3 DEF Refusing
  <2>8. UNCHANGED <<row, ledger, initiation, sink, placed, reported, crashes>>
    BY <1>4 DEF BeginRefused
  <2> HIDE DEF t
  <2>9. QED
    BY <2>1, <2>3, <2>4, <2>6, <2>7, <2>8, BeginStep
<1>5. ASSUME NEW sid \in Sids, NEW p \in Reports, BeginCallback(c, sid, p) PROVE Inv'
  <2> DEFINE target == Normalized[p]
             bound  == [row[c] EXCEPT !.sid = sid]
             t == IF MovesCall(row[c].status, target)
                  THEN Transaction("callback", [bound EXCEPT !.status = target],
                                   Appended(ledger[c], StatusKey(sid, p), target))
                  ELSE Transaction("callback", bound, {})
  <2>1. p \in ProviderStatuses /\ Exists(c) /\ ~Locked(c) /\ Binds(c, sid)
    BY <1>5 DEF BeginCallback
  <2>2. target \in CallStatuses
    BY <2>1, NormalizedStatus
  <2>3. /\ bound = [status |-> row[c].status, sid |-> sid, failed |-> row[c].failed]
        /\ [bound EXCEPT !.status = target]
              = [status |-> target, sid |-> sid, failed |-> row[c].failed]
    BY <1>1, RebuiltRow
  <2>4. bound \in CallRow /\ [bound EXCEPT !.status = target] \in CallRow
    BY <1>1, <2>2, <2>3 DEF CallRow
  <2>5. Appended(ledger[c], StatusKey(sid, p), target) \in SUBSET Event
    BY <1>2, <2>1, <2>2 DEF StatusKey, Keys
  <2>6. t \in Transactions
    BY <2>4, <2>5 DEF Transaction, Transactions
  <2>7. tx' = [tx EXCEPT ![c] = t]
    BY <1>5 DEF BeginCallback
  <2>8. tx'[c] = t
    BY <2>7 DEF Inv, TypeOK
  <2>9. t.row.sid = sid
    BY <2>3 DEF Transaction
  <2>10. row[c].sid \in {NoSid, t.row.sid}
    BY <2>1, <2>9 DEF Binds
  <2>11. row' = row /\ ledger' = ledger
    BY <1>5 DEF BeginCallback
  <2>12. Binding(c)' \/ Moving(c)'
    <3>1. CASE MovesCall(row[c].status, target)
      <4>1. /\ tx'[c].by = "callback"
            /\ tx'[c].row = [status |-> target, sid |-> sid, failed |-> row[c].failed]
            /\ tx'[c].events = Appended(ledger[c], StatusKey(sid, p), target)
        BY <2>3, <2>8, <3>1 DEF Transaction
      <4>2. Moving(c)'
        BY <2>1, <2>11, <3>1, <4>1 DEF Moving
      <4>3. QED
        BY <4>2
    <3>2. CASE ~MovesCall(row[c].status, target)
      <4>1. /\ tx'[c].by = "callback"
            /\ tx'[c].row = [status |-> row[c].status, sid |-> sid, failed |-> row[c].failed]
            /\ tx'[c].events = {}
        BY <2>3, <2>8, <3>2 DEF Transaction
      <4>2. QED
        BY <2>11, <4>1 DEF Binding
    <3>3. QED
      BY <3>1, <3>2
  <2>13. UNCHANGED <<row, ledger, initiation, sink, placed, reported, crashes>>
    BY <1>5 DEF BeginCallback
  <2> HIDE DEF t
  <2>14. QED
    BY <2>1, <2>6, <2>7, <2>10, <2>12, <2>13, BeginStep
<1>6. QED
  BY <1>3, <1>4, <1>5

\* An append of the conversation reads the highest number there is.
LEMMA SinkReadsStep ==
    ASSUME Inv, NEW k \in Sinks, NEW c \in Calls, SinkReads(k, c)
    PROVE  Inv'
<1> USE DEF Inv
<1>1. PICK n \in Nat : Dense(ledger[c], n)
  BY DEF LedgerInv
<1>2. ledger[c] \in SUBSET Event /\ ~Recorded(ledger[c], NoKey)
  BY DEF TypeOK, Recorded
<1>3. PICK e \in Event : /\ Appended(ledger[c], NoKey, NoStatus) = {e}
                         /\ e.sequence = n + 1
                         /\ e.key = NoKey
                         /\ e.status = NoStatus
  BY <1>1, <1>2, AppendedIsNext
<1>4. sink' = [sink EXCEPT ![k] = [call |-> c, event |-> e]]
  BY <1>3 DEF SinkReads
<1>5. UNCHANGED <<row, ledger, initiation, tx, placed, reported, crashes>>
  BY DEF SinkReads
<1>6. [call |-> c, event |-> e] \in Appends
  BY DEF Appends
<1>7. TypeOK'
  BY <1>4, <1>5, <1>6 DEF TypeOK
<1>8. Exists(c)
  BY QueuedIsNext DEF SinkReads, InitiationInv, Absent
<1>9. SinkInv'
  <2> SUFFICES ASSUME NEW j \in Sinks, sink'[j] # Idle
               PROVE  /\ Exists(sink'[j].call)
                      /\ sink'[j].event.key = NoKey
                      /\ sink'[j].event.status = NoStatus
                      /\ sink'[j].event.sequence <= Highest(ledger[sink'[j].call]) + 1
    BY <1>5 DEF SinkInv, Exists
  <2>1. CASE j = k
    <3>1. sink'[j].call = c /\ sink'[j].event = e
      BY <1>4, <2>1 DEF TypeOK
    <3>2. Highest(ledger[c]) = n
      BY <1>1, HighestOfDense
    <3>3. QED
      BY <1>3, <1>8, <3>1, <3>2
  <2>2. CASE j # k
    BY <1>4, <2>2 DEF SinkInv, TypeOK
  <2>3. QED
    BY <2>1, <2>2
<1>10. LedgerInv' /\ InitiationInv' /\ InitiatedCallIsRecorded'
  BY <1>5 DEF LedgerInv, InitiationInv, InitiatedCallIsRecorded, Exists
<1>11. TxInv'
  <2> SUFFICES ASSUME NEW d \in Calls, Locked(d)
               PROVE  /\ Exists(d)'
                      /\ row'[d].sid \in {NoSid, tx'[d].row.sid}
                      /\ (Binding(d) \/ Moving(d) \/ Accepting(d) \/ Refusing(d))'
    BY <1>5 DEF TxInv, Locked
  <2>1. Moving(d) => Moving(d)'
    BY <1>5 DEF Moving
  <2>2. QED
    BY <1>5, <2>1 DEF TxInv, Binding, Accepting, Refusing, MarkedAccepted, MarkedFailed, Exists
<1>12. KeyInv'
  BY <1>5 DEF KeyInv, Notes, Confirms, Concludes
<1>13. LedgerTracksStatus'
  BY <1>5 DEF LedgerTracksStatus, StatusEvents, CallbackEvents, Exists
<1>14. QED
  BY <1>7, <1>9, <1>10, <1>11, <1>12, <1>13

-----------------------------------------------------------------------------
(* Steps that append *)

\* An event at the end of a ledger leaves all ledgers dense, and an append of the
\* conversation no further on than before.
LEMMA LedgerGrows ==
    ASSUME Inv, NEW c \in Calls, NEW n \in Nat, Dense(ledger[c], n),
           NEW e \in Event, e.sequence = n + 1,
           ledger' = [ledger EXCEPT ![c] = @ \cup {e}]
    PROVE  /\ ledger'[c] = ledger[c] \cup {e}
           /\ \A d \in Calls \ {c} : ledger'[d] = ledger[d]
           /\ LedgerInv'
           /\ \A d \in Calls : Highest(ledger[d]) <= Highest(ledger'[d])
           /\ \A d \in Calls : Highest(ledger[d]) \in Nat /\ Highest(ledger'[d]) \in Nat
<1>1. ledger'[c] = ledger[c] \cup {e} /\ \A d \in Calls \ {c} : ledger'[d] = ledger[d]
  BY DEF Inv, TypeOK
<1>2. Dense(ledger'[c], n + 1)
  BY <1>1, DenseGrows DEF Inv, TypeOK
<1>3. LedgerInv'
  <2> SUFFICES ASSUME NEW d \in Calls PROVE \E m \in Nat : Dense(ledger'[d], m)
    BY DEF LedgerInv, Dense
  <2>1. CASE d = c
    BY <1>2, <2>1
  <2>2. CASE d # c
    BY <1>1, <2>2 DEF Inv, LedgerInv
  <2>3. QED
    BY <2>1, <2>2
<1>4. ASSUME NEW d \in Calls
      PROVE  /\ Highest(ledger[d]) <= Highest(ledger'[d])
             /\ Highest(ledger[d]) \in Nat
             /\ Highest(ledger'[d]) \in Nat
  <2>1. CASE d = c
    <3>1. Highest(ledger[c]) = n
      BY HighestOfDense
    <3>2. Highest(ledger'[c]) = n + 1
      BY <1>2, HighestOfDense
    <3>3. QED
      BY <2>1, <3>1, <3>2
  <2>2. CASE d # c
    <3>1. PICK m \in Nat : Dense(ledger[d], m)
      BY DEF Inv, LedgerInv
    <3>2. Highest(ledger[d]) = m
      BY <3>1, HighestOfDense
    <3>3. QED
      BY <1>1, <2>2, <3>2
  <2>3. QED
    BY <2>1, <2>2
<1>5. QED
  BY <1>1, <1>3, <1>4

\* A requested call is a new row with the first event of its ledger.
LEMMA RequestStep ==
    ASSUME Inv, NEW c \in Calls, Request(c)
    PROVE  /\ Inv'
           /\ ~Exists(c)
           /\ row' = [row EXCEPT ![c].status = "pending"]
           /\ \E e \in Event :
                 /\ ledger' = [ledger EXCEPT ![c] = @ \cup {e}]
                 /\ Dense(ledger[c], 0)
                 /\ e.sequence = 1
                 /\ e.status = NoStatus
<1> USE DEF Inv
<1>1. /\ row[c] = Absent
      /\ ledger[c] = {}
      /\ initiation[c] = "none"
      /\ ~Exists(c)
      /\ ~Locked(c)
      /\ \A d \in Calls \ {c} : row'[d] = row[d] /\ initiation'[d] = initiation[d]
      /\ row'[c] = [Absent EXCEPT !.status = "pending"]
      /\ initiation'[c] = "dialling"
      /\ row' = [row EXCEPT ![c].status = "pending"]
      /\ UNCHANGED <<tx, sink, placed, reported, crashes>>
  <2>1. /\ initiation[c] = "none"
        /\ row' = [row EXCEPT ![c].status = "pending"]
        /\ initiation' = [initiation EXCEPT ![c] = "dialling"]
        /\ UNCHANGED <<tx, sink, placed, reported, crashes>>
    BY DEF Request
  <2>2. row[c] = Absent /\ ledger[c] = {}
    BY <2>1 DEF InitiationInv
  <2>3. ~Exists(c)
    BY <2>2 DEF Exists, Absent
  <2>4. ~Locked(c)
    BY <2>3 DEF TxInv
  <2>5. row'[c] = [row[c] EXCEPT !.status = "pending"]
    BY <2>1 DEF TypeOK
  <2>6. \A d \in Calls \ {c} : row'[d] = row[d] /\ initiation'[d] = initiation[d]
    BY <2>1 DEF TypeOK
  <2>7. initiation'[c] = "dialling"
    BY <2>1 DEF TypeOK
  <2>8. QED
    BY <2>1, <2>2, <2>3, <2>4, <2>5, <2>6, <2>7
<1>2. Dense({}, 0) /\ ~Recorded({}, RequestedKey) /\ RequestedKey \in Keys
  BY DEF Dense, Recorded, RequestedKey, Keys
<1>3. PICK e \in Event : /\ Appended({}, RequestedKey, NoStatus) = {e}
                         /\ e.sequence = 1
                         /\ e.key = RequestedKey
                         /\ e.status = NoStatus
  BY <1>2, AppendedIsNext
<1>4. ledger' = [ledger EXCEPT ![c] = @ \cup {e}]
  <2>1. ledger' = [ledger EXCEPT ![c] = {e}]
    BY <1>3 DEF Request
  <2>2. QED
    BY <1>1, <2>1
<1>5. /\ ledger'[c] = {e}
      /\ \A d \in Calls \ {c} : ledger'[d] = ledger[d]
      /\ LedgerInv'
      /\ \A d \in Calls : Highest(ledger[d]) <= Highest(ledger'[d])
      /\ \A d \in Calls : Highest(ledger[d]) \in Nat /\ Highest(ledger'[d]) \in Nat
  <2>1. Dense(ledger[c], 0) /\ 0 \in Nat /\ e.sequence = 0 + 1
    BY <1>1, <1>2, <1>3
  <2>2. /\ ledger'[c] = ledger[c] \cup {e}
        /\ \A d \in Calls \ {c} : ledger'[d] = ledger[d]
        /\ LedgerInv'
        /\ \A d \in Calls : Highest(ledger[d]) <= Highest(ledger'[d])
        /\ \A d \in Calls : Highest(ledger[d]) \in Nat /\ Highest(ledger'[d]) \in Nat
    BY <1>4, <2>1, LedgerGrows
  <2>3. QED
    BY <1>1, <2>2
<1>6. row'[c] = [status |-> "pending", sid |-> NoSid, failed |-> FALSE]
  <2>1. Absent \in CallRow
    BY DEF Absent, CallRow
  <2>2. [Absent EXCEPT !.status = "pending"]
           = [status |-> "pending", sid |-> Absent.sid, failed |-> Absent.failed]
    BY <2>1, RestatedRow
  <2>3. QED
    BY <1>1, <2>2 DEF Absent
<1>7. TypeOK'
  <2>1. row'[c] \in CallRow
    BY <1>6, QueuedIsNext DEF CallRow
  <2>2. row' \in [Calls -> CallRow]
    BY <1>1, <2>1 DEF TypeOK
  <2>3. ledger' \in [Calls -> SUBSET Event]
    BY <1>4 DEF TypeOK
  <2>4. initiation' \in [Calls -> Initiations]
    BY <1>1 DEF TypeOK, Initiations, Request
  <2>5. QED
    BY <1>1, <2>2, <2>3, <2>4 DEF TypeOK
<1>8. TxInv'
  <2> SUFFICES ASSUME NEW d \in Calls, Locked(d)'
               PROVE  /\ Exists(d)'
                      /\ row'[d].sid \in {NoSid, tx'[d].row.sid}
                      /\ (Binding(d) \/ Moving(d) \/ Accepting(d) \/ Refusing(d))'
    BY DEF TxInv
  <2>1. d # c /\ Locked(d)
    BY <1>1 DEF Locked
  <2>2. row'[d] = row[d] /\ ledger'[d] = ledger[d] /\ tx'[d] = tx[d] /\ initiation'[d] = initiation[d]
    BY <1>1, <1>5, <2>1
  <2>3. /\ Exists(d)
        /\ row[d].sid \in {NoSid, tx[d].row.sid}
        /\ Binding(d) \/ Moving(d) \/ Accepting(d) \/ Refusing(d)
    BY <2>1 DEF TxInv
  <2>4. Binding(d) => Binding(d)'
    BY <2>2 DEF Binding
  <2>5. Moving(d) => Moving(d)'
    BY <2>2 DEF Moving
  <2>6. Accepting(d) => Accepting(d)'
    BY <2>2 DEF Accepting, MarkedAccepted
  <2>7. Refusing(d) => Refusing(d)'
    BY <2>2 DEF Refusing, MarkedFailed
  <2>8. QED
    BY <2>2, <2>3, <2>4, <2>5, <2>6, <2>7 DEF Exists
<1>9. SinkInv'
  <2> SUFFICES ASSUME NEW k \in Sinks, sink[k] # Idle
               PROVE  /\ Exists(sink[k].call)'
                      /\ sink[k].event.key = NoKey
                      /\ sink[k].event.status = NoStatus
                      /\ sink[k].event.sequence <= Highest(ledger'[sink[k].call]) + 1
    BY <1>1 DEF SinkInv
  <2>1. sink[k] \in Appends
    BY DEF TypeOK
  <2>2. sink[k].call \in Calls /\ sink[k].event.sequence \in Nat
    BY <2>1 DEF Appends, Event
  <2>3. QED
    BY <1>1, <1>5, <2>2 DEF SinkInv, Exists
<1>10. KeyInv'
  BY <1>1, <1>3, <1>5 DEF KeyInv, Notes, Confirms, Concludes
<1>11. InitiationInv'
  BY <1>1, <1>5, <1>6 DEF InitiationInv, Exists
<1>12. LedgerTracksStatus'
  <2> SUFFICES ASSUME NEW d \in Calls, Exists(d)'
               PROVE  (/\ \/ StatusEvents(d) = {} /\ row[d].status = "pending"
                          \/ \E f \in StatusEvents(d) :
                                /\ f.status = row[d].status
                                /\ \A g \in StatusEvents(d) : g.sequence <= f.sequence
                       /\ \A f, g \in CallbackEvents(d) : f.status = g.status => f = g)'
    BY DEF LedgerTracksStatus
  <2>1. CASE d = c
    BY <1>3, <1>5, <1>6, <2>1 DEF StatusEvents, CallbackEvents
  <2>2. CASE d # c
    BY <1>1, <1>5, <2>2 DEF LedgerTracksStatus, StatusEvents, CallbackEvents, Exists
  <2>3. QED
    BY <2>1, <2>2
<1>13. InitiatedCallIsRecorded'
  BY <1>1, <1>6 DEF InitiatedCallIsRecorded
<1>14. QED
  BY <1>1, <1>2, <1>3, <1>4, <1>5, <1>7, <1>8, <1>9, <1>10, <1>11, <1>12, <1>13

\* The append of a conversation that is let in comes at the end.
LEMMA SinkInsertsStep ==
    ASSUME Inv, NEW k \in Sinks, SinkInserts(k)
    PROVE  /\ Inv'
           /\ row' = row
           /\ \E c \in Calls, n \in Nat, e \in Event :
                 /\ Exists(c)
                 /\ Dense(ledger[c], n)
                 /\ ledger' = [ledger EXCEPT ![c] = @ \cup {e}]
                 /\ e.sequence = n + 1
                 /\ e.status = NoStatus
<1> USE DEF Inv
<1> DEFINE c == sink[k].call
           e == sink[k].event
<1>1. sink[k] \in Appends
  BY DEF SinkInserts, TypeOK
<1>2. c \in Calls /\ e \in Event /\ e.sequence \in Nat \ {0}
  BY <1>1 DEF Appends, Event
<1>3. /\ ledger' = [ledger EXCEPT ![c] = @ \cup {e}]
      /\ sink' = [sink EXCEPT ![k] = Idle]
      /\ UNCHANGED <<row, initiation, tx, placed, reported, crashes>>
      /\ ~Locked(c)
      /\ Insertable(ledger[c], e)
      /\ sink[k] # Idle
  BY DEF SinkInserts
<1>4. PICK n \in Nat : Dense(ledger[c], n)
  BY <1>2 DEF LedgerInv
<1>5. /\ Exists(c)
      /\ e.key = NoKey
      /\ e.status = NoStatus
      /\ e.sequence <= n + 1
  BY <1>2, <1>3, <1>4, HighestOfDense DEF SinkInv
<1>6. e.sequence = n + 1
  <2>1. e.sequence \notin 1 .. n
    BY <1>3, <1>4 DEF Insertable, Dense
  <2>2. QED
    BY <1>2, <1>5, <2>1
<1> HIDE DEF c, e
<1>7. /\ ledger'[c] = ledger[c] \cup {e}
      /\ \A d \in Calls \ {c} : ledger'[d] = ledger[d]
      /\ LedgerInv'
      /\ \A d \in Calls : Highest(ledger[d]) <= Highest(ledger'[d])
      /\ \A d \in Calls : Highest(ledger[d]) \in Nat /\ Highest(ledger'[d]) \in Nat
  BY <1>2, <1>3, <1>4, <1>6, LedgerGrows
<1>8. TypeOK'
  <2>1. ledger' \in [Calls -> SUBSET Event]
    BY <1>2, <1>3 DEF TypeOK
  <2>2. QED
    BY <1>3, <2>1 DEF TypeOK
<1>9. TxInv'
  <2> SUFFICES ASSUME NEW d \in Calls, Locked(d)
               PROVE  /\ Exists(d)'
                      /\ row'[d].sid \in {NoSid, tx'[d].row.sid}
                      /\ (Binding(d) \/ Moving(d) \/ Accepting(d) \/ Refusing(d))'
    BY <1>3 DEF TxInv, Locked
  <2>1. ledger'[d] = ledger[d]
    BY <1>3, <1>7
  <2>2. Moving(d) => Moving(d)'
    BY <1>3, <2>1 DEF Moving
  <2>3. QED
    BY <1>3, <2>1, <2>2
       DEF TxInv, Binding, Accepting, Refusing, MarkedAccepted, MarkedFailed, Exists
<1>10. SinkInv'
  <2> SUFFICES ASSUME NEW j \in Sinks, sink'[j] # Idle
               PROVE  /\ Exists(sink'[j].call)
                      /\ sink'[j].event.key = NoKey
                      /\ sink'[j].event.status = NoStatus
                      /\ sink'[j].event.sequence <= Highest(ledger'[sink'[j].call]) + 1
    BY <1>3 DEF SinkInv, Exists
  <2>1. sink'[j] = sink[j]
    BY <1>3 DEF TypeOK
  <2>2. sink[j] \in Appends
    BY <2>1 DEF TypeOK
  <2>3. sink[j].call \in Calls /\ sink[j].event.sequence \in Nat
    BY <2>2 DEF Appends, Event
  <2>4. QED
    BY <1>7, <2>1, <2>3 DEF SinkInv
<1>11. KeyInv'
  BY <1>3, <1>5, <1>7 DEF KeyInv, Notes, Confirms, Concludes
<1>12. InitiationInv'
  <2>1. initiation[c] # "none"
    BY <1>2, <1>5 DEF InitiationInv, Exists, Absent
  <2>2. QED
    BY <1>3, <1>7, <2>1 DEF InitiationInv, Exists
<1>13. LedgerTracksStatus'
  <2>1. \A d \in Calls : StatusEvents(d)' = StatusEvents(d) /\ CallbackEvents(d)' = CallbackEvents(d)
    BY <1>5, <1>7 DEF StatusEvents, CallbackEvents
  <2>2. QED
    BY <1>3, <2>1 DEF LedgerTracksStatus, Exists
<1>14. InitiatedCallIsRecorded'
  BY <1>3 DEF InitiatedCallIsRecorded
<1>15. Inv'
  BY <1>7, <1>8, <1>9, <1>10, <1>11, <1>12, <1>13, <1>14
<1>16. QED
  BY <1>2, <1>3, <1>4, <1>5, <1>6, <1>15

-----------------------------------------------------------------------------
(* The end of a transaction *)

\* A key that is recorded proves what it stands for, so the key of a transaction
\* that has something to tell is not recorded.
LEMMA KeyIsFresh ==
    ASSUME Inv, NEW c \in Calls
    PROVE  /\ \A sid \in Sids, p \in ProviderStatuses :
                 MovesCall(row[c].status, Normalized[p]) =>
                    ~Recorded(ledger[c], StatusKey(sid, p))
           /\ initiation[c] # "done" =>
                 ~Recorded(ledger[c], QueuedKey(c)) /\ ~Recorded(ledger[c], RefusedKey)
<1> USE DEF Inv
<1>1. c \in Sids
  BY DEF Sids
<1>2. ASSUME NEW sid \in Sids, NEW p \in ProviderStatuses,
             MovesCall(row[c].status, Normalized[p]),
             NEW e \in ledger[c], e.key = StatusKey(sid, p)
      PROVE  FALSE
  <2>1. ~Notes(e)
    BY <1>1, <1>2, KeysDiffer DEF Notes
  <2>2. ~Concludes(e)
    BY <1>1, <1>2, KeysDiffer DEF Concludes
  <2>3. Confirms(e) /\ ~MovesCall(row[c].status, e.status)
    BY <2>1, <2>2 DEF KeyInv
  <2>4. PICK s \in Sids, q \in ProviderStatuses :
           e.key = StatusKey(s, q) /\ e.status = Normalized[q]
    BY <2>3 DEF Confirms
  <2>5. p = q
    BY <1>2, <2>4, StatusKeyNames
  <2>6. QED
    BY <1>2, <2>3, <2>4, <2>5
<1>3. ASSUME NEW e \in ledger[c], initiation[c] # "done",
             e.key = QueuedKey(c) \/ e.key = RefusedKey
      PROVE  FALSE
  <2>1. "busy" \in ProviderStatuses
    BY DEF ProviderStatuses, CallStatuses, TerminalCallStatuses
  <2>2. ~Notes(e)
    BY <1>1, <1>3, <2>1, KeysDiffer DEF Notes
  <2>3. ~Confirms(e)
    BY <1>1, <1>3, KeysDiffer DEF Confirms
  <2>4. QED
    BY <1>3, <2>2, <2>3 DEF KeyInv
<1>4. QED
  BY <1>2, <1>3 DEF Recorded

\* What each kind of transaction appends.
LEMMA CommitAppends ==
    ASSUME Inv, NEW c \in Calls, Locked(c)
    PROVE  \E n \in Nat :
              /\ Dense(ledger[c], n)
              /\ \/ Binding(c)
                 \/ \E e \in Event :
                       /\ tx[c].events = {e}
                       /\ e.sequence = n + 1
                       /\ e.status = tx[c].row.status
                       /\ e.status \in CallStatuses \ {"pending"}
                       /\ \/ /\ Moving(c)
                             /\ Confirms(e)
                             /\ e.key # NoKey
                             /\ e.key.kind = "status"
                             /\ MovesCall(row[c].status, e.status)
                          \/ /\ Accepting(c)
                             /\ Concludes(e)
                             /\ e.key.kind # "status"
                             /\ \/ e.status = row[c].status
                                \/ row[c].status = "pending" /\ e.status = "queued"
                          \/ /\ Refusing(c)
                             /\ Concludes(e)
                             /\ e.key.kind # "status"
                             /\ e.status = "failed"
<1> USE DEF Inv
<1>1. PICK n \in Nat : Dense(ledger[c], n)
  BY DEF LedgerInv
<1>2. /\ ledger[c] \in SUBSET Event
      /\ row[c] \in CallRow
      /\ Exists(c)
      /\ Binding(c) \/ Moving(c) \/ Accepting(c) \/ Refusing(c)
  BY DEF TypeOK, TxInv
<1>3. row[c].status \in CallStatuses
  BY <1>2 DEF CallRow, Exists
<1>4. ASSUME Moving(c)
      PROVE  \E e \in Event :
                /\ tx[c].events = {e}
                /\ e.sequence = n + 1
                /\ e.status = tx[c].row.status
                /\ e.status \in CallStatuses \ {"pending"}
                /\ Confirms(e)
                /\ e.key # NoKey
                /\ e.key.kind = "status"
                /\ MovesCall(row[c].status, e.status)
  <2>1. PICK sid \in Sids, p \in ProviderStatuses :
           /\ MovesCall(row[c].status, Normalized[p])
           /\ tx[c].row = [status |-> Normalized[p], sid |-> sid, failed |-> row[c].failed]
           /\ tx[c].events = Appended(ledger[c], StatusKey(sid, p), Normalized[p])
    BY <1>4 DEF Moving
  <2>2. ~Recorded(ledger[c], StatusKey(sid, p))
    BY <2>1, KeyIsFresh
  <2>3. Normalized[p] \in CallStatuses \ {"pending"}
    BY NormalizedStatus
  <2>4. StatusKey(sid, p) \in Keys /\ StatusKey(sid, p).kind = "status"
    BY DEF StatusKey, Keys
  <2>5. PICK e \in Event : /\ Appended(ledger[c], StatusKey(sid, p), Normalized[p]) = {e}
                           /\ e.sequence = n + 1
                           /\ e.key = StatusKey(sid, p)
                           /\ e.status = Normalized[p]
    BY <1>1, <1>2, <2>2, <2>3, <2>4, AppendedIsNext
  <2>6. e.status = tx[c].row.status
    BY <2>1, <2>5
  <2>7. Confirms(e)
    BY <2>5 DEF Confirms
  <2>8. e.key # NoKey
    BY <2>4, <2>5, CallAssumption
  <2>9. QED
    BY <2>1, <2>3, <2>4, <2>5, <2>6, <2>7, <2>8
<1>5. ASSUME Accepting(c)
      PROVE  \E e \in Event :
                /\ tx[c].events = {e}
                /\ e.sequence = n + 1
                /\ e.status = tx[c].row.status
                /\ e.status \in CallStatuses \ {"pending"}
                /\ Concludes(e)
                /\ e.key.kind # "status"
                /\ \/ e.status = row[c].status
                   \/ row[c].status = "pending" /\ e.status = "queued"
  <2>1. /\ initiation[c] = "accepted"
        /\ tx[c].row = MarkedAccepted(c)
        /\ tx[c].events = Appended(ledger[c], QueuedKey(c), tx[c].row.status)
    BY <1>5 DEF Accepting
  <2>2. ~Recorded(ledger[c], QueuedKey(c))
    BY <2>1, KeyIsFresh
  <2>3. tx[c].row.status = IF row[c].status = "pending" THEN "queued" ELSE row[c].status
    BY <2>1 DEF MarkedAccepted
  <2>4. tx[c].row.status \in CallStatuses \ {"pending"}
    BY <1>3, <2>3, QueuedIsNext
  <2>5. QueuedKey(c) \in Keys /\ QueuedKey(c).kind = "queued" /\ c \in Sids
    BY DEF QueuedKey, Keys, Sids
  <2>6. PICK e \in Event : /\ Appended(ledger[c], QueuedKey(c), tx[c].row.status) = {e}
                           /\ e.sequence = n + 1
                           /\ e.key = QueuedKey(c)
                           /\ e.status = tx[c].row.status
    BY <1>1, <1>2, <2>2, <2>4, <2>5, AppendedIsNext
  <2>7. Concludes(e)
    BY <2>5, <2>6 DEF Concludes
  <2>8. QED
    BY <2>1, <2>3, <2>4, <2>5, <2>6, <2>7
<1>6. ASSUME Refusing(c)
      PROVE  \E e \in Event :
                /\ tx[c].events = {e}
                /\ e.sequence = n + 1
                /\ e.status = tx[c].row.status
                /\ e.status \in CallStatuses \ {"pending"}
                /\ Concludes(e)
                /\ e.key.kind # "status"
                /\ e.status = "failed"
  <2>1. /\ initiation[c] = "refused"
        /\ tx[c].row = MarkedFailed(c)
        /\ tx[c].events = Appended(ledger[c], RefusedKey, tx[c].row.status)
    BY <1>6 DEF Refusing
  <2>2. ~Recorded(ledger[c], RefusedKey)
    BY <2>1, KeyIsFresh
  <2>3. tx[c].row.status = "failed"
    BY <1>2, <2>1 DEF MarkedFailed, CallRow
  <2>4. RefusedKey \in Keys /\ RefusedKey.kind = "initiation_failed"
    BY DEF RefusedKey, Keys
  <2>5. PICK e \in Event : /\ Appended(ledger[c], RefusedKey, tx[c].row.status) = {e}
                           /\ e.sequence = n + 1
                           /\ e.key = RefusedKey
                           /\ e.status = tx[c].row.status
    BY <1>1, <1>2, <2>2, <2>3, <2>4, QueuedIsNext, AppendedIsNext
  <2>6. Concludes(e)
    BY <2>5 DEF Concludes
  <2>7. QED
    BY <2>1, <2>3, <2>4, <2>5, <2>6, QueuedIsNext
<1>7. QED
  BY <1>1, <1>2, <1>4, <1>5, <1>6

\* What a commit leaves alone, and the parts of the invariant that do not depend
\* on the kind of the transaction.
LEMMA CommitFrame ==
    ASSUME Inv, NEW c \in Calls, Commit(c)
    PROVE  /\ Locked(c)
           /\ tx[c] \in Transactions
           /\ row' = [row EXCEPT ![c] = tx[c].row]
           /\ row'[c] = tx[c].row
           /\ \A d \in Calls \ {c} : row'[d] = row[d] /\ initiation'[d] = initiation[d]
           /\ initiation'[c] = IF tx[c].by = "initiator" THEN "done" ELSE initiation[c]
           /\ ledger' = [ledger EXCEPT ![c] = @ \cup tx[c].events]
           /\ sink' = sink
           /\ TypeOK'
           /\ LedgerInv'
           /\ \A d \in Calls \ {c} : ledger'[d] = ledger[d]
           /\ ledger'[c] = ledger[c] \cup tx[c].events
           /\ \A d \in Calls : Highest(ledger[d]) <= Highest(ledger'[d])
           /\ \A d \in Calls : Highest(ledger[d]) \in Nat /\ Highest(ledger'[d]) \in Nat
           /\ TxInv'
<1> USE DEF Inv
<1>1. /\ Locked(c)
      /\ row' = [row EXCEPT ![c] = tx[c].row]
      /\ ledger' = [ledger EXCEPT ![c] = @ \cup tx[c].events]
      /\ tx' = [tx EXCEPT ![c] = NoTx]
      /\ initiation' = IF tx[c].by = "initiator"
                       THEN [initiation EXCEPT ![c] = "done"]
                       ELSE initiation
      /\ UNCHANGED <<sink, placed, reported, crashes>>
  BY DEF Commit, Ended
<1>2. tx[c] \in Transactions
  BY <1>1 DEF Locked, TypeOK
<1>3. tx[c].row \in CallRow /\ tx[c].events \in SUBSET Event
  BY <1>2 DEF Transactions
<1>4. /\ row'[c] = tx[c].row
      /\ \A d \in Calls \ {c} : row'[d] = row[d] /\ initiation'[d] = initiation[d]
      /\ initiation'[c] = IF tx[c].by = "initiator" THEN "done" ELSE initiation[c]
      /\ \A d \in Calls \ {c} : ledger'[d] = ledger[d] /\ tx'[d] = tx[d]
      /\ ledger'[c] = ledger[c] \cup tx[c].events
      /\ tx'[c] = NoTx
  BY <1>1 DEF TypeOK
<1>5. TypeOK'
  <2>1. row' \in [Calls -> CallRow]
    BY <1>1, <1>3 DEF TypeOK
  <2>2. ledger' \in [Calls -> SUBSET Event]
    BY <1>1, <1>3 DEF TypeOK
  <2>3. tx' \in [Calls -> Transactions \cup {NoTx}]
    BY <1>1 DEF TypeOK
  <2>4. initiation' \in [Calls -> Initiations]
    BY <1>1 DEF TypeOK, Initiations
  <2>5. QED
    BY <1>1, <2>1, <2>2, <2>3, <2>4 DEF TypeOK
<1>6. /\ LedgerInv'
      /\ \A d \in Calls : Highest(ledger[d]) <= Highest(ledger'[d])
      /\ \A d \in Calls : Highest(ledger[d]) \in Nat /\ Highest(ledger'[d]) \in Nat
  <2>1. PICK n \in Nat :
           /\ Dense(ledger[c], n)
           /\ Binding(c) \/ \E e \in Event : tx[c].events = {e} /\ e.sequence = n + 1
    BY <1>1, CommitAppends
  <2>2. CASE Binding(c)
    <3>1. ledger' = ledger
      <4>1. ledger' = [ledger EXCEPT ![c] = ledger[c]]
        BY <1>1, <2>2 DEF Binding
      <4>2. QED
        BY <4>1 DEF TypeOK
    <3>2. \A d \in Calls : Highest(ledger[d]) \in Nat
      <4> SUFFICES ASSUME NEW d \in Calls PROVE Highest(ledger[d]) \in Nat
        OBVIOUS
      <4>1. PICK m \in Nat : Dense(ledger[d], m)
        BY DEF LedgerInv
      <4>2. QED
        BY <4>1, HighestOfDense
    <3>3. QED
      BY <3>1, <3>2 DEF LedgerInv
  <2>3. ASSUME NEW e \in Event, tx[c].events = {e}, e.sequence = n + 1
        PROVE  /\ LedgerInv'
               /\ \A d \in Calls : Highest(ledger[d]) <= Highest(ledger'[d])
               /\ \A d \in Calls : Highest(ledger[d]) \in Nat /\ Highest(ledger'[d]) \in Nat
    <3>1. ledger' = [ledger EXCEPT ![c] = @ \cup {e}]
      BY <1>1, <2>3
    <3>2. QED
      BY <2>1, <2>3, <3>1, LedgerGrows
  <2>4. QED
    BY <2>1, <2>2, <2>3
<1>7. TxInv'
  <2> SUFFICES ASSUME NEW d \in Calls, Locked(d)'
               PROVE  /\ Exists(d)'
                      /\ row'[d].sid \in {NoSid, tx'[d].row.sid}
                      /\ (Binding(d) \/ Moving(d) \/ Accepting(d) \/ Refusing(d))'
    BY DEF TxInv
  <2>1. d # c
    BY <1>4 DEF Locked
  <2>2. row'[d] = row[d] /\ ledger'[d] = ledger[d] /\ tx'[d] = tx[d] /\ initiation'[d] = initiation[d]
    BY <1>4, <2>1
  <2>3. /\ Exists(d)
        /\ row[d].sid \in {NoSid, tx[d].row.sid}
        /\ Binding(d) \/ Moving(d) \/ Accepting(d) \/ Refusing(d)
    BY <2>2 DEF TxInv, Locked
  <2>4. Binding(d) => Binding(d)'
    BY <2>2 DEF Binding
  <2>5. Moving(d) => Moving(d)'
    BY <2>2 DEF Moving
  <2>6. Accepting(d) => Accepting(d)'
    BY <2>2 DEF Accepting, MarkedAccepted
  <2>7. Refusing(d) => Refusing(d)'
    BY <2>2 DEF Refusing, MarkedFailed
  <2>8. QED
    BY <2>2, <2>3, <2>4, <2>5, <2>6, <2>7 DEF Exists
<1>8. QED
  BY <1>1, <1>2, <1>4, <1>5, <1>6, <1>7

\* The row a transaction writes, by its kind.
LEMMA RowWritten ==
    ASSUME Inv, NEW c \in Calls, Locked(c)
    PROVE  /\ Binding(c) => /\ tx[c].by = "callback"
                            /\ tx[c].row.status = row[c].status
                            /\ tx[c].row.failed = row[c].failed
           /\ Moving(c) => /\ tx[c].by = "callback"
                           /\ MovesCall(row[c].status, tx[c].row.status)
                           /\ tx[c].row.failed = row[c].failed
           /\ Accepting(c) => /\ tx[c].by = "initiator"
                              /\ tx[c].row.sid = c
                              /\ ~tx[c].row.failed
           /\ Refusing(c) => /\ tx[c].by = "initiator"
                             /\ tx[c].row.status = "failed"
                             /\ tx[c].row.failed
           /\ tx[c].row.status \in CallStatuses
           /\ row[c].status \in CallStatuses
           /\ row[c].sid = c => tx[c].row.sid = c
<1> USE DEF Inv
<1>1. /\ row[c] \in CallRow
      /\ Exists(c)
      /\ row[c].sid \in {NoSid, tx[c].row.sid}
      /\ Binding(c) \/ Moving(c) \/ Accepting(c) \/ Refusing(c)
  BY DEF TypeOK, TxInv
<1>2. row[c].status \in CallStatuses
  BY <1>1 DEF CallRow, Exists
<1>3. Binding(c) => /\ tx[c].by = "callback"
                    /\ tx[c].row.status = row[c].status
                    /\ tx[c].row.failed = row[c].failed
  <2> SUFFICES ASSUME Binding(c)
               PROVE  /\ tx[c].by = "callback"
                      /\ tx[c].row.status = row[c].status
                      /\ tx[c].row.failed = row[c].failed
    OBVIOUS
  <2> DEFINE r == [status |-> row[c].status, sid |-> tx[c].row.sid, failed |-> row[c].failed]
  <2>1. tx[c].row = r /\ tx[c].by = "callback"
    BY DEF Binding
  <2>2. r.status = row[c].status /\ r.failed = row[c].failed
    OBVIOUS
  <2> HIDE DEF r
  <2>3. QED
    BY <2>1, <2>2
<1>4. Moving(c) => /\ tx[c].by = "callback"
                   /\ MovesCall(row[c].status, tx[c].row.status)
                   /\ tx[c].row.failed = row[c].failed
  BY DEF Moving
<1>5. Accepting(c) => /\ tx[c].by = "initiator"
                      /\ tx[c].row.sid = c
                      /\ ~tx[c].row.failed
  BY DEF Accepting, MarkedAccepted
<1>6. Refusing(c) => /\ tx[c].by = "initiator"
                     /\ tx[c].row.status = "failed"
                     /\ tx[c].row.failed
  BY <1>1 DEF Refusing, MarkedFailed, CallRow
<1>7. tx[c].row.status \in CallStatuses
  BY <1>1, <1>2, <1>3, CommitAppends
<1>8. row[c].sid = c => tx[c].row.sid = c
  BY <1>1, CallAssumption DEF Sids
<1>9. QED
  BY <1>2, <1>3, <1>4, <1>5, <1>6, <1>7, <1>8

\* A commit makes what the transaction computed when it began the row and the ledger;
\* the lock has kept both, so that is still what its handler would compute.
LEMMA CommitStep ==
    ASSUME Inv, NEW c \in Calls, Commit(c)
    PROVE  Inv'
<1> USE DEF Inv
<1>1. /\ Locked(c)
      /\ row'[c] = tx[c].row
      /\ \A d \in Calls \ {c} : row'[d] = row[d] /\ initiation'[d] = initiation[d]
      /\ initiation'[c] = IF tx[c].by = "initiator" THEN "done" ELSE initiation[c]
      /\ sink' = sink
      /\ \A d \in Calls \ {c} : ledger'[d] = ledger[d]
      /\ ledger'[c] = ledger[c] \cup tx[c].events
      /\ \A d \in Calls : Highest(ledger[d]) <= Highest(ledger'[d])
      /\ \A d \in Calls : Highest(ledger[d]) \in Nat /\ Highest(ledger'[d]) \in Nat
  BY CommitFrame
<1>2. TypeOK' /\ LedgerInv' /\ TxInv'
  BY CommitFrame
<1>3. /\ Exists(c)
      /\ Binding(c) \/ Moving(c) \/ Accepting(c) \/ Refusing(c)
      /\ ledger[c] \in SUBSET Event
      /\ initiation[c] # "none"
  BY <1>1 DEF TypeOK, TxInv, InitiationInv, Exists, Absent
<1>4. /\ Binding(c) => /\ tx[c].by = "callback"
                       /\ tx[c].row.status = row[c].status
                       /\ tx[c].row.failed = row[c].failed
      /\ Moving(c) => /\ tx[c].by = "callback"
                      /\ MovesCall(row[c].status, tx[c].row.status)
                      /\ tx[c].row.failed = row[c].failed
      /\ Accepting(c) => /\ tx[c].by = "initiator"
                         /\ tx[c].row.sid = c
                         /\ ~tx[c].row.failed
      /\ Refusing(c) => /\ tx[c].by = "initiator"
                        /\ tx[c].row.status = "failed"
                        /\ tx[c].row.failed
      /\ tx[c].row.status \in CallStatuses
      /\ row[c].status \in CallStatuses
      /\ row[c].sid = c => tx[c].row.sid = c
  BY <1>1, RowWritten
<1>5. PICK n \in Nat :
         /\ Dense(ledger[c], n)
         /\ \/ Binding(c)
            \/ \E e \in Event :
                  /\ tx[c].events = {e}
                  /\ e.sequence = n + 1
                  /\ e.status = tx[c].row.status
                  /\ e.status \in CallStatuses \ {"pending"}
                  /\ \/ /\ Moving(c)
                        /\ Confirms(e)
                        /\ e.key # NoKey
                        /\ e.key.kind = "status"
                        /\ MovesCall(row[c].status, e.status)
                     \/ /\ Accepting(c)
                        /\ Concludes(e)
                        /\ e.key.kind # "status"
                        /\ \/ e.status = row[c].status
                           \/ row[c].status = "pending" /\ e.status = "queued"
                     \/ /\ Refusing(c)
                        /\ Concludes(e)
                        /\ e.key.kind # "status"
                        /\ e.status = "failed"
  BY <1>1, CommitAppends
<1>6. Exists(c)'
  BY <1>1, <1>4, QueuedIsNext DEF Exists
<1>7. SinkInv'
  <2> SUFFICES ASSUME NEW k \in Sinks, sink[k] # Idle
               PROVE  /\ Exists(sink[k].call)'
                      /\ sink[k].event.key = NoKey
                      /\ sink[k].event.status = NoStatus
                      /\ sink[k].event.sequence <= Highest(ledger'[sink[k].call]) + 1
    BY <1>1 DEF SinkInv
  <2>1. sink[k] \in Appends
    BY DEF TypeOK
  <2>2. sink[k].call \in Calls /\ sink[k].event.sequence \in Nat
    BY <2>1 DEF Appends, Event
  <2>3. QED
    BY <1>1, <1>6, <2>2 DEF SinkInv, Exists
<1>8. \A s \in CallStatuses : ~MovesCall(row[c].status, s) => ~MovesCall(tx[c].row.status, s)
  <2> SUFFICES ASSUME NEW s \in CallStatuses, ~MovesCall(row[c].status, s)
               PROVE  ~MovesCall(tx[c].row.status, s)
    OBVIOUS
  <2>1. CASE tx[c].row.status = row[c].status
    BY <2>1
  <2>2. CASE MovesCall(row[c].status, tx[c].row.status)
    BY <1>4, <2>2, PassedStaysPassed
  <2>3. CASE tx[c].row.status = "failed"
    BY <2>3, StatusIsPassed
  <2>4. QED
    BY <1>3, <1>4, <1>5, <2>1, <2>2, <2>3, QueuedIsNext
<1>9. KeyInv'
  <2> SUFFICES ASSUME NEW d \in Calls, NEW f \in ledger'[d]
               PROVE  \/ Notes(f) /\ f.status = NoStatus
                      \/ Confirms(f) /\ ~MovesCall(row'[d].status, f.status)
                      \/ Concludes(f) /\ f.status \in CallStatuses /\ initiation'[d] = "done"
    BY DEF KeyInv, Notes, Confirms, Concludes
  <2>1. CASE d # c
    BY <1>1, <2>1 DEF KeyInv
  <2>2. CASE d = c /\ f \in ledger[c]
    <3>1. Confirms(f) => f.status \in CallStatuses
      BY NormalizedStatus DEF Confirms
    <3>2. QED
      BY <1>1, <1>8, <2>2, <3>1 DEF KeyInv
  <2>3. CASE d = c /\ f \in tx[c].events
    <3>1. \/ Confirms(f) /\ f.status = tx[c].row.status
          \/ Concludes(f) /\ f.status \in CallStatuses /\ tx[c].by = "initiator"
      BY <1>4, <1>5, <2>3 DEF Binding
    <3>2. ~MovesCall(tx[c].row.status, tx[c].row.status)
      BY <1>4, StatusIsPassed
    <3>3. QED
      BY <1>1, <2>3, <3>1, <3>2
  <2>4. QED
    BY <1>1, <2>1, <2>2, <2>3
<1>10. InitiationInv'
  BY <1>1, <1>3, <1>4, <1>6 DEF InitiationInv, Exists
<1>11. InitiatedCallIsRecorded'
  <2> SUFFICES ASSUME NEW d \in Calls
               PROVE  /\ initiation'[d] = "done" =>
                            /\ row'[d].status # "pending"
                            /\ row'[d].sid = d \/ row'[d].failed
                      /\ row'[d].failed => row'[d].status = "failed"
    BY DEF InitiatedCallIsRecorded
  <2>1. CASE d # c
    BY <1>1, <2>1 DEF InitiatedCallIsRecorded
  <2>2. CASE d = c /\ Binding(c)
    BY <1>1, <1>4, <2>2 DEF InitiatedCallIsRecorded
  <2>3. CASE d = c /\ ~Binding(c)
    <3>1. tx[c].row.status # "pending"
      BY <1>5, <2>3
    <3>2. CASE Moving(c)
      <4>1. ~row[c].failed
        BY <1>4, <3>2, StatusIsPassed DEF InitiatedCallIsRecorded
      <4>2. QED
        BY <1>1, <1>4, <2>3, <3>1, <3>2, <4>1 DEF InitiatedCallIsRecorded
    <3>3. QED
      BY <1>1, <1>3, <1>4, <2>3, <3>1, <3>2
  <2>4. QED
    BY <2>1, <2>2, <2>3
<1>12. LedgerTracksStatus'
  <2> SUFFICES ASSUME NEW d \in Calls, Exists(d)'
               PROVE  (/\ \/ StatusEvents(d) = {} /\ row[d].status = "pending"
                          \/ \E f \in StatusEvents(d) :
                                /\ f.status = row[d].status
                                /\ \A g \in StatusEvents(d) : g.sequence <= f.sequence
                       /\ \A f, g \in CallbackEvents(d) : f.status = g.status => f = g)'
    BY DEF LedgerTracksStatus
  <2>1. CASE d # c
    BY <1>1, <2>1 DEF LedgerTracksStatus, StatusEvents, CallbackEvents, Exists
  <2>2. CASE d = c /\ Binding(c)
    <3>1. ledger'[c] = ledger[c] /\ row'[c].status = row[c].status
      BY <1>1, <1>4, <2>2 DEF Binding
    <3>2. QED
      BY <1>3, <2>2, <3>1 DEF LedgerTracksStatus, StatusEvents, CallbackEvents
  <2>3. CASE d = c /\ ~Binding(c)
    <3>1. PICK e \in Event :
             /\ tx[c].events = {e}
             /\ e.sequence = n + 1
             /\ e.status = tx[c].row.status
             /\ e.status \in CallStatuses \ {"pending"}
             /\ \/ Moving(c) /\ MovesCall(row[c].status, e.status)
                \/ e.key.kind # "status"
      BY <1>5, <2>3
    <3>2. ledger'[c] = ledger[c] \cup {e} /\ row'[c].status = e.status
      BY <1>1, <3>1
    <3>3. \A f \in ledger[c] : f.sequence \in 1 .. n
      BY <1>3, <1>5, <3>1, DenseGrows
    <3>4. e.status # NoStatus
      BY <3>1, CallAssumption
    <3>5. e \in StatusEvents(c)' /\ \A g \in StatusEvents(c)' : g.sequence <= e.sequence
      BY <3>1, <3>2, <3>3, <3>4 DEF StatusEvents
    <3>6. ASSUME NEW f \in ledger[c], f.key # NoKey, f.key.kind = "status",
                 e.key.kind = "status"
          PROVE  f.status # e.status
      <4>1. /\ RequestedKey.kind = "requested"
            /\ RefusedKey.kind = "initiation_failed"
            /\ \A sid \in Sids : QueuedKey(sid).kind = "queued"
        BY DEF RequestedKey, RefusedKey, QueuedKey
      <4>2. ~Notes(f) /\ ~Concludes(f)
        BY <3>6, <4>1 DEF Notes, Concludes
      <4>3. ~MovesCall(row[c].status, f.status)
        BY <4>2 DEF KeyInv
      <4>4. QED
        BY <3>1, <3>6, <4>3
    <3>7. \A f, g \in CallbackEvents(c)' : f.status = g.status => f = g
      BY <1>3, <3>2, <3>6 DEF LedgerTracksStatus, CallbackEvents
    <3>8. QED
      BY <2>3, <3>2, <3>5, <3>7
  <2>4. QED
    BY <2>1, <2>2, <2>3
<1>13. QED
  BY <1>2, <1>7, <1>9, <1>10, <1>11, <1>12

-----------------------------------------------------------------------------
(* The invariant is inductive *)

\* The steps that touch neither a row nor a ledger keep the invariant.
LEMMA QuietSteps ==
    ASSUME Inv,
           \/ \E c \in Calls :
                 \/ DialReturns(c)
                 \/ DialRaises(c)
                 \/ AcceptedMismatch(c)
                 \/ Abort(c)
                 \/ ProviderPlaces(c)
                 \/ \E p \in Reports : ProviderReports(c, p)
           \/ \E k \in Sinks : SinkRefused(k)
           \/ Crash
    PROVE  Inv' /\ UNCHANGED <<row, ledger>>
<1> USE DEF Inv
<1>1. \A c \in Calls : Locked(c) /\ tx[c].by # "callback" =>
                          initiation[c] \in {"accepted", "refused"}
  BY DEF TxInv, Binding, Moving, Accepting, Refusing
<1>2. ASSUME NEW c \in Calls, DialReturns(c) \/ DialRaises(c) \/ AcceptedMismatch(c)
      PROVE  Inv' /\ UNCHANGED <<row, ledger>>
  <2>1. TypeOK'
    BY <1>2 DEF DialReturns, DialRaises, AcceptedMismatch, TypeOK, Initiations
  <2>2. /\ UNCHANGED <<row, ledger, tx, sink>>
        /\ \A d \in Calls \ {c} : initiation'[d] = initiation[d]
        /\ initiation'[c] \in {"accepted", "refused", "cut"}
        /\ initiation[c] \in {"dialling", "accepted"}
        /\ initiation[c] = "accepted" => ~Locked(c)
    <3>1. CASE DialReturns(c)
      <4>1. /\ UNCHANGED <<row, ledger, tx, sink>>
            /\ initiation[c] = "dialling"
            /\ initiation' = [initiation EXCEPT ![c] = "accepted"]
        BY <3>1 DEF DialReturns
      <4>2. initiation'[c] = "accepted" /\ \A d \in Calls \ {c} : initiation'[d] = initiation[d]
        BY <4>1 DEF TypeOK
      <4>3. QED
        BY <4>1, <4>2
    <3>2. CASE DialRaises(c)
      <4>1. /\ UNCHANGED <<row, ledger, tx, sink>>
            /\ initiation[c] = "dialling"
            /\ initiation' = [initiation EXCEPT ![c] = "refused"]
        BY <3>2 DEF DialRaises
      <4>2. initiation'[c] = "refused" /\ \A d \in Calls \ {c} : initiation'[d] = initiation[d]
        BY <4>1 DEF TypeOK
      <4>3. QED
        BY <4>1, <4>2
    <3>3. CASE AcceptedMismatch(c)
      BY <3>3 DEF AcceptedMismatch, TypeOK
    <3>4. QED
      BY <1>2, <3>1, <3>2, <3>3
  <2>3. tx'[c] = NoTx \/ tx[c].by = "callback"
    BY <1>1, <2>2 DEF Locked
  <2>4. \A d \in Calls :
           \/ initiation'[d] = initiation[d]
           \/ /\ initiation[d] \in {"dialling", "accepted", "refused"}
              /\ initiation'[d] \in {"accepted", "refused", "cut"}
              /\ tx'[d] = NoTx \/ tx[d].by = "callback"
    BY <2>2, <2>3
  <2>5. QED
    BY <2>1, <2>2, <2>4, QuietStep
<1>3. ASSUME NEW c \in Calls, Abort(c) PROVE Inv' /\ UNCHANGED <<row, ledger>>
  <2>1. /\ Locked(c)
        /\ tx' = [tx EXCEPT ![c] = NoTx]
        /\ initiation' = IF tx[c].by = "initiator"
                         THEN [initiation EXCEPT ![c] = "cut"]
                         ELSE initiation
        /\ UNCHANGED <<row, ledger, sink, placed, reported, crashes>>
    BY <1>3 DEF Abort, Ended, Collides
  <2>2. TypeOK'
    BY <2>1 DEF TypeOK, Initiations
  <2>3. \A d \in Calls :
           \/ initiation'[d] = initiation[d]
           \/ /\ initiation[d] \in {"dialling", "accepted", "refused"}
              /\ initiation'[d] \in {"accepted", "refused", "cut"}
              /\ tx'[d] = NoTx \/ tx[d].by = "callback"
    BY <1>1, <2>1 DEF TypeOK
  <2>4. \A d \in Calls : tx'[d] \in {tx[d], NoTx}
    BY <2>1 DEF TypeOK
  <2>5. QED
    BY <2>1, <2>2, <2>3, <2>4, QuietStep
<1>4. ASSUME NEW c \in Calls, ProviderPlaces(c) \/ \E p \in Reports : ProviderReports(c, p)
      PROVE  Inv' /\ UNCHANGED <<row, ledger>>
  <2>1. TypeOK' /\ UNCHANGED <<row, ledger, initiation, tx, sink>>
    BY <1>4 DEF ProviderPlaces, ProviderReports, TypeOK
  <2>2. QED
    BY <2>1, QuietStep
<1>5. ASSUME NEW k \in Sinks, SinkRefused(k) PROVE Inv' /\ UNCHANGED <<row, ledger>>
  <2>1. TypeOK' /\ UNCHANGED <<row, ledger, initiation, tx>>
    BY <1>5 DEF SinkRefused, TypeOK
  <2>2. \A j \in Sinks : sink'[j] \in {sink[j], Idle}
    BY <1>5 DEF SinkRefused, TypeOK
  <2>3. QED
    BY <2>1, <2>2, QuietStep
<1>6. CASE Crash
  <2>1. /\ UNCHANGED <<row, ledger>>
        /\ tx' = [c \in Calls |-> NoTx]
        /\ sink' = [k \in Sinks |-> Idle]
        /\ initiation' = [c \in Calls |->
                             IF initiation[c] \in {"none", "done"} THEN initiation[c]
                             ELSE "cut"]
    BY <1>6 DEF Crash
  <2>2. TypeOK'
    BY <1>6, <2>1, CallAssumption DEF Crash, TypeOK, Initiations
  <2>3. \A d \in Calls :
           \/ initiation'[d] = initiation[d]
           \/ /\ initiation[d] \in {"dialling", "accepted", "refused"}
              /\ initiation'[d] \in {"accepted", "refused", "cut"}
              /\ tx'[d] = NoTx \/ tx[d].by = "callback"
    BY <2>1 DEF TypeOK, Initiations
  <2>4. QED
    BY <2>1, <2>2, <2>3, QuietStep
<1>7. QED
  BY <1>2, <1>3, <1>4, <1>5, <1>6

\* Every step keeps the invariant.
LEMMA NextInv == Inv /\ [Next]_vars => Inv'
<1>1. CASE UNCHANGED vars
  <2> SUFFICES ASSUME Inv PROVE Inv'
    OBVIOUS
  <2>1. UNCHANGED <<row, ledger, initiation, tx, sink, placed, reported, crashes>>
    BY <1>1 DEF vars
  <2>2. TypeOK'
    BY <2>1 DEF Inv, TypeOK
  <2>3. QED
    BY <2>1, <2>2, QuietStep
<1>2. CASE Next
  BY <1>2, RequestStep, BeginsStep, CommitStep, SinkReadsStep, SinkInsertsStep, QuietSteps
     DEF Next
<1>3. QED
  BY <1>1, <1>2

\* The variables hold rows, ledgers and transactions of the declared shapes.
THEOREM TypeCorrect == Spec => []TypeOK
BY InitInv, NextInv, PTL DEF Spec, Inv

\* The ledger tells the state of the call, one event per status reported.
THEOREM LedgerAlwaysTracksStatus == Spec => []LedgerTracksStatus
BY InitInv, NextInv, PTL DEF Spec, Inv

\* Once initiate_call is through the call carries the provider's id or is marked
\* as failed and stays so.
THEOREM InitiatedCallIsAlwaysRecorded == Spec => []InitiatedCallIsRecorded
BY InitInv, NextInv, PTL DEF Spec, Inv

-----------------------------------------------------------------------------
(* The record of a call *)

\* A status that moves the call advances its record.
LEMMA MovesAdvance ==
    ASSUME NEW from \in CallStatuses, NEW to \in CallStatuses, MovesCall(from, to)
    PROVE  /\ from \in Record!LiveCallStatuses
           /\ to \in Record!LiveCallStatuses =>
                 Record!NonTerminalOrder[from] < Record!NonTerminalOrder[to]
BY DEF MovesCall, CallStatuses, LiveCallStatuses, TerminalCallStatuses, NonTerminalOrder,
       Record!LiveCallStatuses, Record!NonTerminalOrder

\* The record knows the statuses that the calls have.
LEMMA RecordStatuses == Record!CallStatuses = CallStatuses
BY DEF CallStatuses, LiveCallStatuses, TerminalCallStatuses,
       Record!CallStatuses, Record!LiveCallStatuses, Record!TerminalCallStatuses

\* An inserted event is one entry more in the log of its call.
LEMMA EventIsLogged ==
    ASSUME Inv, NEW c \in Calls, NEW n \in Nat, Dense(ledger[c], n),
           NEW e \in Event, e.sequence = n + 1,
           ledger' = [ledger EXCEPT ![c] = @ \cup {e}]
    PROVE  Record!Logs(c, e.status)
<1>1. ledger \in [Calls -> SUBSET Event]
  BY DEF Inv, TypeOK
<1>2. Log(ledger[c] \cup {e}) = Append(Log(ledger[c]), e.status)
  BY <1>1, LogGrows
<1>3. \A d \in Calls : ledger'[d] = IF d = c THEN ledger[c] \cup {e} ELSE ledger[d]
  BY <1>1
<1>4. [d \in Calls |-> Log(ledger'[d])]
         = [[d \in Calls |-> Log(ledger[d])] EXCEPT ![c] = Append(@, e.status)]
  <2> DEFINE F == [d \in Calls |-> Log(ledger[d])]
             G == [d \in Calls |-> Log(ledger'[d])]
  <2>1. \A d \in Calls : G[d] = IF d = c THEN Append(F[c], e.status) ELSE F[d]
    <3>1. ledger'[c] = ledger[c] \cup {e} /\ \A d \in Calls \ {c} : ledger'[d] = ledger[d]
      BY <1>3
    <3>2. G[c] = Append(F[c], e.status)
      BY <1>2, <3>1
    <3>3. \A d \in Calls \ {c} : G[d] = F[d]
      BY <3>1
    <3> HIDE DEF F, G
    <3>4. QED
      BY <3>2, <3>3
  <2>2. DOMAIN F = Calls /\ DOMAIN G = Calls
    OBVIOUS
  <2>3. F = [d \in Calls |-> F[d]] /\ G = [d \in Calls |-> G[d]]
    OBVIOUS
  <2> HIDE DEF F, G
  <2>4. G = [F EXCEPT ![c] = Append(F[c], e.status)]
    BY <2>1, <2>2, <2>3
  <2>5. QED
    BY <2>4 DEF F, G
<1>5. QED
  BY <1>4 DEF Record!Logs

\* Requesting a call opens its record.
LEMMA RequestOpens ==
    ASSUME Inv, NEW c \in Calls, Request(c)
    PROVE  Record!Open(c)
<1>1. PICK e \in Event :
         /\ ~Exists(c)
         /\ row' = [row EXCEPT ![c].status = "pending"]
         /\ ledger' = [ledger EXCEPT ![c] = @ \cup {e}]
         /\ Dense(ledger[c], 0)
         /\ e.sequence = 1
         /\ e.status = NoStatus
  BY RequestStep
<1>2. Record!Logs(c, NoStatus)
  <2>1. 0 \in Nat /\ e.sequence = 0 + 1
    BY <1>1
  <2>2. Record!Logs(c, e.status)
    BY <1>1, <2>1, EventIsLogged
  <2>3. QED
    BY <1>1, <2>2
<1>3. row \in [Calls -> CallRow]
  BY DEF Inv, TypeOK
<1>4. \A d \in Calls : row'[d].status = IF d = c THEN "pending" ELSE row[d].status
  <2>1. row[c] \in CallRow
    BY <1>3
  <2>2. row'[c] = [row[c] EXCEPT !.status = "pending"]
    BY <1>1, <1>3
  <2>3. row'[c].status = "pending"
    BY <2>1, <2>2, RestatedRow
  <2>4. \A d \in Calls \ {c} : row'[d] = row[d]
    BY <1>1, <1>3
  <2>5. QED
    BY <2>3, <2>4
<1>5. QED
  BY <1>1, <1>2, <1>4 DEF Record!Open, Exists

\* An event of the conversation is a note in the record of its call.
LEMMA SinkInsertNotes ==
    ASSUME Inv, NEW k \in Sinks, SinkInserts(k)
    PROVE  \E c \in Calls : Record!Note(c)
<1>1. PICK c \in Calls, n \in Nat, e \in Event :
         /\ row' = row
         /\ Exists(c)
         /\ Dense(ledger[c], n)
         /\ ledger' = [ledger EXCEPT ![c] = @ \cup {e}]
         /\ e.sequence = n + 1
         /\ e.status = NoStatus
  BY SinkInsertsStep
<1>2. Record!Logs(c, NoStatus)
  <2>1. Record!Logs(c, e.status)
    BY <1>1, EventIsLogged
  <2>2. QED
    BY <1>1, <2>1
<1>3. QED
  BY <1>1, <1>2 DEF Record!Note, Exists

\* A commit advances, confirms or refuses the call, or shows nothing at all.
LEMMA CommitIsRecorded ==
    ASSUME Inv, NEW c \in Calls, Commit(c)
    PROVE  \/ \E to \in CallStatuses : Record!Advance(c, to)
           \/ Record!Confirm(c)
           \/ Record!Refuse(c)
           \/ UNCHANGED Record!record
<1>1. /\ Locked(c)
      /\ row'[c] = tx[c].row
      /\ \A d \in Calls \ {c} : row'[d] = row[d]
      /\ ledger' = [ledger EXCEPT ![c] = @ \cup tx[c].events]
  BY CommitFrame
<1>2. /\ tx[c].row.status \in CallStatuses
      /\ row[c].status \in CallStatuses
      /\ Binding(c) => tx[c].row.status = row[c].status
  BY <1>1, RowWritten
<1>3. row[c].status # "absent"
  BY <1>2, QueuedIsNext
<1>4. [d \in Calls |-> row'[d].status]
         = [[d \in Calls |-> row[d].status] EXCEPT ![c] = tx[c].row.status]
  BY <1>1
<1>5. CASE Binding(c)
  <2>1. ledger' = ledger
    <3>1. ledger' = [ledger EXCEPT ![c] = ledger[c]]
      BY <1>1, <1>5 DEF Binding
    <3>2. QED
      BY <3>1 DEF Inv, TypeOK
  <2>2. [d \in Calls |-> row'[d].status] = [d \in Calls |-> row[d].status]
    BY <1>2, <1>4, <1>5
  <2>3. QED
    BY <2>1, <2>2 DEF Record!record
<1>6. CASE ~Binding(c)
  <2>1. PICK n \in Nat, e \in Event :
           /\ Dense(ledger[c], n)
           /\ tx[c].events = {e}
           /\ e.sequence = n + 1
           /\ e.status = tx[c].row.status
           /\ e.status \in CallStatuses \ {"pending"}
           /\ \/ MovesCall(row[c].status, e.status)
              \/ e.status = row[c].status
              \/ row[c].status = "pending" /\ e.status = "queued"
              \/ e.status = "failed"
    BY <1>1, <1>6, CommitAppends
  <2>2. Record!Logs(c, e.status)
    BY <1>1, <2>1, EventIsLogged
  <2>3. CASE MovesCall(row[c].status, e.status)
    <3>1. Record!Advance(c, e.status)
      BY <1>2, <1>4, <2>1, <2>2, <2>3, MovesAdvance DEF Record!Advance
    <3>2. QED
      BY <2>1, <3>1
  <2>4. CASE e.status = row[c].status
    <3>1. [d \in Calls |-> row'[d].status] = [d \in Calls |-> row[d].status]
      BY <1>4, <2>1, <2>4
    <3>2. Record!Confirm(c)
      BY <2>1, <2>2, <2>4, <3>1, RecordStatuses DEF Record!Confirm
    <3>3. QED
      BY <3>2
  <2>5. CASE e.status = "failed"
    <3>1. Record!Refuse(c)
      BY <1>3, <1>4, <2>1, <2>2, <2>5 DEF Record!Refuse
    <3>2. QED
      BY <3>1
  <2>6. QED
    BY <2>1, <2>3, <2>4, <2>5, QueuedIsNext
<1>7. QED
  BY <1>5, <1>6

\* What a step looks like to a reader of the record.
LEMMA RecordStep ==
    ASSUME Inv, [Next]_vars
    PROVE  [Record!Next]_(Record!record)
<1>1. ASSUME NEW c \in Calls, Request(c) PROVE Record!Next
  BY <1>1, RequestOpens DEF Record!Next
<1>2. ASSUME NEW c \in Calls, Commit(c) PROVE [Record!Next]_(Record!record)
  BY <1>2, CommitIsRecorded, RecordStatuses DEF Record!Next
<1>3. ASSUME NEW k \in Sinks, SinkInserts(k) PROVE Record!Next
  BY <1>3, SinkInsertNotes DEF Record!Next
<1>4. CASE UNCHANGED <<row, ledger>>
  BY <1>4 DEF Record!record
<1>5. CASE UNCHANGED vars
  BY <1>4, <1>5 DEF vars
<1>6. ASSUME NEW c \in Calls,
             \/ BeginAccepted(c)
             \/ BeginRefused(c)
             \/ \E sid \in Sids, p \in Reports : BeginCallback(c, sid, p)
      PROVE  UNCHANGED <<row, ledger>>
  BY <1>6 DEF BeginAccepted, BeginRefused, BeginCallback
<1>7. ASSUME NEW k \in Sinks, NEW c \in Calls, SinkReads(k, c)
      PROVE  UNCHANGED <<row, ledger>>
  BY <1>7 DEF SinkReads
<1>8. QED
  BY <1>1, <1>2, <1>3, <1>4, <1>5, <1>6, <1>7, QuietSteps DEF Next

\* Whatever initiation, callbacks, conversation and restarts do to each other, the
\* record of a call only moves forward and keeps one entry per change.
THEOREM CallAlwaysKeepsRecord == Spec => CallKeepsRecord
<1>1. Init => Record!Init
  <2> SUFFICES ASSUME Init PROVE Record!Init
    OBVIOUS
  <2>1. [c \in Calls |-> row[c].status] = [c \in Calls |-> "absent"]
    BY DEF Init, Absent
  <2>2. Log({}) = << >>
    <3>1. Dense({}, 0) /\ {} \in SUBSET Event /\ 0 \in Nat
      BY DEF Dense
    <3>2. Log({}) \in Seq(CallStatuses \cup {NoStatus}) /\ Len(Log({})) = 0
      BY <3>1, LogOfDense
    <3>3. QED
      BY <3>2, EmptySeq
  <2>3. [c \in Calls |-> Log(ledger[c])] = [c \in Calls |-> << >>]
    BY <2>2 DEF Init
  <2>4. QED
    BY <2>1, <2>3 DEF Record!Init
<1>2. Inv /\ [Next]_vars => [Record!Next]_(Record!record)
  BY RecordStep
<1>3. QED
  BY <1>1, <1>2, InitInv, NextInv, PTL DEF Spec, CallKeepsRecord, Record!Spec

===============================================================================
