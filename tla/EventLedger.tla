----------------------------- MODULE EventLedger ------------------------------
(***************************************************************************)
(* The append-only event ledger of one call (events/repository.py,         *)
(* events/models.py).  A ledger is the set of the call's committed rows; a *)
(* row keeps its sequence number, its idempotency key and the call status  *)
(* its payload carries.  Other payload and the envelope are left out.      *)
(*                                                                         *)
(* An append is not atomic: it reads the highest sequence number, and the  *)
(* insert that follows meets the two unique constraints of the table.      *)
(***************************************************************************)
EXTENDS Naturals, FiniteSetsExt

CONSTANTS
    NoKey,     \* an idempotency_key that is None
    NoStatus   \* the payload names no status

\* The highest sequence number that is taken.
Highest(ledger) == Max({0} \cup {e.sequence : e \in ledger})

\* Mutant: the highest number is used again.
HighestSequence(ledger) == Highest(ledger)

\* _next_sequence
NextSequence(ledger) == Highest(ledger) + 1

\* get_by_idempotency_key finds a row.
Recorded(ledger, key) == key # NoKey /\ \E e \in ledger : e.key = key

\* What an append that has read this ledger will insert: nothing if the key
\* is recorded already.
Appended(ledger, key, status) ==
    IF Recorded(ledger, key) THEN {}
    ELSE {[sequence |-> NextSequence(ledger), key |-> key, status |-> status]}

\* Mutant: the table has no unique constraint.
Unconstrained(ledger, row) == TRUE

\* uq_events_call_sequence and uq_events_idempotency_key let the row in.
Insertable(ledger, row) ==
    /\ \A e \in ledger : e.sequence # row.sequence
    /\ ~Recorded(ledger, row.key)

===============================================================================
