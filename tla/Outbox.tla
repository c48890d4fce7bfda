-------------------------------- MODULE Outbox --------------------------------
(***************************************************************************)
(* The rows of the SQLite outbox as the gateway's workers see them         *)
(* (modules/storage/outbox_store.c).  Each operator is one call of the     *)
(* store: the store runs every call in one transaction and only the        *)
(* storage worker calls it, so a call is one atomic change of the rows.    *)
(*                                                                         *)
(* A row's id is its position: an INTEGER PRIMARY KEY gets the largest id  *)
(* plus one and no call deletes a row.  A measurement is named by the      *)
(* order in which it was collected.  attempt_count, last_error and         *)
(* sent_at_ms are left out: no decision of the workers reads them, so a    *)
(* recorded failure leaves the rows as they are here.                      *)
(***************************************************************************)
EXTENDS Integers, Sequences

Row == [measurement : Nat, state : {"pending", "sent"}]

IsSent(rows, id) == id \in DOMAIN rows /\ rows[id].state = "sent"

IsPending(rows, id) == id \in DOMAIN rows /\ rows[id].state = "pending"

HasPending(rows) == \E id \in DOMAIN rows : IsPending(rows, id)

\* Mutant of EarliestPending: ORDER BY id DESC.
LatestPending(rows) ==
    CHOOSE id \in DOMAIN rows :
        /\ IsPending(rows, id)
        /\ \A other \in DOMAIN rows : IsPending(rows, other) => id >= other

\* outbox_store_read_earliest_pending: ORDER BY id LIMIT 1 among the pending.
EarliestPending(rows) ==
    CHOOSE id \in DOMAIN rows :
        /\ IsPending(rows, id)
        /\ \A other \in DOMAIN rows : IsPending(rows, other) => id <= other

\* outbox_store_save_measurement: the measurement and its pending outbox row.
SaveMeasurement(rows, m) ==
    Append(rows, [measurement |-> m, state |-> "pending"])

\* outbox_store_mark_sent: idempotent on a row that is already sent.
MarkSent(rows, id) == [rows EXCEPT ![id].state = "sent"]
=============================================================================
