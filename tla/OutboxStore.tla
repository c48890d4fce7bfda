------------------------------ MODULE OutboxStore ------------------------------
(***************************************************************************)
(* The SQLite store below the outbox (modules/storage/outbox_store.c):     *)
(* opening a database of any schema version and migrating it, and the      *)
(* statements of every call, in the transactions that hold them.           *)
(*                                                                         *)
(* outbox_store.h forbids two threads on one store and recommends that     *)
(* each opens its own, so several stores may be open on one database.      *)
(* They share the committed content `db` and SQLite's write lock; a read   *)
(* sees the committed content.  A process may stop at any moment, which    *)
(* loses its uncommitted changes and releases its lock.                    *)
(*                                                                         *)
(* Texts, JSON and topics are left out.  A row's id is its position.       *)
(***************************************************************************)
EXTENDS Integers, Sequences, FiniteSets, FiniteSetsExt, Outbox

CONSTANTS Stores,       \* the connections
          InitVersions, \* the schema versions the database may have at first
          SharedVersions, \* those that several connections may open at once
          InitialRows,  \* outbox rows of a database that is not empty
          SqliteErrors, \* the failures SQLite may report
          Intervals,    \* the intervals saved
          MaxRows,      \* bound on the rows of the outbox
          MaxAttempts   \* bound on the attempts of one row

ASSUME StoreAssumption ==
    /\ "free" \notin Stores /\ "SQLITE_OK" \notin SqliteErrors
    /\ InitVersions \subseteq Nat /\ InitialRows \in Nat
    /\ MaxRows \in Nat /\ MaxAttempts \in Nat

VARIABLES users,           \* the connections of this behaviour
          db,              \* committed: user_version, schema, rows, interval
          lock,            \* the store that holds the write lock, or "free"
          pc,              \* where each store's current call is
          opening,         \* outbox_store_open: the version it read last and
                           \* the rung of its migration ladder it is at
          txn,             \* the content the holder of the lock sees: the
                           \* committed content when the lock is free
          result,          \* the code the last call of each store returned
          out              \* what the call that returned last read, per store

vars == <<users, db, lock, pc, opening, txn, result, out>>

\* EDGEVISION_OUTBOX_STORE_SCHEMA_VERSION
SchemaVersion == 4

NotOpening == [rung |-> 0, version |-> 0]

\* What the schema of each version holds.
Objects(v) ==
    (IF v >= 1 THEN {"measurements", "outbox"} ELSE {})
      \cup (IF v >= 2 THEN {"attempt_count"} ELSE {})
      \cup (IF v >= 3 THEN {"message_id"} ELSE {})
      \cup (IF v >= 4 THEN {"gateway_config"} ELSE {})

NewRow(m, id) ==
    [measurement |-> m, message_id |-> id, state |-> "pending",
     attempt_count |-> 0, last_error |-> FALSE, sent_at |-> 0]

\* A database as a gateway of version v left it; a row has no message id
\* before version 3.
Database(v) ==
    LET n == IF v = 0 THEN 0 ELSE InitialRows
    IN  [user_version |-> v, objects |-> Objects(v), measurements |-> n,
         outbox |-> [i \in 1..n |-> NewRow(i, IF v >= 3 THEN i ELSE 0)],
         interval |-> 0]

\* One connection, or all of them on a version of SharedVersions.
Init ==
    /\ \E v \in InitVersions :
          /\ db = Database(v)
          /\ users \in {{s} : s \in Stores} \cup (IF v \in SharedVersions THEN {Stores} ELSE {})
    /\ lock = "free"
    /\ pc = [s \in Stores |-> "closed"]
    /\ opening = [s \in Stores |-> NotOpening]
    /\ txn = db
    /\ result = [s \in Stores |-> "OK"]
    /\ out = [s \in Stores |-> <<>>]
-----------------------------------------------------------------------------
(* map_sqlite_result: the result code of a SQLite code. *)
map_sqlite_result(rc) ==
    CASE rc = "SQLITE_OK" -> "OK"
      [] rc \in {"SQLITE_BUSY", "SQLITE_LOCKED"} -> "BUSY"
      [] rc = "SQLITE_NOMEM" -> "NO_MEMORY"
      [] OTHER -> "DB_ERROR"

Goto(s, where) == pc' = [pc EXCEPT ![s] = where]

Return(s, r) == result' = [result EXCEPT ![s] = r]

\* outbox_store_open returns: a failed open closes the connection.
OpenReturns(s, r) ==
    /\ Goto(s, IF r = "OK" THEN "ready" ELSE "closed")
    /\ Return(s, r)
    /\ opening' = [opening EXCEPT ![s] = NotOpening]

\* The transaction of s ends and d is the committed content.
EndWith(s, d) ==
    /\ db' = d /\ txn' = d
    /\ lock' = "free"

\* randomblob(16): an id no row has.
FreshId(d) == 1 + Max({0} \cup {d.outbox[i].message_id : i \in DOMAIN d.outbox})
-----------------------------------------------------------------------------
(* outbox_store_open. *)

\* sqlite3_open, the busy timeout, foreign keys and WAL, each verified.
OpenConnection(s) ==
    /\ pc[s] = "closed"
    /\ \/ Goto(s, "read_version") /\ UNCHANGED <<opening, result>>
       \/ \E rc \in SqliteErrors : OpenReturns(s, map_sqlite_result(rc))
    /\ UNCHANGED <<db, lock, txn, out>>

\* outbox_store_read_user_version, before the first rung and after each
\* migration; an unknown version is refused before anything is changed.
ReadVersion(s) ==
    /\ pc[s] = "read_version"
    /\ IF opening[s].rung = 0 /\ db.user_version > SchemaVersion
       THEN OpenReturns(s, "SCHEMA_ERROR")
       ELSE /\ opening' = [opening EXCEPT ![s].version = db.user_version]
            /\ Goto(s, "rung")
            /\ UNCHANGED result
    /\ UNCHANGED <<db, lock, txn, out>>

\* Whether the rung s is at has a script for the version it read.
MustMigrate(s) ==
    /\ pc[s] = "rung" /\ opening[s].rung < SchemaVersion
    /\ opening[s].version = opening[s].rung

SkipRung(s) ==
    /\ pc[s] = "rung" /\ opening[s].rung < SchemaVersion /\ ~MustMigrate(s)
    /\ opening' = [opening EXCEPT ![s].rung = @ + 1]
    /\ UNCHANGED <<db, lock, pc, txn, result, out>>

\* BEGIN IMMEDIATE of the script, or the busy timeout.
MigrateBegin(s) ==
    /\ MustMigrate(s)
    /\ \/ lock = "free" /\ lock' = s /\ Goto(s, "migrating") /\ UNCHANGED <<opening, result>>
       \/ lock # "free" /\ OpenReturns(s, "BUSY") /\ UNCHANGED lock
    /\ UNCHANGED <<db, txn, out>>

\* Whether the statements of each script succeed on this schema: a table or a
\* column that exists cannot be created again.
Applies(v, d) ==
    CASE v = 0 -> d.objects \cap {"measurements", "outbox", "gateway_config"} = {}
      [] v = 1 -> "outbox" \in d.objects /\ "attempt_count" \notin d.objects
      [] v = 2 -> {"measurements", "outbox", "attempt_count"} \subseteq d.objects
      [] v = 3 -> "gateway_config" \notin d.objects

\* What each script leaves behind.  v2 to v3 copies every row into a new table
\* and gives it a message id.
Migrated(v, d) ==
    CASE v = 0 -> [d EXCEPT !.objects = Objects(SchemaVersion), !.user_version = SchemaVersion]
      [] v = 1 -> [d EXCEPT !.objects = @ \cup {"attempt_count"}, !.user_version = 2]
      [] v = 2 -> [d EXCEPT
                     !.objects = @ \cup {"message_id"}, !.user_version = 3,
                     !.outbox = [i \in DOMAIN @ |-> [@[i] EXCEPT
                                    !.message_id = FreshId(d) + i - 1]]]
      [] v = 3 -> [d EXCEPT !.objects = @ \cup {"gateway_config"}, !.user_version = 4]

\* Mutant of MigrateCommit: the version is not part of the transaction.
MigrateUnversioned(s) ==
    /\ pc[s] = "migrating" /\ Applies(opening[s].rung, db)
    /\ EndWith(s, [Migrated(opening[s].rung, db) EXCEPT !.user_version = db.user_version])
    /\ Goto(s, "read_version")
    /\ opening' = [opening EXCEPT ![s].rung = @ + 1]
    /\ UNCHANGED <<result, out>>

\* The rest of the script and its COMMIT.
MigrateCommit(s) ==
    /\ pc[s] = "migrating" /\ Applies(opening[s].rung, db)
    /\ EndWith(s, Migrated(opening[s].rung, db))
    /\ Goto(s, "read_version")
    /\ opening' = [opening EXCEPT ![s].rung = @ + 1]
    /\ UNCHANGED <<result, out>>

\* A statement fails: ROLLBACK, and only BUSY and NO_MEMORY keep their code.
MigrateFailed(s) ==
    /\ pc[s] = "migrating"
    /\ \/ ~Applies(opening[s].rung, db) /\ OpenReturns(s, "SCHEMA_ERROR")
       \/ \E rc \in SqliteErrors :
             LET r == map_sqlite_result(rc)
             IN  OpenReturns(s, IF r \in {"BUSY", "NO_MEMORY"} THEN r ELSE "SCHEMA_ERROR")
    /\ EndWith(s, db)
    /\ UNCHANGED out

\* verify_current_schema, once the version read last is the current one.
VerifySchema(s) ==
    /\ pc[s] = "rung" /\ opening[s].rung = SchemaVersion
    /\ OpenReturns(s,
         IF /\ opening[s].version = SchemaVersion
            /\ {"measurements", "outbox", "gateway_config"} \subseteq db.objects
         THEN "OK" ELSE "SCHEMA_ERROR")
    /\ UNCHANGED <<db, lock, txn, out>>

\* outbox_store_close, and outbox_store_free_outbox_item before it.
Close(s) ==
    /\ pc[s] = "ready"
    /\ Goto(s, "closed") /\ Return(s, "OK")
    /\ out' = [out EXCEPT ![s] = <<>>]
    /\ UNCHANGED <<db, lock, opening, txn>>
-----------------------------------------------------------------------------
(* outbox_store_save_measurement: one transaction of two INSERTs. *)

\* prepare_save_payload fails, or BEGIN IMMEDIATE does: nothing has been begun.
SaveRefused(s) ==
    /\ pc[s] = "ready"
    /\ \/ \E r \in {"SERIALIZATION_ERROR", "NO_MEMORY"} : Return(s, r)
       \/ lock # "free" /\ Return(s, "BUSY")
       \/ \E rc \in SqliteErrors : Return(s, map_sqlite_result(rc))
    /\ out' = [out EXCEPT ![s] = <<>>]
    /\ UNCHANGED <<db, lock, pc, opening, txn>>

SaveBegin(s) ==
    /\ pc[s] = "ready" /\ Len(db.outbox) < MaxRows
    /\ lock = "free" /\ lock' = s
    /\ Goto(s, "insert_measurement")
    /\ out' = [out EXCEPT ![s] = <<>>]
    /\ UNCHANGED <<db, opening, txn, result>>

\* Mutant of InsertMeasurement: the statement commits by itself.
InsertAutocommitted(s) ==
    /\ pc[s] = "insert_measurement"
    /\ txn' = [txn EXCEPT !.measurements = @ + 1]
    /\ db' = [db EXCEPT !.measurements = @ + 1]
    /\ Goto(s, "insert_outbox")
    /\ UNCHANGED <<lock, opening, result, out>>

\* INSERT INTO measurements, and its rowid.
InsertMeasurement(s) ==
    /\ pc[s] = "insert_measurement"
    /\ txn' = [txn EXCEPT !.measurements = @ + 1]
    /\ Goto(s, "insert_outbox")
    /\ UNCHANGED <<db, lock, opening, result, out>>

\* INSERT INTO outbox, of that rowid with a message id of its own.
InsertOutbox(s) ==
    /\ pc[s] = "insert_outbox"
    /\ txn' = [txn EXCEPT !.outbox = Append(@, NewRow(txn.measurements, FreshId(txn)))]
    /\ Goto(s, "commit")
    /\ UNCHANGED <<db, lock, opening, result, out>>

SaveCommit(s) ==
    /\ pc[s] = "commit"
    /\ EndWith(s, txn) /\ Goto(s, "ready") /\ Return(s, "OK")
    /\ UNCHANGED <<opening, out>>

Saving(s) == pc[s] \in {"insert_measurement", "insert_outbox", "commit"}

\* A statement or the COMMIT fails: the cleanup rolls back.
SaveFailed(s) ==
    /\ Saving(s)
    /\ \E rc \in SqliteErrors : Return(s, map_sqlite_result(rc))
    /\ EndWith(s, db) /\ Goto(s, "ready")
    /\ UNCHANGED <<opening, out>>
-----------------------------------------------------------------------------
(* The calls of one statement, each a transaction of its own. *)

\* A statement on the ready store s that writes: it changes the database and
\* returns r, or the lock is held, or SQLite fails.
Write(s, database, r) ==
    /\ pc[s] = "ready"
    /\ \/ lock = "free" /\ EndWith(s, database) /\ Return(s, r)
       \/ lock # "free" /\ Return(s, "BUSY") /\ UNCHANGED <<db, txn, lock>>
       \/ /\ \E rc \in SqliteErrors : Return(s, map_sqlite_result(rc))
          /\ UNCHANGED <<db, txn, lock>>
    /\ out' = [out EXCEPT ![s] = <<>>]
    /\ UNCHANGED <<pc, opening>>

\* UPDATE outbox ... WHERE id, if there is one.
Update(s, id, row) ==
    Write(s, IF id \in DOMAIN db.outbox THEN [db EXCEPT !.outbox[id] = row] ELSE db,
          IF id \in DOMAIN db.outbox THEN "OK" ELSE "NOT_FOUND")

Sent(row, now) ==
    [row EXCEPT !.state = "sent",
                !.sent_at = IF row.state = "pending" THEN now ELSE @,
                !.last_error = IF row.state = "pending" THEN FALSE ELSE @]

outbox_store_mark_sent(s, id, now) == Update(s, id, Sent(db.outbox[id], now))

\* Mutant of Failed: WHERE id, whatever the state.
FailedReopens(row) == [row EXCEPT !.attempt_count = @ + 1, !.last_error = TRUE, !.state = "pending"]

Failed(row) ==
    IF row.state = "pending"
    THEN [row EXCEPT !.attempt_count = @ + 1, !.last_error = TRUE]
    ELSE row

outbox_store_record_delivery_failure(s, id) ==
    /\ id \in DOMAIN db.outbox => db.outbox[id].attempt_count < MaxAttempts
    /\ Update(s, id, Failed(db.outbox[id]))

\* The upsert of the one row of gateway_config.
outbox_store_save_interval(s, ms) == Write(s, [db EXCEPT !.interval = ms], "OK")
-----------------------------------------------------------------------------
(* The reads. *)

\* A SELECT on the ready store s: it returns the code r and the value v.
Select(s, r, v) ==
    /\ pc[s] = "ready"
    /\ \/ Return(s, r) /\ out' = [out EXCEPT ![s] = v]
       \/ (\E rc \in SqliteErrors : Return(s, map_sqlite_result(rc)))
          /\ out' = [out EXCEPT ![s] = <<>>]
    /\ UNCHANGED <<db, lock, pc, opening, txn>>

outbox_store_read_earliest_pending(s) ==
    IF HasPending(db.outbox)
    THEN LET id == EarliestPending(db.outbox)
         IN  Select(s, "OK", <<"item", id, db.outbox[id].message_id>>)
    ELSE Select(s, "EMPTY", <<>>)

CountOf(state) == Cardinality({id \in DOMAIN db.outbox : db.outbox[id].state = state})

outbox_store_get_stats(s) ==
    Select(s, "OK", <<"stats", db.measurements, CountOf("pending"), CountOf("sent")>>)

outbox_store_load_interval(s) ==
    IF db.interval = 0 THEN Select(s, "EMPTY", <<>>)
    ELSE Select(s, "OK", <<"interval", db.interval>>)
-----------------------------------------------------------------------------
\* The process of s stops: SQLite drops its transaction.
Crash(s) ==
    /\ pc[s] # "closed"
    /\ Goto(s, "closed")
    /\ IF lock = s THEN EndWith(s, db) ELSE UNCHANGED <<db, txn, lock>>
    /\ opening' = [opening EXCEPT ![s] = NotOpening]
    /\ out' = [out EXCEPT ![s] = <<>>]
    /\ UNCHANGED result

Open(s) ==
    \/ OpenConnection(s) \/ ReadVersion(s) \/ SkipRung(s)
    \/ MigrateBegin(s) \/ MigrateCommit(s) \/ MigrateFailed(s) \/ VerifySchema(s)

Save(s) ==
    \/ SaveRefused(s) \/ SaveBegin(s) \/ InsertMeasurement(s) \/ InsertOutbox(s)
    \/ SaveCommit(s) \/ SaveFailed(s)

Statement(s) ==
    \/ \E id \in 1..MaxRows, now \in 1..2 : outbox_store_mark_sent(s, id, now)
    \/ \E id \in 1..MaxRows : outbox_store_record_delivery_failure(s, id)
    \/ \E ms \in Intervals : outbox_store_save_interval(s, ms)
    \/ outbox_store_read_earliest_pending(s)
    \/ outbox_store_get_stats(s)
    \/ outbox_store_load_interval(s)

Next ==
    /\ \E s \in users : Open(s) \/ Close(s) \/ Save(s) \/ Statement(s) \/ Crash(s)
    /\ UNCHANGED users

Spec == Init /\ [][Next]_vars
-----------------------------------------------------------------------------
StoreRow ==
    [measurement : Nat, message_id : Nat, state : {"pending", "sent"},
     attempt_count : 0..MaxAttempts, last_error : BOOLEAN, sent_at : 0..2]

\* Types; a store holds the write lock exactly while it is inside one of its
\* transactions, so no call returns with a transaction open.
TypeOK ==
    /\ db.user_version \in InitVersions \cup 1..SchemaVersion
    /\ db.objects \subseteq Objects(SchemaVersion)
    /\ db.interval \in Intervals \cup {0}
    /\ \A id \in DOMAIN db.outbox : db.outbox[id] \in StoreRow
    /\ \A s \in Stores : (lock = s) <=> (pc[s] = "migrating" \/ Saving(s))

\* Every committed measurement has its outbox row, whatever statement failed
\* and wherever a process stopped (outbox_store_save_measurement's
\* transaction), and no two rows share a message id.
NoOrphan ==
    /\ db.measurements = Len(db.outbox)
    /\ \A i, j \in DOMAIN db.outbox :
          i # j /\ "message_id" \in db.objects =>
             db.outbox[i].message_id # db.outbox[j].message_id

\* The schema is the one user_version names, in every committed state: a crash
\* or an error in a migration leaves no half-migrated database.
SchemaMatchesVersion == db.objects = Objects(db.user_version)

\* What is settled about a row stays.  It keeps the message id it was given
\* (outbox_store_migrate_v2_to_v3 gives old rows a stable one), by which the
\* receivers recognise a redelivery; and once sent nothing else of it changes:
\* a late delivery failure or a second mark_sent, from any store, leaves its
\* time and its attempts alone.
SettledStays ==
    [][\A id \in DOMAIN db.outbox :
          LET row == db.outbox[id]
              next == db'.outbox[id]
          IN  /\ row.message_id # 0 => next.message_id = row.message_id
              /\ row.state = "sent" => next = [row EXCEPT !.message_id = next.message_id]]_db

\* The rows as the workers' module Outbox sees them.
rows == [id \in DOMAIN db.outbox |->
            [measurement |-> db.outbox[id].measurement, state |-> db.outbox[id].state]]

\* Every change of the committed rows is one call of module Outbox: the
\* statements of the store are atomic to the workers, as Outbox has them.
CallsAreAtomic ==
    [][\/ \E m \in 1..MaxRows : rows' = SaveMeasurement(rows, m)
       \/ \E id \in DOMAIN rows : rows' = MarkSent(rows, id)]_rows
-----------------------------------------------------------------------------
(* The inductive invariant behind these properties. *)

Content ==
    [user_version : Nat, objects : SUBSET Objects(SchemaVersion), measurements : Nat,
     outbox : Seq(StoreRow), interval : Intervals \cup {0}]

Calls == {"closed", "read_version", "rung", "migrating", "ready",
          "insert_measurement", "insert_outbox", "commit"}

\* One store is inside its transaction at a time, and it holds the write lock.
LockIsTransaction ==
    \A s \in Stores : (lock = s) <=> (pc[s] = "migrating" \/ Saving(s))

\* What the transaction has changed so far.
TransactionKnown ==
    /\ lock = "free" => txn = db
    /\ \A s \in Stores :
          /\ pc[s] \in {"migrating", "insert_measurement"} => txn = db
          /\ pc[s] = "insert_outbox" =>
                txn = [db EXCEPT !.measurements = @ + 1]
          /\ pc[s] = "commit" =>
                txn = [db EXCEPT !.measurements = @ + 1,
                                 !.outbox = Append(@, NewRow(db.measurements + 1, FreshId(db)))]
          /\ Saving(s) => Len(db.outbox) < MaxRows

\* Every row has its measurement and, from version 3 on, its own message id; a
\* database without a schema has no row.
RowsNumbered ==
    /\ db.measurements = Len(db.outbox)
    /\ db.user_version = 0 => Len(db.outbox) = 0
    /\ \A id \in DOMAIN db.outbox :
          db.outbox[id].message_id = IF "message_id" \in db.objects THEN id ELSE 0

Exclusive == \E s \in Stores : users = {s}

\* How old the version a store has read may be: no other store migrates below
\* version 3, so a rung is climbed on the version it was written for.
LadderKnown ==
    /\ \A s \in Stores \ users : pc[s] = "closed"
    /\ Exclusive \/ db.user_version \notin {1, 2}
    /\ \A s \in Stores :
          /\ pc[s] \in {"rung", "migrating"} =>
                /\ opening[s].version <= db.user_version
                /\ Exclusive => opening[s].version = db.user_version
                /\ Exclusive \/ opening[s].version \notin {1, 2}
          /\ pc[s] = "migrating" =>
                opening[s].rung = opening[s].version /\ opening[s].rung < SchemaVersion
          /\ pc[s] = "ready" \/ Saving(s) => db.user_version >= 3

StoreInv ==
    /\ users \subseteq Stores /\ lock \in Stores \cup {"free"}
    /\ db \in Content /\ txn \in Content
    /\ pc \in [Stores -> Calls]
    /\ opening \in [Stores -> [rung : 0 .. SchemaVersion, version : Nat]]
    /\ LockIsTransaction /\ TransactionKnown
    /\ RowsNumbered /\ SchemaMatchesVersion /\ LadderKnown
=============================================================================
