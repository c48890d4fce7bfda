-------------------------- MODULE OutboxStoreProofs ---------------------------
(***************************************************************************)
(* StoreInv is an invariant of OutboxStore for any connections, rows and   *)
(* bounds, unless several connections may open a database of version 1 or  *)
(* 2 at once; and what follows from it for the committed content.          *)
(***************************************************************************)
EXTENDS OutboxStore, TLAPS

\* No two connections upgrade a database of version 1 or 2 together: the hypothesis
\* of every theorem below.
NoSharedUpgrade == SharedVersions \cap {1, 2} = {}

\* Which version of the schema brought which object.
LEMMA ObjectsOfVersion ==
    ASSUME NEW v \in Nat
    PROVE  /\ Objects(v) \subseteq Objects(SchemaVersion)
           /\ "measurements" \in Objects(v) <=> v >= 1
           /\ "outbox" \in Objects(v) <=> v >= 1
           /\ "attempt_count" \in Objects(v) <=> v >= 2
           /\ "message_id" \in Objects(v) <=> v >= 3
           /\ "gateway_config" \in Objects(v) <=> v >= 4
  BY DEF Objects, SchemaVersion

\* The largest member of a set of naturals that has one.
LEMMA MaxIs ==
    ASSUME NEW S \in SUBSET Nat, NEW m \in S, \A n \in S : n <= m
    PROVE  Max(S) = m
<1> DEFINE x == CHOOSE x \in S : \A y \in S : x >= y
<1>1. \E k \in S : \A y \in S : k >= y
  OBVIOUS
<1>2. x \in S /\ \A y \in S : x >= y
  BY <1>1, Zenon
<1>3. x = m
  <2> HIDE DEF x
  <2> QED
    BY <1>2
<1> QED
  BY <1>3 DEF Max

\* randomblob(16) as FreshId has it, once every row has a message id.
LEMMA FreshIdAfterAll ==
    ASSUME NEW d \in Content, \A i \in DOMAIN d.outbox : d.outbox[i].message_id = i
    PROVE  FreshId(d) = Len(d.outbox) + 1
<1> DEFINE S == {0} \cup {d.outbox[i].message_id : i \in DOMAIN d.outbox}
<1>1. Len(d.outbox) \in Nat /\ DOMAIN d.outbox = 1 .. Len(d.outbox)
  BY DEF Content
<1>2. S = 0 .. Len(d.outbox)
  <2>1. ASSUME NEW n \in 0 .. Len(d.outbox)
        PROVE  n \in S
    <3>1. CASE n = 0
      BY <3>1
    <3>2. CASE n # 0
      <4>1. n \in DOMAIN d.outbox
        BY <1>1, <3>2
      <4> QED
        BY <4>1
    <3> QED
      BY <3>1, <3>2
  <2>2. ASSUME NEW n \in S
        PROVE  n \in 0 .. Len(d.outbox)
    BY <1>1
  <2> QED
    BY <2>1, <2>2, Zenon
<1>3. Max(S) = Len(d.outbox)
  <2>1. S \in SUBSET Nat /\ Len(d.outbox) \in S /\ \A n \in S : n <= Len(d.outbox)
    <3> HIDE DEF S
    <3> QED
      BY <1>1, <1>2
  <2> QED
    BY <2>1, MaxIs, Zenon
<1> QED
  BY <1>1, <1>3 DEF FreshId

\* The same while no row has one, as outbox_store_migrate_v2_to_v3 finds them.
LEMMA FreshIdBeforeAny ==
    ASSUME NEW d \in Content, \A i \in DOMAIN d.outbox : d.outbox[i].message_id = 0
    PROVE  FreshId(d) = 1
<1> DEFINE S == {0} \cup {d.outbox[i].message_id : i \in DOMAIN d.outbox}
<1>1. S \in SUBSET Nat /\ 0 \in S /\ \A n \in S : n <= 0
  OBVIOUS
<1>2. Max(S) = 0
  BY <1>1, MaxIs, Zenon
<1> QED
  BY <1>2 DEF FreshId

\* A row with the message id it has.
LEMMA SameMessageId ==
    ASSUME NEW r \in StoreRow
    PROVE  r = [r EXCEPT !.message_id = r.message_id]
  BY DEF StoreRow

\* What a script leaves: the schema of a later version, every row with the same
\* measurement and state, and a message id for each as soon as the schema has them.
LEMMA MigratedContent ==
    ASSUME StoreInv, NEW s \in Stores, pc[s] = "migrating", Applies(opening[s].rung, db)
    PROVE  LET d == Migrated(opening[s].rung, db)
           IN  /\ db.user_version = opening[s].rung
               /\ d \in Content
               /\ d.user_version \in {2, 3, 4} /\ d.user_version > db.user_version
               /\ d.user_version = 2 => db.user_version = 1
               /\ d.objects = Objects(d.user_version)
               /\ d.measurements = db.measurements
               /\ DOMAIN d.outbox = DOMAIN db.outbox /\ Len(d.outbox) = Len(db.outbox)
               /\ \A id \in DOMAIN db.outbox :
                     /\ d.outbox[id] = [db.outbox[id] EXCEPT !.message_id = d.outbox[id].message_id]
                     /\ d.outbox[id].message_id = IF d.user_version >= 3 THEN id ELSE 0
                     /\ db.user_version >= 3 => d.outbox[id] = db.outbox[id]
<1> DEFINE v == opening[s].rung
           d == Migrated(v, db)
           Kept(id) ==
              /\ d.outbox[id] = [db.outbox[id] EXCEPT !.message_id = d.outbox[id].message_id]
              /\ d.outbox[id].message_id = IF d.user_version >= 3 THEN id ELSE 0
              /\ db.user_version >= 3 => d.outbox[id] = db.outbox[id]
<1> SUFFICES /\ db.user_version = v
             /\ d \in Content
             /\ d.user_version \in {2, 3, 4} /\ d.user_version > db.user_version
             /\ d.user_version = 2 => db.user_version = 1
             /\ d.objects = Objects(d.user_version)
             /\ d.measurements = db.measurements
             /\ DOMAIN d.outbox = DOMAIN db.outbox /\ Len(d.outbox) = Len(db.outbox)
             /\ \A id \in DOMAIN db.outbox : Kept(id)
  BY Zenon
<1>1. /\ v \in 0 .. 3 /\ db \in Content /\ db.objects = Objects(db.user_version)
      /\ db.user_version \in Nat /\ v <= db.user_version
      /\ v \in {1, 2} => db.user_version = v
      /\ db.outbox \in Seq(StoreRow) /\ db.measurements \in Nat
      /\ db.interval \in Intervals \cup {0}
  BY DEF StoreInv, LadderKnown, SchemaMatchesVersion, SchemaVersion, Content
<1>2. db.user_version = v
  <2>1. /\ "measurements" \in db.objects <=> db.user_version >= 1
        /\ "gateway_config" \in db.objects <=> db.user_version >= 4
    BY <1>1, ObjectsOfVersion
  <2>2. CASE v = 0
    BY <1>1, <2>1, <2>2 DEF Applies
  <2>3. CASE v = 3
    BY <1>1, <2>1, <2>3 DEF Applies
  <2> QED
    BY <1>1, <2>2, <2>3
<1>3. \A id \in DOMAIN db.outbox : db.outbox[id].message_id = IF v >= 3 THEN id ELSE 0
  BY <1>1, <1>2, ObjectsOfVersion DEF StoreInv, RowsNumbered
<1>4. CASE v = 0
  <2>1. d = [db EXCEPT !.objects = Objects(SchemaVersion), !.user_version = SchemaVersion]
    BY <1>4 DEF Migrated
  <2>2. Objects(4) = Objects(SchemaVersion) /\ Objects(4) \in SUBSET Objects(SchemaVersion)
    BY DEF SchemaVersion
  <2>3. /\ d = [db EXCEPT !.objects = Objects(4), !.user_version = 4]
        /\ 4 \in Nat /\ db.outbox \in Seq(StoreRow)
    BY <1>1, <2>1 DEF SchemaVersion
  <2> HIDE DEF d
  <2>4. /\ d.user_version = 4 /\ d.objects = Objects(4)
        /\ d.measurements = db.measurements /\ d.outbox = db.outbox
    BY <1>1, <2>3 DEF Content
  <2>7. d \in Content
    BY <1>1, <2>2, <2>3, Zenon DEF Content
  <2>5. DOMAIN db.outbox = {}
    BY <1>1, <1>2, <1>4 DEF StoreInv, RowsNumbered
  <2>6. \A id \in DOMAIN db.outbox : Kept(id)
    BY <2>5
  <2> HIDE DEF Kept
  <2> QED
    BY <1>2, <1>4, <2>4, <2>6, <2>7
<1>5. CASE v = 1
  <2>1. d = [db EXCEPT !.objects = db.objects \cup {"attempt_count"}, !.user_version = 2]
    BY <1>5 DEF Migrated
  <2>2. Objects(2) = Objects(1) \cup {"attempt_count"} /\ Objects(2) \subseteq Objects(SchemaVersion)
    BY DEF Objects, SchemaVersion
  <2>3. /\ d = [db EXCEPT !.objects = Objects(2), !.user_version = 2]
        /\ 2 \in Nat /\ db.outbox \in Seq(StoreRow)
    BY <1>1, <1>2, <1>5, <2>1, <2>2, Zenon DEF SchemaVersion
  <2> HIDE DEF d
  <2>4. /\ d.user_version = 2 /\ d.objects = Objects(2)
        /\ d.measurements = db.measurements /\ d.outbox = db.outbox
    BY <1>1, <2>3 DEF Content
  <2>7. d \in Content
    BY <1>1, <2>2, <2>3, Zenon DEF Content
  <2>5. \A id \in DOMAIN db.outbox :
           db.outbox[id] = [db.outbox[id] EXCEPT !.message_id = db.outbox[id].message_id]
    BY <1>1, SameMessageId
  <2>6. \A id \in DOMAIN db.outbox : Kept(id)
    BY <1>3, <1>5, <2>4, <2>5
  <2> HIDE DEF Kept
  <2> QED
    BY <1>2, <1>5, <2>4, <2>6, <2>7
<1>6. CASE v = 2
  <2> DEFINE o == [i \in DOMAIN db.outbox |->
                     [db.outbox[i] EXCEPT !.message_id = FreshId(db) + i - 1]]
  <2>1. d = [db EXCEPT !.objects = db.objects \cup {"message_id"}, !.user_version = 3, !.outbox = o]
    <3>1. d = [db EXCEPT !.objects = @ \cup {"message_id"}, !.user_version = 3,
                         !.outbox = [i \in DOMAIN @ |-> [@[i] EXCEPT
                                        !.message_id = FreshId(db) + i - 1]]]
      BY <1>6 DEF Migrated
    <3> QED
      BY <1>1, <3>1 DEF Content
  <2>2. Objects(3) = Objects(2) \cup {"message_id"} /\ Objects(3) \subseteq Objects(SchemaVersion)
    BY DEF Objects, SchemaVersion
  <2>3. FreshId(db) = 1
    BY <1>1, <1>3, <1>6, FreshIdBeforeAny
  <2>4. ASSUME NEW id \in DOMAIN db.outbox
        PROVE  /\ o[id] = [db.outbox[id] EXCEPT !.message_id = id]
               /\ o[id] \in StoreRow /\ o[id].message_id = id
    <3>1. db.outbox[id] \in StoreRow /\ id \in Nat
      BY <1>1
    <3>2. o[id] = [db.outbox[id] EXCEPT !.message_id = id]
      BY <2>3, <3>1
    <3> HIDE DEF o
    <3> QED
      BY <3>1, <3>2 DEF StoreRow
  <2>5. o \in Seq(StoreRow) /\ DOMAIN o = DOMAIN db.outbox /\ Len(o) = Len(db.outbox)
    <3>1. Len(db.outbox) \in Nat /\ DOMAIN db.outbox = 1 .. Len(db.outbox)
      BY <1>1
    <3>2. DOMAIN o = DOMAIN db.outbox /\ o = [i \in DOMAIN o |-> o[i]]
      BY Zenon
    <3> HIDE DEF o
    <3>3. o \in [1 .. Len(db.outbox) -> StoreRow]
      BY <2>4, <3>1, <3>2, Zenon
    <3> QED
      BY <3>1, <3>2, <3>3
  <2> HIDE DEF o, d
  <2>6. /\ d \in Content /\ d.user_version = 3 /\ d.objects = Objects(3)
        /\ d.measurements = db.measurements /\ d.outbox = o
    <3>1. db.objects \cup {"message_id"} = Objects(3) /\ 3 \in Nat
      BY <1>1, <1>2, <1>6, <2>2
    <3>2. /\ d.user_version = 3 /\ d.objects = Objects(3)
          /\ d.measurements = db.measurements /\ d.outbox = o
      BY <1>1, <2>1, <3>1 DEF Content
    <3>3. d \in Content
      BY <1>1, <2>1, <2>2, <2>5, <3>1, Zenon DEF Content
    <3> QED
      BY <3>2, <3>3
  <2>7. ASSUME NEW id \in DOMAIN db.outbox
        PROVE  Kept(id)
    <3>1. d.outbox[id] = [db.outbox[id] EXCEPT !.message_id = id] /\ d.outbox[id].message_id = id
      BY <2>4, <2>6, Zenon
    <3> QED
      BY <1>2, <1>6, <2>6, <3>1
  <2> HIDE DEF Kept
  <2> QED
    BY <1>2, <1>6, <2>5, <2>6, <2>7
<1>7. CASE v = 3
  <2>1. d = [db EXCEPT !.objects = db.objects \cup {"gateway_config"}, !.user_version = 4]
    BY <1>7 DEF Migrated
  <2>2. Objects(4) = Objects(3) \cup {"gateway_config"} /\ Objects(4) \subseteq Objects(SchemaVersion)
    BY DEF Objects, SchemaVersion
  <2>3. /\ d = [db EXCEPT !.objects = Objects(4), !.user_version = 4]
        /\ 4 \in Nat /\ db.outbox \in Seq(StoreRow)
    BY <1>1, <1>2, <1>7, <2>1, <2>2, Zenon DEF SchemaVersion
  <2> HIDE DEF d
  <2>4. /\ d.user_version = 4 /\ d.objects = Objects(4)
        /\ d.measurements = db.measurements /\ d.outbox = db.outbox
    BY <1>1, <2>3 DEF Content
  <2>7. d \in Content
    BY <1>1, <2>2, <2>3, Zenon DEF Content
  <2>5. \A id \in DOMAIN db.outbox :
           db.outbox[id] = [db.outbox[id] EXCEPT !.message_id = db.outbox[id].message_id]
    BY <1>1, SameMessageId
  <2>6. \A id \in DOMAIN db.outbox : Kept(id)
    BY <1>3, <1>7, <2>4, <2>5
  <2> HIDE DEF Kept
  <2> QED
    BY <1>2, <1>7, <2>4, <2>6, <2>7
<1> HIDE DEF d, Kept
<1> QED
  BY <1>1, <1>4, <1>5, <1>6, <1>7
-----------------------------------------------------------------------------
Step(s) == Open(s) \/ Close(s) \/ Save(s) \/ Statement(s) \/ Crash(s)

InTransaction == {"migrating", "insert_measurement", "insert_outbox", "commit"}

\* A step of one store leaves the position of the others alone.
LEMMA OneMoves ==
    ASSUME StoreInv, NEW s \in users, Step(s)
    PROVE  /\ pc' \in [Stores -> Calls]
           /\ opening' \in [Stores -> [rung : 0 .. SchemaVersion, version : Nat]]
           /\ \A r \in Stores \ {s} : pc'[r] = pc[r] /\ opening'[r] = opening[r]
<1>1. /\ s \in Stores /\ pc \in [Stores -> Calls]
      /\ opening \in [Stores -> [rung : 0 .. SchemaVersion, version : Nat]]
      /\ db.user_version \in Nat
  BY DEF StoreInv, Content
<1>2. \/ UNCHANGED pc
      \/ \E where \in Calls : Goto(s, where)
  BY Zenon DEF Step, Open, Close, Save, Statement, Crash, OpenConnection, ReadVersion, SkipRung,
        MigrateBegin, MigrateCommit, MigrateFailed, VerifySchema, SaveRefused, SaveBegin,
        InsertMeasurement, InsertOutbox, SaveCommit, SaveFailed, Write, Update, Select,
        outbox_store_mark_sent, outbox_store_record_delivery_failure, outbox_store_save_interval,
        outbox_store_read_earliest_pending, outbox_store_get_stats, outbox_store_load_interval,
        OpenReturns, Calls
<1>3. \/ UNCHANGED opening
      \/ opening' = [opening EXCEPT ![s] = NotOpening]
      \/ opening' = [opening EXCEPT ![s].version = db.user_version]
      \/ /\ opening' = [opening EXCEPT ![s].rung = @ + 1]
         /\ pc[s] = "migrating" \/ opening[s].rung < SchemaVersion
  BY Zenon DEF Step, Open, Close, Save, Statement, Crash, OpenConnection, ReadVersion, SkipRung,
        MigrateBegin, MigrateCommit, MigrateFailed, VerifySchema, SaveRefused, SaveBegin,
        InsertMeasurement, InsertOutbox, SaveCommit, SaveFailed, Write, Update, Select,
        outbox_store_mark_sent, outbox_store_record_delivery_failure, outbox_store_save_interval,
        outbox_store_read_earliest_pending, outbox_store_get_stats, outbox_store_load_interval,
        OpenReturns
<1>4. pc[s] = "migrating" => opening[s].rung < SchemaVersion
  BY <1>1 DEF StoreInv, LadderKnown
<1>5. pc' \in [Stores -> Calls] /\ \A r \in Stores \ {s} : pc'[r] = pc[r]
  BY <1>1, <1>2 DEF Goto
<1>6. /\ opening' \in [Stores -> [rung : 0 .. SchemaVersion, version : Nat]]
      /\ \A r \in Stores \ {s} : opening'[r] = opening[r]
  <2>1. CASE UNCHANGED opening
    BY <1>1, <2>1
  <2>2. CASE opening' = [opening EXCEPT ![s] = NotOpening]
    BY <1>1, <2>2 DEF NotOpening, SchemaVersion
  <2>3. CASE opening' = [opening EXCEPT ![s].version = db.user_version]
    BY <1>1, <2>3
  <2>4. CASE opening' = [opening EXCEPT ![s].rung = @ + 1] /\ opening[s].rung < SchemaVersion
    BY <1>1, <2>4 DEF SchemaVersion
  <2> QED
    BY <1>3, <1>4, <2>1, <2>2, <2>3, <2>4, Zenon
<1> QED
  BY <1>5, <1>6

\* The write lock passes from free to one store and back, and a store holds it
\* exactly from the BEGIN of its transaction to the COMMIT or ROLLBACK.
LEMMA LockMoves ==
    ASSUME StoreInv, NEW s \in users, Step(s)
    PROVE  /\ \/ UNCHANGED lock
              \/ lock = "free" /\ lock' = s
              \/ lock = s /\ lock' = "free"
           /\ lock' = s <=> pc'[s] \in InTransaction
<1>1. /\ s \in Stores /\ pc \in [Stores -> Calls] /\ s # "free"
      /\ lock = s <=> pc[s] \in InTransaction
  BY StoreAssumption DEF StoreInv, LockIsTransaction, InTransaction, Saving
<1>2. CASE UNCHANGED lock /\ UNCHANGED pc
  BY <1>1, <1>2
<1>3. CASE Open(s)
  BY <1>1, <1>3 DEF Open, OpenConnection, ReadVersion, SkipRung, MustMigrate,
        MigrateBegin, MigrateCommit, MigrateFailed, VerifySchema, OpenReturns, Goto, EndWith,
        InTransaction
<1>4. CASE Close(s) \/ Crash(s)
  BY <1>1, <1>4 DEF Close, Crash, Goto, EndWith, InTransaction
<1>5. CASE Save(s)
  BY <1>1, <1>5 DEF Save, SaveRefused, SaveBegin, InsertMeasurement, InsertOutbox, SaveCommit,
        SaveFailed, Saving, Goto, EndWith, InTransaction
<1>6. CASE Statement(s)
  <2>1. UNCHANGED <<pc, lock>> \/ \E d, r : Write(s, d, r)
    BY <1>6, Zenon DEF Statement, Update, Select,
        outbox_store_mark_sent, outbox_store_record_delivery_failure, outbox_store_save_interval,
        outbox_store_read_earliest_pending, outbox_store_get_stats, outbox_store_load_interval
  <2> QED
    BY <1>2, <2>1 DEF Write, EndWith
<1> QED
  BY <1>3, <1>4, <1>5, <1>6 DEF Step

\* While one store is in its transaction, the others change nothing committed.
LEMMA LockExcludes ==
    ASSUME StoreInv, NEW s \in users, Step(s), lock \notin {s, "free"}
    PROVE  UNCHANGED <<db, txn, lock>>
<1>1. pc[s] \notin InTransaction /\ lock # s /\ lock # "free"
  BY DEF StoreInv, LockIsTransaction, InTransaction, Saving
<1>2. CASE Open(s)
  BY <1>1, <1>2 DEF Open, OpenConnection, ReadVersion, SkipRung, MustMigrate,
        MigrateBegin, MigrateCommit, MigrateFailed, VerifySchema, InTransaction
<1>3. CASE Close(s) \/ Crash(s)
  BY <1>1, <1>3 DEF Close, Crash
<1>4. CASE Save(s)
  BY <1>1, <1>4 DEF Save, SaveRefused, SaveBegin, InsertMeasurement, InsertOutbox, SaveCommit,
        SaveFailed, Saving, InTransaction
<1>5. CASE Statement(s)
  BY <1>1, <1>5, Zenon DEF Statement, Write, Update, Select,
        outbox_store_mark_sent, outbox_store_record_delivery_failure, outbox_store_save_interval,
        outbox_store_read_earliest_pending, outbox_store_get_stats, outbox_store_load_interval
<1> QED
  BY <1>2, <1>3, <1>4, <1>5 DEF Step
-----------------------------------------------------------------------------
\* What UPDATE may make of a row: its measurement and message id stay, and a sent
\* row stays as it is.
MayBecome(row, next) ==
    /\ next.measurement = row.measurement /\ next.message_id = row.message_id
    /\ next.state \in {row.state, "sent"}
    /\ row.state = "sent" => next = row

\* Two rows that agree in every column are the same.
LEMMA SameRow ==
    ASSUME NEW q \in StoreRow, NEW r \in StoreRow,
           q.measurement = r.measurement, q.message_id = r.message_id, q.state = r.state,
           q.attempt_count = r.attempt_count, q.last_error = r.last_error, q.sent_at = r.sent_at
    PROVE  q = r
<1>1. q = [measurement |-> q.measurement, message_id |-> q.message_id, state |-> q.state,
           attempt_count |-> q.attempt_count, last_error |-> q.last_error, sent_at |-> q.sent_at]
  BY DEF StoreRow
<1>2. r = [measurement |-> r.measurement, message_id |-> r.message_id, state |-> r.state,
           attempt_count |-> r.attempt_count, last_error |-> r.last_error, sent_at |-> r.sent_at]
  BY DEF StoreRow
<1> QED
  BY <1>1, <1>2, Zenon

\* outbox_store_mark_sent's row.
LEMMA SentRow ==
    ASSUME NEW row \in StoreRow, NEW now \in 1 .. 2
    PROVE  Sent(row, now) \in StoreRow /\ MayBecome(row, Sent(row, now))
<1>1. ASSUME NEW at \in 0 .. 2, NEW error \in BOOLEAN, NEW r,
             r = [row EXCEPT !.state = "sent", !.sent_at = at, !.last_error = error],
             row.state = "sent" => at = row.sent_at /\ error = row.last_error
      PROVE  r \in StoreRow /\ MayBecome(row, r)
  <2>1. r \in StoreRow
    BY <1>1, Zenon DEF StoreRow
  <2>2. /\ r.measurement = row.measurement /\ r.message_id = row.message_id /\ r.state = "sent"
        /\ r.attempt_count = row.attempt_count /\ r.last_error = error /\ r.sent_at = at
    BY <1>1 DEF StoreRow
  <2>3. row.state = "sent" => r = row
    BY <1>1, <2>1, <2>2, SameRow, Zenon
  <2> QED
    BY <2>1, <2>2, <2>3 DEF MayBecome
<1>2. CASE row.state = "pending"
  <2>1. Sent(row, now) = [row EXCEPT !.state = "sent", !.sent_at = now, !.last_error = FALSE]
    BY <1>2, Zenon DEF Sent
  <2>2. now \in 0 .. 2 /\ FALSE \in BOOLEAN /\ row.state # "sent"
    BY <1>2
  <2> QED
    BY <1>1, <2>1, <2>2, Zenon
<1>3. CASE row.state # "pending"
  <2>1. Sent(row, now) = [row EXCEPT !.state = "sent", !.sent_at = row.sent_at,
                                     !.last_error = row.last_error]
    BY <1>3, Zenon DEF Sent
  <2>2. row.sent_at \in 0 .. 2 /\ row.last_error \in BOOLEAN
    BY Zenon DEF StoreRow
  <2> QED
    BY <1>1, <2>1, <2>2, Zenon
<1> QED
  BY <1>2, <1>3

\* outbox_store_record_delivery_failure's row.
LEMMA FailedRow ==
    ASSUME NEW row \in StoreRow, row.attempt_count < MaxAttempts
    PROVE  Failed(row) \in StoreRow /\ MayBecome(row, Failed(row))
<1>1. ASSUME NEW n \in 0 .. MaxAttempts, NEW r, row.state # "sent",
             r = [row EXCEPT !.attempt_count = n, !.last_error = TRUE]
      PROVE  r \in StoreRow /\ MayBecome(row, r)
  <2>1. r \in StoreRow
    BY <1>1, Zenon DEF StoreRow
  <2>2. r.measurement = row.measurement /\ r.message_id = row.message_id /\ r.state = row.state
    BY <1>1 DEF StoreRow
  <2> QED
    BY <1>1, <2>1, <2>2 DEF MayBecome
<1>2. CASE row.state = "pending"
  <2>1. Failed(row) = [row EXCEPT !.attempt_count = row.attempt_count + 1, !.last_error = TRUE]
    BY <1>2 DEF Failed
  <2>2. row.attempt_count + 1 \in 0 .. MaxAttempts /\ row.state # "sent"
    BY <1>2, StoreAssumption DEF StoreRow
  <2> QED
    BY <1>1, <2>1, <2>2, Zenon
<1>3. CASE row.state # "pending"
  <2>1. Failed(row) = row
    BY <1>3 DEF Failed
  <2> QED
    BY <2>1 DEF MayBecome
<1> QED
  BY <1>2, <1>3

\* What a step may do to the committed content.
LEMMA CommittedSteps ==
    ASSUME StoreInv, NEW s \in users, Step(s)
    PROVE  \/ UNCHANGED db
           \/ MigrateCommit(s)
           \/ SaveCommit(s)
           \/ /\ pc[s] = "ready"
              /\ \E id \in DOMAIN db.outbox, row \in StoreRow :
                    MayBecome(db.outbox[id], row) /\ db' = [db EXCEPT !.outbox[id] = row]
           \/ pc[s] = "ready" /\ \E ms \in Intervals : db' = [db EXCEPT !.interval = ms]
<1>1. CASE Open(s)
  BY <1>1 DEF Open, OpenConnection, ReadVersion, SkipRung, MigrateBegin, MigrateFailed,
              VerifySchema, EndWith
<1>2. CASE Close(s) \/ Crash(s)
  BY <1>2 DEF Close, Crash, EndWith
<1>3. CASE Save(s)
  BY <1>3 DEF Save, SaveRefused, SaveBegin, InsertMeasurement, InsertOutbox, SaveFailed, EndWith
<1>4. ASSUME NEW id, NEW now \in 1 .. 2, outbox_store_mark_sent(s, id, now), db' # db
      PROVE  /\ pc[s] = "ready" /\ id \in DOMAIN db.outbox
             /\ db' = [db EXCEPT !.outbox[id] = Sent(db.outbox[id], now)]
  BY <1>4, Zenon DEF outbox_store_mark_sent, Update, Write, EndWith
<1>5. ASSUME NEW id, outbox_store_record_delivery_failure(s, id), db' # db
      PROVE  /\ pc[s] = "ready" /\ id \in DOMAIN db.outbox
             /\ db' = [db EXCEPT !.outbox[id] = Failed(db.outbox[id])]
             /\ db.outbox[id].attempt_count < MaxAttempts
  BY <1>5, Zenon DEF outbox_store_record_delivery_failure, Update, Write, EndWith
<1>6. ASSUME NEW ms \in Intervals, outbox_store_save_interval(s, ms), db' # db
      PROVE  pc[s] = "ready" /\ db' = [db EXCEPT !.interval = ms]
  BY <1>6, Zenon DEF outbox_store_save_interval, Write, EndWith
<1>7. ASSUME \/ outbox_store_read_earliest_pending(s) \/ outbox_store_get_stats(s)
             \/ outbox_store_load_interval(s)
      PROVE  UNCHANGED db
  BY <1>7, Zenon DEF outbox_store_read_earliest_pending, outbox_store_get_stats,
                     outbox_store_load_interval, Select
<1>8. \A id \in DOMAIN db.outbox : db.outbox[id] \in StoreRow
  BY DEF StoreInv, Content
<1>9. CASE \E id \in 1 .. MaxRows, now \in 1 .. 2 : outbox_store_mark_sent(s, id, now)
  <2>1. PICK id \in 1 .. MaxRows, now \in 1 .. 2 : outbox_store_mark_sent(s, id, now)
    BY <1>9
  <2>2. CASE db' # db
    <3>1. /\ pc[s] = "ready" /\ id \in DOMAIN db.outbox
          /\ db' = [db EXCEPT !.outbox[id] = Sent(db.outbox[id], now)]
      BY <1>4, <2>1, <2>2, Zenon
    <3>2. Sent(db.outbox[id], now) \in StoreRow /\ MayBecome(db.outbox[id], Sent(db.outbox[id], now))
      BY <1>8, <3>1, SentRow, Zenon
    <3> QED
      BY <3>1, <3>2, Zenon
  <2> QED
    BY <2>2
<1>10. CASE \E id \in 1 .. MaxRows : outbox_store_record_delivery_failure(s, id)
  BY <1>5, <1>8, <1>10, FailedRow, Zenon
<1>11. CASE Statement(s)
  BY <1>6, <1>7, <1>9, <1>10, <1>11, Zenon DEF Statement
<1> QED
  BY <1>1, <1>2, <1>3, <1>11 DEF Step

\* What the transaction of outbox_store_save_measurement commits: one more
\* measurement and its pending row, with a message id of its own.
LEMMA SavedContent ==
    ASSUME StoreInv, NEW s \in Stores, pc[s] = "commit"
    PROVE  /\ txn.user_version = db.user_version /\ txn.objects = db.objects
           /\ db.user_version >= 3 /\ Len(db.outbox) < MaxRows
           /\ txn.measurements = Len(db.outbox) + 1
           /\ txn.outbox = Append(db.outbox, NewRow(Len(db.outbox) + 1, Len(db.outbox) + 1))
<1>1. /\ db \in Content /\ db.user_version \in Nat /\ db.outbox \in Seq(StoreRow)
      /\ db.measurements = Len(db.outbox) /\ db.objects = Objects(db.user_version)
  BY DEF StoreInv, Content, RowsNumbered, SchemaMatchesVersion
<1>2. /\ txn = [db EXCEPT !.measurements = @ + 1,
                          !.outbox = Append(@, NewRow(db.measurements + 1, FreshId(db)))]
      /\ db.user_version >= 3 /\ Len(db.outbox) < MaxRows
  BY DEF StoreInv, TransactionKnown, LadderKnown, Saving
<1>3. "message_id" \in db.objects
  BY <1>1, <1>2, ObjectsOfVersion
<1>4. FreshId(db) = Len(db.outbox) + 1
  BY <1>1, <1>3, FreshIdAfterAll DEF StoreInv, RowsNumbered
<1>5. /\ txn.user_version = db.user_version /\ txn.objects = db.objects
      /\ txn.measurements = db.measurements + 1
      /\ txn.outbox = Append(db.outbox, NewRow(db.measurements + 1, FreshId(db)))
  BY <1>1, <1>2 DEF Content
<1> QED
  BY <1>1, <1>2, <1>4, <1>5

\* The committed content stays typed and numbered, its schema that of its version,
\* and only a migration changes the version.
LEMMA CommittedContent ==
    ASSUME StoreInv, NEW s \in users, Step(s)
    PROVE  /\ db' \in Content /\ RowsNumbered' /\ SchemaMatchesVersion'
           /\ \/ db'.user_version = db.user_version
              \/ /\ pc[s] = "migrating" /\ db'.user_version > db.user_version
                 /\ db'.user_version >= 3 \/ db.user_version = 1
<1>1. /\ s \in Stores /\ db \in Content /\ db.user_version \in Nat /\ db.outbox \in Seq(StoreRow)
      /\ db.measurements = Len(db.outbox) /\ db.objects = Objects(db.user_version)
      /\ db.user_version = 0 => Len(db.outbox) = 0
      /\ \A id \in DOMAIN db.outbox :
            db.outbox[id].message_id = IF "message_id" \in db.objects THEN id ELSE 0
  BY DEF StoreInv, Content, RowsNumbered, SchemaMatchesVersion
<1>2. CASE UNCHANGED db
  BY <1>1, <1>2 DEF RowsNumbered, SchemaMatchesVersion
<1>3. CASE MigrateCommit(s)
  <2>1. pc[s] = "migrating" /\ db' = Migrated(opening[s].rung, db) /\ Applies(opening[s].rung, db)
    BY <1>3 DEF MigrateCommit, EndWith
  <2> DEFINE d == Migrated(opening[s].rung, db)
  <2>2. /\ d \in Content
        /\ d.user_version \in {2, 3, 4} /\ d.user_version > db.user_version
        /\ d.user_version = 2 => db.user_version = 1
        /\ d.objects = Objects(d.user_version)
        /\ d.measurements = db.measurements
        /\ DOMAIN d.outbox = DOMAIN db.outbox /\ Len(d.outbox) = Len(db.outbox)
        /\ \A id \in DOMAIN db.outbox :
              d.outbox[id].message_id = IF d.user_version >= 3 THEN id ELSE 0
    BY <1>1, <2>1, MigratedContent, Zenon
  <2>3. db' = d
    BY <2>1
  <2> HIDE DEF d
  <2>4. "message_id" \in d.objects <=> d.user_version >= 3
    BY <2>2, ObjectsOfVersion
  <2> QED
    BY <1>1, <2>1, <2>2, <2>3, <2>4 DEF RowsNumbered, SchemaMatchesVersion
<1>4. CASE SaveCommit(s)
  <2>1. pc[s] = "commit" /\ db' = txn
    BY <1>4 DEF SaveCommit, EndWith
  <2>2. /\ txn.user_version = db.user_version /\ txn.objects = db.objects
        /\ db.user_version >= 3 /\ Len(db.outbox) < MaxRows
        /\ txn.measurements = Len(db.outbox) + 1
        /\ txn.outbox = Append(db.outbox, NewRow(Len(db.outbox) + 1, Len(db.outbox) + 1))
    BY <1>1, <2>1, SavedContent
  <2>3. txn \in Content
    BY DEF StoreInv
  <2>4. "message_id" \in db.objects
    BY <1>1, <2>2, ObjectsOfVersion
  <2> DEFINE n == Len(db.outbox)
             r == NewRow(n + 1, n + 1)
  <2>5. r.message_id = n + 1
    BY DEF NewRow
  <2>6. RowsNumbered'
    <3> HIDE DEF r
    <3>1. n \in Nat /\ DOMAIN db.outbox = 1 .. n
      BY <1>1
    <3>2. /\ Len(db'.outbox) = n + 1 /\ DOMAIN db'.outbox = 1 .. n + 1
          /\ \A i \in 1 .. n + 1 : db'.outbox[i] = IF i <= n THEN db.outbox[i] ELSE r
      BY <1>1, <2>1, <2>2 DEF r
    <3>3. \A i \in 1 .. n + 1 : db'.outbox[i].message_id = i
      BY <1>1, <2>4, <2>5, <3>1, <3>2
    <3>4. db'.measurements = n + 1 /\ db'.objects = db.objects /\ db'.user_version # 0
      BY <1>1, <2>1, <2>2
    <3> HIDE DEF n
    <3> QED
      BY <2>4, <3>2, <3>3, <3>4 DEF RowsNumbered
  <2> QED
    BY <1>1, <2>1, <2>2, <2>3, <2>6 DEF SchemaMatchesVersion
<1>5. ASSUME NEW id \in DOMAIN db.outbox, NEW row \in StoreRow,
             MayBecome(db.outbox[id], row), db' = [db EXCEPT !.outbox[id] = row]
      PROVE  /\ db' \in Content /\ RowsNumbered' /\ SchemaMatchesVersion'
             /\ db'.user_version = db.user_version
  <2> DEFINE o == [db.outbox EXCEPT ![id] = row]
  <2>1. o \in Seq(StoreRow) /\ Len(o) = Len(db.outbox) /\ DOMAIN o = DOMAIN db.outbox
    BY <1>1
  <2>2. \A i \in DOMAIN db.outbox : o[i].message_id = db.outbox[i].message_id
    BY <1>1, <1>5 DEF MayBecome
  <2>3. db' = [db EXCEPT !.outbox = o]
    BY <1>5
  <2> HIDE DEF o
  <2>4. /\ db'.user_version = db.user_version /\ db'.objects = db.objects
        /\ db'.measurements = db.measurements /\ db'.outbox = o
    BY <1>1, <2>3 DEF Content
  <2>5. db' \in Content
    BY <1>1, <2>1, <2>3, Zenon DEF Content
  <2> QED
    BY <1>1, <2>1, <2>2, <2>4, <2>5 DEF RowsNumbered, SchemaMatchesVersion
<1>6. ASSUME NEW ms \in Intervals, db' = [db EXCEPT !.interval = ms]
      PROVE  /\ db' \in Content /\ RowsNumbered' /\ SchemaMatchesVersion'
             /\ db'.user_version = db.user_version
  <2>1. /\ db'.user_version = db.user_version /\ db'.objects = db.objects
        /\ db'.measurements = db.measurements /\ db'.outbox = db.outbox
    BY <1>1, <1>6 DEF Content
  <2>2. db' \in Content
    BY <1>1, <1>6, Zenon DEF Content
  <2> QED
    BY <1>1, <2>1, <2>2 DEF RowsNumbered, SchemaMatchesVersion
<1> QED
  BY <1>2, <1>3, <1>4, <1>5, <1>6, CommittedSteps
-----------------------------------------------------------------------------
\* LockIsTransaction is kept.
LEMMA LockStep ==
    ASSUME StoreInv, NEW s \in users, Step(s)
    PROVE  /\ lock' \in Stores \cup {"free"} /\ LockIsTransaction'
           /\ \A r \in Stores : pc'[r] \in InTransaction <=> lock' = r
<1>1. /\ s \in Stores /\ lock \in Stores \cup {"free"}
      /\ \A r \in Stores : lock = r <=> pc[r] \in InTransaction
  BY DEF StoreInv, LockIsTransaction, InTransaction, Saving
<1>2. \A r \in Stores : lock' = r <=> pc'[r] \in InTransaction
  BY <1>1, OneMoves, LockMoves, StoreAssumption
<1>3. lock' \in Stores \cup {"free"}
  BY <1>1, LockMoves
<1> QED
  BY <1>2, <1>3 DEF LockIsTransaction, InTransaction, Saving

\* What a step may do to the content its store sees.
LEMMA TransactionSteps ==
    ASSUME StoreInv, NEW s \in users, Step(s)
    PROVE  \/ lock' = "free" /\ txn' = db'
           \/ /\ UNCHANGED <<db, txn>>
              /\ \/ UNCHANGED lock /\ pc'[s] \notin InTransaction
                 \/ lock = "free" /\ pc'[s] = "migrating"
                 \/ lock = "free" /\ pc'[s] = "insert_measurement" /\ Len(db.outbox) < MaxRows
           \/ InsertMeasurement(s)
           \/ InsertOutbox(s)
<1>1. s \in Stores /\ pc \in [Stores -> Calls]
  BY DEF StoreInv
<1>2. CASE Open(s)
  BY <1>1, <1>2 DEF Open, OpenConnection, ReadVersion, SkipRung, MustMigrate, MigrateBegin,
        MigrateCommit, MigrateFailed, VerifySchema, OpenReturns, Goto, EndWith, InTransaction
<1>3. CASE Close(s) \/ Crash(s)
  BY <1>1, <1>3 DEF Close, Crash, EndWith, Goto, InTransaction
<1>4. CASE Save(s)
  BY <1>1, <1>4 DEF Save, SaveRefused, SaveBegin, SaveCommit, SaveFailed, EndWith, Goto,
        InTransaction
<1>5. CASE Statement(s)
  <2>1. \/ UNCHANGED <<db, txn, lock>>
        \/ \E d, r : Write(s, d, r)
    BY <1>5, Zenon DEF Statement, Update, Select,
        outbox_store_mark_sent, outbox_store_record_delivery_failure, outbox_store_save_interval,
        outbox_store_read_earliest_pending, outbox_store_get_stats, outbox_store_load_interval
  <2>2. UNCHANGED pc /\ pc[s] = "ready"
    BY <1>5, Zenon DEF Statement, Update, Write, Select,
        outbox_store_mark_sent, outbox_store_record_delivery_failure, outbox_store_save_interval,
        outbox_store_read_earliest_pending, outbox_store_get_stats, outbox_store_load_interval
  <2> QED
    BY <2>1, <2>2 DEF Write, EndWith, InTransaction
<1> QED
  BY <1>2, <1>3, <1>4, <1>5 DEF Step

\* TransactionKnown is kept.
LEMMA TransactionStep ==
    ASSUME StoreInv, NEW s \in users, Step(s)
    PROVE  txn' \in Content /\ TransactionKnown'
<1>1. /\ s \in Stores /\ pc \in [Stores -> Calls] /\ db \in Content /\ txn \in Content
      /\ lock = "free" => txn = db
      /\ \A r \in Stores : lock = r <=> pc[r] \in InTransaction
      /\ s # "free"
  BY StoreAssumption DEF StoreInv, LockIsTransaction, InTransaction, Saving, TransactionKnown
<1>2. \A r \in Stores : pc'[r] \in InTransaction <=> lock' = r
  BY LockStep
<1>3. CASE lock' = "free" /\ txn' = db'
  <2>1. \A r \in Stores : pc'[r] \notin InTransaction
    BY <1>2, <1>3, StoreAssumption
  <2> QED
    BY <1>3, <2>1, CommittedContent DEF TransactionKnown, InTransaction, Saving
<1>4. CASE /\ UNCHANGED <<db, txn, lock>> /\ pc'[s] \notin InTransaction
  <2>1. \A r \in Stores : pc'[r] \in InTransaction => pc'[r] = pc[r]
    BY <1>4, OneMoves
  <2> QED
    BY <1>1, <1>4, <2>1 DEF StoreInv, TransactionKnown, InTransaction, Saving
<1>5. CASE /\ UNCHANGED <<db, txn>> /\ lock = "free"
           /\ \/ pc'[s] = "migrating"
              \/ pc'[s] = "insert_measurement" /\ Len(db.outbox) < MaxRows
  <2>1. \A r \in Stores : pc'[r] \in InTransaction => r = s
    BY <1>1, <1>5, OneMoves, StoreAssumption
  <2> QED
    BY <1>1, <1>5, <2>1 DEF TransactionKnown, InTransaction, Saving
<1>6. CASE InsertMeasurement(s)
  <2>1. /\ pc[s] = "insert_measurement" /\ pc'[s] = "insert_outbox"
        /\ txn' = [txn EXCEPT !.measurements = @ + 1] /\ UNCHANGED <<db, lock>>
    BY <1>1, <1>6 DEF InsertMeasurement, Goto
  <2>2. txn = db /\ Len(db.outbox) < MaxRows /\ lock = s
    BY <1>1, <2>1 DEF StoreInv, TransactionKnown, InTransaction, Saving
  <2>3. \A r \in Stores : pc'[r] \in InTransaction => r = s
    BY <1>2, <2>1, <2>2
  <2>4. txn' \in Content
    <3>1. txn.measurements + 1 \in Nat
      BY <1>1 DEF Content
    <3> QED
      BY <1>1, <2>1, <3>1, Zenon DEF Content
  <2> QED
    BY <1>1, <2>1, <2>2, <2>3, <2>4 DEF TransactionKnown, InTransaction, Saving
<1>7. CASE InsertOutbox(s)
  <2> DEFINE r == NewRow(txn.measurements, FreshId(txn))
  <2>1. /\ pc[s] = "insert_outbox" /\ pc'[s] = "commit"
        /\ txn' = [txn EXCEPT !.outbox = Append(txn.outbox, r)] /\ UNCHANGED <<db, lock>>
    BY <1>1, <1>7 DEF InsertOutbox, Goto
  <2>2. /\ txn = [db EXCEPT !.measurements = @ + 1] /\ Len(db.outbox) < MaxRows /\ lock = s
        /\ db.user_version >= 3
    BY <1>1, <2>1 DEF StoreInv, TransactionKnown, LadderKnown, InTransaction, Saving
  <2>3. \A q \in Stores : pc'[q] \in InTransaction => q = s
    BY <1>2, <2>1, <2>2
  <2>4. txn.outbox = db.outbox /\ txn.measurements = db.measurements + 1
    BY <1>1, <2>2 DEF Content
  <2>5. FreshId(txn) = FreshId(db)
    BY <2>4 DEF FreshId
  <2>6. FreshId(db) = Len(db.outbox) + 1
    <3>1. "message_id" \in db.objects
      BY <2>2, ObjectsOfVersion DEF StoreInv, Content, SchemaMatchesVersion
    <3> QED
      BY <1>1, <3>1, FreshIdAfterAll DEF StoreInv, RowsNumbered
  <2>7. r \in StoreRow
    <3>1. FreshId(txn) \in Nat /\ txn.measurements \in Nat
      BY <1>1, <2>4, <2>5, <2>6 DEF Content
    <3> QED
      BY <3>1, StoreAssumption DEF NewRow, StoreRow
  <2> HIDE DEF r
  <2>8. Append(txn.outbox, r) \in Seq(StoreRow)
    BY <1>1, <2>7 DEF Content
  <2>9. txn' \in Content
    BY <1>1, <2>1, <2>8, Zenon DEF Content
  <2>10. txn' = [db EXCEPT !.measurements = @ + 1,
                           !.outbox = Append(@, NewRow(db.measurements + 1, FreshId(db)))]
    <3>1. r = NewRow(db.measurements + 1, FreshId(db))
      BY <2>4, <2>5 DEF r
    <3> QED
      BY <1>1, <2>1, <2>2, <2>4, <3>1 DEF Content
  <2> QED
    BY <1>1, <2>1, <2>2, <2>3, <2>9, <2>10 DEF TransactionKnown, InTransaction, Saving
<1> QED
  BY <1>3, <1>4, <1>5, <1>6, <1>7, TransactionSteps

\* LadderKnown is kept: a version is read and climbed on while nobody else changes it.
LEMMA LadderStep ==
    ASSUME StoreInv, NEW s \in users, Step(s), UNCHANGED users
    PROVE  LadderKnown'
<1> DEFINE Rung(r) ==
              /\ opening[r].version <= db.user_version
              /\ Exclusive => opening[r].version = db.user_version
              /\ Exclusive \/ opening[r].version \notin {1, 2}
           Script(r) == opening[r].rung = opening[r].version /\ opening[r].rung < SchemaVersion
<1>1. /\ s \in Stores /\ users \subseteq Stores /\ pc \in [Stores -> Calls]
      /\ opening \in [Stores -> [rung : 0 .. SchemaVersion, version : Nat]]
      /\ db.user_version \in Nat /\ db'.user_version \in Nat
  <2>1. db \in Content /\ db' \in Content
    BY CommittedContent DEF StoreInv
  <2> QED
    BY <2>1 DEF StoreInv, Content
<1>2. /\ \A r \in Stores \ users : pc[r] = "closed"
      /\ Exclusive \/ db.user_version \notin {1, 2}
      /\ \A r \in Stores :
            /\ pc[r] \in {"rung", "migrating"} => Rung(r)
            /\ pc[r] = "migrating" => Script(r)
            /\ pc[r] = "ready" \/ Saving(r) => db.user_version >= 3
  BY DEF StoreInv, LadderKnown
<1>3. \A r \in Stores \ {s} : pc'[r] = pc[r] /\ opening'[r] = opening[r]
  BY OneMoves
<1>4. Exclusive' <=> Exclusive
  BY DEF Exclusive
<1>5. \A r \in Stores \ {s} : Exclusive => pc[r] = "closed"
  BY <1>2 DEF Exclusive
<1>6. \/ db'.user_version = db.user_version
      \/ /\ pc[s] = "migrating" /\ db'.user_version > db.user_version
         /\ db'.user_version >= 3 \/ db.user_version = 1
  BY CommittedContent
<1>7. \A r \in Stores \ users : pc'[r] = "closed"
  BY <1>2, <1>3
<1>8. Exclusive' \/ db'.user_version \notin {1, 2}
  BY <1>1, <1>2, <1>4, <1>6
<1>9. ASSUME NEW r \in Stores \ {s}
      PROVE  /\ pc'[r] \in {"rung", "migrating"} => Rung(r)'
             /\ pc'[r] = "migrating" => Script(r)'
             /\ pc'[r] = "ready" \/ Saving(r)' => db'.user_version >= 3
  <2>1. /\ pc'[r] = pc[r] /\ opening'[r] = opening[r] /\ opening[r].version \in Nat
        /\ Saving(r)' <=> Saving(r)
    BY <1>1, <1>3 DEF Saving
  <2>2. CASE Exclusive
    BY <1>5, <2>1, <2>2 DEF Saving
  <2>3. CASE ~Exclusive
    <3>1. db'.user_version >= db.user_version
      BY <1>1, <1>6
    <3>2. /\ pc[r] \in {"rung", "migrating"} => Rung(r)
          /\ pc[r] = "migrating" => Script(r)
          /\ pc[r] = "ready" \/ Saving(r) => db.user_version >= 3
      BY <1>2
    <3> QED
      BY <1>1, <1>4, <2>1, <2>3, <3>1, <3>2
  <2> QED
    BY <2>2, <2>3
<1> DEFINE Own == /\ pc[s] \in {"rung", "migrating"} => Rung(s)
                  /\ pc[s] = "migrating" => Script(s)
                  /\ pc[s] = "ready" \/ Saving(s) => db.user_version >= 3
<1>10. Own
  BY <1>1, <1>2
<1> SUFFICES Own'
  BY <1>4, <1>7, <1>8, <1>9 DEF LadderKnown
<1>11. CASE Open(s)
  <2>1. CASE pc'[s] \in {"closed", "read_version"}
    BY <2>1 DEF Saving
  <2>2. CASE ReadVersion(s) /\ pc'[s] = "rung"
    <3>1. opening'[s].version = db.user_version /\ db' = db
      BY <1>1, <2>2 DEF ReadVersion, OpenReturns, Goto
    <3> QED
      BY <1>1, <1>2, <1>4, <2>2, <3>1 DEF Saving
  <2>3. CASE SkipRung(s)
    <3>1. /\ pc[s] = "rung" /\ pc'[s] = "rung" /\ opening'[s].version = opening[s].version
          /\ db' = db
      BY <1>1, <2>3 DEF SkipRung
    <3> QED
      BY <1>4, <1>10, <3>1 DEF Saving
  <2>4. CASE MigrateBegin(s) /\ pc'[s] = "migrating"
    <3>1. /\ MustMigrate(s) /\ db' = db /\ UNCHANGED opening
      BY <1>1, <2>4 DEF MigrateBegin, OpenReturns, Goto
    <3> QED
      BY <1>4, <1>10, <2>4, <3>1 DEF Saving, MustMigrate
  <2>5. CASE VerifySchema(s) /\ pc'[s] = "ready"
    <3>1. pc[s] = "rung" /\ opening[s].version = SchemaVersion /\ db' = db
      BY <1>1, <2>5 DEF VerifySchema, OpenReturns, Goto
    <3> QED
      BY <1>1, <1>10, <2>5, <3>1 DEF Saving, SchemaVersion
  <2>6. ASSUME NEW r, OpenReturns(s, r)
        PROVE  pc'[s] = IF r = "OK" THEN "ready" ELSE "closed"
    BY <1>1, <2>6 DEF OpenReturns, Goto
  <2>7. \A rc \in SqliteErrors : map_sqlite_result(rc) # "OK"
    BY StoreAssumption DEF map_sqlite_result
  <2>8. OpenConnection(s) \/ MigrateCommit(s) => pc'[s] \in {"closed", "read_version"}
    BY <1>1, <2>6, <2>7 DEF OpenConnection, MigrateCommit, Goto
  <2>9. MigrateFailed(s) => pc'[s] = "closed"
    BY <2>6 DEF MigrateFailed
  <2>10. ReadVersion(s) => pc'[s] \in {"closed", "rung"}
    BY <1>1, <2>6 DEF ReadVersion, Goto
  <2>11. MigrateBegin(s) => pc'[s] \in {"closed", "migrating"}
    BY <1>1, <2>6 DEF MigrateBegin, Goto
  <2>12. VerifySchema(s) => pc'[s] \in {"closed", "ready"}
    BY <2>6 DEF VerifySchema
  <2> HIDE DEF Own
  <2> QED
    BY <1>11, <2>1, <2>2, <2>3, <2>4, <2>5, <2>8, <2>9, <2>10, <2>11, <2>12 DEF Open
<1>12. CASE Close(s) \/ Crash(s)
  <2>1. pc'[s] = "closed"
    BY <1>1, <1>12 DEF Close, Crash, Goto
  <2> QED
    BY <2>1 DEF Saving
<1>13. CASE Save(s) \/ Statement(s)
  <2>1. (pc[s] = "ready" \/ Saving(s)) /\ (pc'[s] = "ready" \/ Saving(s)')
    <3>1. CASE Save(s)
      BY <1>1, <3>1 DEF Save, SaveRefused, SaveBegin, InsertMeasurement, InsertOutbox, SaveCommit,
                        SaveFailed, Saving, Goto
    <3>2. CASE Statement(s)
      BY <3>2, Zenon DEF Statement, Update, Write, Select,
        outbox_store_mark_sent, outbox_store_record_delivery_failure, outbox_store_save_interval,
        outbox_store_read_earliest_pending, outbox_store_get_stats, outbox_store_load_interval
    <3> QED
      BY <1>13, <3>1, <3>2
  <2>2. db'.user_version = db.user_version
    BY <1>6, <2>1 DEF Saving
  <2> QED
    BY <1>10, <2>1, <2>2 DEF Saving
<1> QED
  BY <1>11, <1>12, <1>13 DEF Step

\* StoreInv holds in every initial state.
LEMMA InvariantInit == NoSharedUpgrade /\ Init => StoreInv
<1> SUFFICES ASSUME NoSharedUpgrade, Init
             PROVE  StoreInv
  OBVIOUS
<1>1. PICK v \in InitVersions :
         /\ db = Database(v)
         /\ users \in {{s} : s \in Stores} \cup (IF v \in SharedVersions THEN {Stores} ELSE {})
  BY DEF Init
<1>2. v \in Nat
  BY <1>1, StoreAssumption
<1> DEFINE n == IF v = 0 THEN 0 ELSE InitialRows
           Fresh(i) == NewRow(i, IF v >= 3 THEN i ELSE 0)
           o == [i \in 1 .. n |-> Fresh(i)]
<1>3. n \in Nat /\ (v = 0 => n = 0)
  BY StoreAssumption
<1>4. db = [user_version |-> v, objects |-> Objects(v), measurements |-> n, outbox |-> o,
            interval |-> 0]
  BY <1>1, Zenon DEF Database
<1>5. \A i \in 1 .. n : Fresh(i) \in StoreRow /\ Fresh(i).message_id = IF v >= 3 THEN i ELSE 0
  BY <1>3, StoreAssumption DEF NewRow, StoreRow
<1> HIDE DEF n, Fresh
<1>6. o \in Seq(StoreRow) /\ Len(o) = n /\ DOMAIN o = 1 .. n
  BY <1>3, <1>5
<1>7. \A i \in 1 .. n : o[i].message_id = IF v >= 3 THEN i ELSE 0
  BY <1>5
<1> HIDE DEF o
<1>8. /\ Objects(v) \subseteq Objects(SchemaVersion)
      /\ "message_id" \in Objects(v) <=> v >= 3
  BY <1>2, ObjectsOfVersion
<1>9. db \in Content
  BY <1>2, <1>3, <1>4, <1>6, <1>8 DEF Content
<1>10. RowsNumbered /\ SchemaMatchesVersion /\ db.user_version = v
  BY <1>3, <1>4, <1>6, <1>7, <1>8 DEF RowsNumbered, SchemaMatchesVersion
<1>11. users \subseteq Stores /\ (Exclusive \/ v \notin {1, 2})
  BY <1>1 DEF NoSharedUpgrade, Exclusive
<1>12. /\ lock = "free" /\ txn = db
       /\ pc = [s \in Stores |-> "closed"] /\ opening = [s \in Stores |-> NotOpening]
  BY DEF Init
<1>13. LockIsTransaction /\ TransactionKnown
  BY <1>12, StoreAssumption DEF LockIsTransaction, TransactionKnown, Saving
<1>14. LadderKnown
  BY <1>10, <1>11, <1>12 DEF LadderKnown, Saving
<1> QED
  BY <1>9, <1>10, <1>11, <1>12, <1>13, <1>14 DEF StoreInv, Calls, NotOpening, SchemaVersion

\* Every step preserves it.
LEMMA InvariantStep == StoreInv /\ [Next]_vars => StoreInv'
<1> SUFFICES ASSUME StoreInv, [Next]_vars
             PROVE  StoreInv'
  OBVIOUS
<1>1. CASE UNCHANGED vars
  BY <1>1, Zenon DEF vars, StoreInv, LockIsTransaction, TransactionKnown, RowsNumbered,
              SchemaMatchesVersion, LadderKnown, Exclusive, Saving
<1>2. CASE Next
  <2>1. PICK s \in users : Step(s)
    BY <1>2 DEF Next, Step
  <2>2. UNCHANGED users /\ users \subseteq Stores
    BY <1>2 DEF Next, StoreInv
  <2> QED
    BY <2>1, <2>2, OneMoves, CommittedContent, LockStep, TransactionStep, LadderStep DEF StoreInv
<1> QED
  BY <1>1, <1>2
-----------------------------------------------------------------------------
\* The store's invariant, for any connections, rows and bounds: the write lock is
\* held exactly through a transaction, a transaction commits all of its statements
\* or none, and a script of the ladder runs only on the version it is for.
THEOREM StoreInvariant == NoSharedUpgrade /\ Spec => []StoreInv
  BY InvariantInit, InvariantStep, PTL DEF Spec

\* A committed measurement has its outbox row, and two rows never share a message id
\* (outbox_store_save_measurement).
THEOREM NothingOrphaned == NoSharedUpgrade /\ Spec => []NoOrphan
<1>1. StoreInv => NoOrphan
  BY DEF StoreInv, RowsNumbered, NoOrphan
<1> QED
  BY <1>1, StoreInvariant, PTL

\* No crash or failure leaves a half-migrated schema (the migration scripts of
\* outbox_store_open).
THEOREM NeverHalfMigrated == NoSharedUpgrade /\ Spec => []SchemaMatchesVersion
<1>1. StoreInv => SchemaMatchesVersion
  BY DEF StoreInv
<1> QED
  BY <1>1, StoreInvariant, PTL

\* What SettledStays says of one row.
Settled(row, next) ==
    /\ row.message_id # 0 => next.message_id = row.message_id
    /\ row.state = "sent" => next = [row EXCEPT !.message_id = next.message_id]

\* A message id given and a row sent stay as they are, whichever connections call
\* outbox_store_mark_sent, outbox_store_record_delivery_failure or the migrations.
THEOREM SettledForGood == NoSharedUpgrade /\ Spec => SettledStays
<1>1. ASSUME StoreInv, Next, NEW id \in DOMAIN db.outbox
      PROVE  Settled(db.outbox[id], db'.outbox[id])
  <2>1. PICK s \in users : Step(s)
    BY <1>1 DEF Next, Step
  <2>2. /\ s \in Stores /\ db \in Content /\ db.outbox \in Seq(StoreRow)
        /\ db.outbox[id] \in StoreRow
    BY <1>1 DEF StoreInv, Content
  <2>3. Settled(db.outbox[id], db.outbox[id])
    BY <2>2, SameMessageId DEF Settled
  <2>4. CASE UNCHANGED db
    BY <2>3, <2>4
  <2>5. CASE MigrateCommit(s)
    <3>1. /\ pc[s] = "migrating" /\ Applies(opening[s].rung, db)
          /\ db' = Migrated(opening[s].rung, db)
      BY <2>5 DEF MigrateCommit, EndWith
    <3>2. /\ db'.outbox[id] = [db.outbox[id] EXCEPT !.message_id = db'.outbox[id].message_id]
          /\ db.user_version >= 3 => db'.outbox[id] = db.outbox[id]
      BY <1>1, <2>2, <3>1, MigratedContent, Zenon
    <3>3. db.outbox[id].message_id # 0 => db.user_version >= 3
      BY <1>1, ObjectsOfVersion DEF StoreInv, Content, RowsNumbered, SchemaMatchesVersion
    <3> QED
      BY <3>2, <3>3 DEF Settled
  <2>6. CASE SaveCommit(s)
    <3>1. /\ pc[s] = "commit" /\ db' = txn
      BY <2>6 DEF SaveCommit, EndWith
    <3>2. db'.outbox = Append(db.outbox, NewRow(Len(db.outbox) + 1, Len(db.outbox) + 1))
      BY <1>1, <2>2, <3>1, SavedContent
    <3>3. db'.outbox[id] = db.outbox[id]
      BY <1>1, <2>2, <3>2
    <3> QED
      BY <2>3, <3>3
  <2>7. ASSUME NEW i \in DOMAIN db.outbox, NEW row \in StoreRow,
               MayBecome(db.outbox[i], row), db' = [db EXCEPT !.outbox[i] = row]
        PROVE  Settled(db.outbox[id], db'.outbox[id])
    <3>1. db'.outbox[id] = IF id = i THEN row ELSE db.outbox[id]
      BY <2>2, <2>7 DEF Content
    <3>2. Settled(db.outbox[i], row)
      BY <2>2, <2>7, SameMessageId DEF MayBecome, Settled
    <3> QED
      BY <2>3, <3>1, <3>2
  <2>8. ASSUME NEW ms \in Intervals, db' = [db EXCEPT !.interval = ms]
        PROVE  Settled(db.outbox[id], db'.outbox[id])
    <3>1. db'.outbox = db.outbox
      BY <2>2, <2>8 DEF Content
    <3> QED
      BY <2>3, <3>1
  <2> QED
    BY <1>1, <2>1, <2>4, <2>5, <2>6, <2>7, <2>8, CommittedSteps
<1>2. StoreInv /\ [Next]_vars => [\A id \in DOMAIN db.outbox :
                                     Settled(db.outbox[id], db'.outbox[id])]_db
  BY <1>1 DEF vars
<1> QED
  BY <1>2, StoreInvariant, PTL DEF Spec, SettledStays, Settled

\* A sequence one longer, equal on the old positions, is the old one appended to.
LEMMA AppendByElements ==
    ASSUME NEW S, NEW s \in Seq(S), NEW t \in Seq(S), NEW e \in S,
           Len(t) = Len(s) + 1,
           \A i \in 1 .. Len(s) : t[i] = s[i],
           t[Len(s) + 1] = e
    PROVE  t = Append(s, e)
  OBVIOUS

\* A row as the workers see it.
Seen(row) == [measurement |-> row.measurement, state |-> row.state]

\* The rows the workers see, by position.
LEMMA RowsSeen ==
    ASSUME NEW d \in Content, NEW r, r = [id \in DOMAIN d.outbox |-> Seen(d.outbox[id])]
    PROVE  /\ r \in Seq(Row) /\ Len(r) = Len(d.outbox) /\ DOMAIN r = DOMAIN d.outbox
           /\ \A id \in DOMAIN d.outbox : r[id] = Seen(d.outbox[id])
<1>1. /\ Len(d.outbox) \in Nat /\ DOMAIN d.outbox = 1 .. Len(d.outbox)
      /\ \A id \in DOMAIN d.outbox : d.outbox[id] \in StoreRow
  BY DEF Content
<1>2. \A row \in StoreRow : Seen(row) \in Row
  BY DEF StoreRow, Row, Seen
<1>3. r \in Seq(Row) /\ Len(r) = Len(d.outbox) /\ DOMAIN r = DOMAIN d.outbox
  BY <1>1, <1>2
<1> QED
  BY <1>3

\* A commit is one call of module Outbox to the workers, whatever the other
\* connections do in between: the statements of a call are seen together.
THEOREM CallsSeenAtomic == NoSharedUpgrade /\ Spec => CallsAreAtomic
<1> DEFINE OneCall == \/ \E m \in 1 .. MaxRows : rows' = SaveMeasurement(rows, m)
                      \/ \E id \in DOMAIN rows : rows' = MarkSent(rows, id)
<1>1. ASSUME StoreInv, StoreInv', Next, rows' # rows
      PROVE  OneCall
  <2>1. PICK s \in users : Step(s)
    BY <1>1 DEF Next, Step
  <2>2. /\ s \in Stores /\ db \in Content /\ db' \in Content /\ db.outbox \in Seq(StoreRow)
        /\ Len(db.outbox) \in Nat /\ DOMAIN db.outbox = 1 .. Len(db.outbox)
        /\ \A id \in DOMAIN db.outbox : db.outbox[id] \in StoreRow
    <3>1. s \in Stores /\ db \in Content /\ db' \in Content
      BY <1>1 DEF StoreInv
    <3> QED
      BY <3>1 DEF Content
  <2>3. /\ rows \in Seq(Row) /\ Len(rows) = Len(db.outbox) /\ DOMAIN rows = DOMAIN db.outbox
        /\ \A id \in DOMAIN db.outbox : rows[id] = Seen(db.outbox[id])
    <3>1. rows = [id \in DOMAIN db.outbox |-> Seen(db.outbox[id])]
      BY Zenon DEF rows, Seen
    <3> QED
      BY <2>2, <3>1, RowsSeen, Zenon
  <2>4. /\ rows' \in Seq(Row) /\ Len(rows') = Len(db'.outbox) /\ DOMAIN rows' = DOMAIN db'.outbox
        /\ \A id \in DOMAIN db'.outbox : rows'[id] = Seen(db'.outbox[id])
    <3>1. rows' = [id \in DOMAIN db'.outbox |-> Seen(db'.outbox[id])]
      BY Zenon DEF rows, Seen
    <3> QED
      BY <2>2, <3>1, RowsSeen, Zenon
  <2>5. ASSUME DOMAIN db'.outbox = DOMAIN db.outbox,
               \A id \in DOMAIN db.outbox : Seen(db'.outbox[id]) = Seen(db.outbox[id])
        PROVE  FALSE
    BY <1>1, <2>2, <2>3, <2>4, <2>5
  <2>6. ASSUME db'.outbox = db.outbox
        PROVE  FALSE
    BY <2>5, <2>6
  <2>7. ASSUME MigrateCommit(s)
        PROVE  FALSE
    <3>1. /\ pc[s] = "migrating" /\ Applies(opening[s].rung, db)
          /\ db' = Migrated(opening[s].rung, db)
      BY <2>7 DEF MigrateCommit, EndWith
    <3>2. /\ DOMAIN db'.outbox = DOMAIN db.outbox
          /\ \A id \in DOMAIN db.outbox :
                db'.outbox[id] = [db.outbox[id] EXCEPT !.message_id = db'.outbox[id].message_id]
      BY <1>1, <2>2, <3>1, MigratedContent, Zenon
    <3>3. ASSUME NEW r \in StoreRow, NEW q, NEW m, q = [r EXCEPT !.message_id = m]
          PROVE  Seen(q) = Seen(r)
      BY <3>3 DEF StoreRow, Seen
    <3>4. \A id \in DOMAIN db.outbox : Seen(db'.outbox[id]) = Seen(db.outbox[id])
      BY <2>2, <3>2, <3>3, Zenon
    <3> QED
      BY <2>5, <3>2, <3>4, Zenon
  <2>8. CASE SaveCommit(s)
    <3> DEFINE n == Len(db.outbox)
               r == NewRow(n + 1, n + 1)
    <3>1. pc[s] = "commit" /\ db' = txn
      BY <2>8 DEF SaveCommit, EndWith
    <3>2. db'.outbox = Append(db.outbox, r) /\ n < MaxRows
      BY <1>1, <2>2, <3>1, SavedContent
    <3>3. Seen(r) = [measurement |-> n + 1, state |-> "pending"] /\ Seen(r) \in Row
      BY <2>2 DEF Seen, NewRow, Row
    <3>4. n + 1 \in 1 .. MaxRows
      BY <2>2, <3>2, StoreAssumption
    <3> HIDE DEF r
    <3>5. /\ Len(db'.outbox) = n + 1 /\ db'.outbox[n + 1] = r
          /\ DOMAIN db'.outbox = 1 .. n + 1
          /\ \A i \in 1 .. n : db'.outbox[i] = db.outbox[i]
      BY <2>2, <3>2
    <3>6. /\ Len(rows') = Len(rows) + 1 /\ rows'[Len(rows) + 1] = Seen(r)
          /\ \A i \in 1 .. Len(rows) : rows'[i] = rows[i]
      BY <2>2, <2>3, <2>4, <3>5
    <3>7. rows' = Append(rows, Seen(r))
      BY <2>3, <2>4, <3>3, <3>6, AppendByElements
    <3> QED
      BY <3>3, <3>4, <3>7 DEF SaveMeasurement
  <2>9. ASSUME NEW i \in DOMAIN db.outbox, NEW row \in StoreRow,
               MayBecome(db.outbox[i], row), db' = [db EXCEPT !.outbox[i] = row]
        PROVE  OneCall
    <3>1. db'.outbox = [db.outbox EXCEPT ![i] = row]
      BY <2>2, <2>9 DEF Content
    <3>2. /\ DOMAIN db'.outbox = DOMAIN db.outbox
          /\ \A id \in DOMAIN db.outbox :
                db'.outbox[id] = IF id = i THEN row ELSE db.outbox[id]
      BY <2>2, <3>1
    <3>3. CASE row.state = db.outbox[i].state
      <4>1. Seen(row) = Seen(db.outbox[i])
        BY <2>9, <3>3 DEF Seen, MayBecome
      <4> QED
        BY <2>5, <3>2, <4>1
    <3>4. CASE row.state # db.outbox[i].state
      <4>1. Seen(row) = [Seen(db.outbox[i]) EXCEPT !.state = "sent"]
        BY <2>9, <3>4 DEF Seen, MayBecome
      <4>2. /\ DOMAIN rows' = DOMAIN rows
            /\ \A id \in DOMAIN rows :
                  rows'[id] = IF id = i THEN [rows[id] EXCEPT !.state = "sent"] ELSE rows[id]
        BY <2>3, <2>4, <3>2, <4>1
      <4>3. rows' = MarkSent(rows, i)
        <5> DEFINE q == [rows[i] EXCEPT !.state = "sent"]
        <5>1. MarkSent(rows, i) = [rows EXCEPT ![i] = q]
          BY DEF MarkSent
        <5>2. \A id \in DOMAIN rows : rows'[id] = IF id = i THEN q ELSE rows[id]
          BY <4>2, Zenon
        <5> HIDE DEF q
        <5>3. rows' = [rows EXCEPT ![i] = q]
          BY <2>3, <2>4, <4>2, <5>2
        <5> QED
          BY <5>1, <5>3
      <4> QED
        BY <2>3, <4>3
    <3> QED
      BY <3>3, <3>4
  <2>10. ASSUME NEW ms \in Intervals, db' = [db EXCEPT !.interval = ms]
         PROVE  FALSE
    <3>1. db'.outbox = db.outbox
      BY <2>2, <2>10 DEF Content
    <3> QED
      BY <2>6, <3>1
  <2> QED
    BY <1>1, <2>1, <2>6, <2>7, <2>8, <2>9, <2>10, CommittedSteps
<1>2. StoreInv /\ StoreInv' /\ [Next]_vars => [OneCall]_rows
  <2>1. UNCHANGED vars => UNCHANGED rows
    BY DEF vars, rows
  <2> QED
    BY <1>1, <2>1
<1> QED
  BY <1>2, StoreInvariant, PTL DEF Spec, CallsAreAtomic
=============================================================================
