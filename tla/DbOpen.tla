------------------------------- MODULE DbOpen -------------------------------
(***************************************************************************)
(* The database file: an empty one is bootstrapped, an old schema is       *)
(* upgraded version by version, subscribers and their keys are added and   *)
(* removed, and the program may crash, or a statement fail, in between.    *)
(*                                                                         *)
(* db_open() of src/src/db.c with what it calls, src/sql/hlr.sql, the      *)
(* functions of src/src/db_hlr.c that run several statements, the VTY      *)
(* commands that call them, and the import of src/src/hlr_db_tool.c.       *)
(* SQLite is external: a statement outside a transaction is durable when   *)
(* it is done, a transaction when it is committed.  Of the schema, the     *)
(* columns that differ between versions are kept; of the tables other than *)
(* subscriber, the keys in auc_2g and auc_3g; of a key, whose it is.       *)
(***************************************************************************)
EXTENDS Integers, SequencesExt

CONSTANTS
    Subscr,    \* IMSIs
    MaxId,     \* bound: the highest row id
    NoTable    \* a table is not there

CURRENT_SCHEMA_VERSION == 5

Column == {"hlr_number", "last_lu_seen", "imei", "msc_number", "last_lu_seen_ps",
           "vlr_via_proxy", "sgsn_via_proxy"}

(* The columns that each version adds to those of version 0. *)
NewColumns == <<{"last_lu_seen"}, {"imei"}, {"msc_number"}, {"last_lu_seen_ps"},
                {"vlr_via_proxy", "sgsn_via_proxy"}>>

ASSUME MaxIdAssumption == MaxId \in Nat \ {0}

Row == [id: 1..MaxId, imsi: Subscr]

Table == [cols: SUBSET Column, rows: SUBSET Row]

KeyKind == {"2g", "3g"}

(* A row of auc_2g or auc_3g; owner is the subscriber whose key it is. *)
Key == [id: 1..MaxId, kind: KeyKind, owner: Subscr]

ASSUME NoTableAssumption ==
    NoTable \notin Table /\ \A t \in (SUBSET Row) \cup SUBSET Key : t # NoTable

(* others: the other tables, of which the keys are kept. *)
Content == [version: 0..(CURRENT_SCHEMA_VERSION + 1), subscriber: Table \cup {NoTable},
            others: {NoTable} \cup SUBSET Key]

VARIABLES
    disk,      \* what is in the file
    view,      \* what the connection sees; differs in a transaction
    backup,    \* the rows in the temporary table subscriber_backup
    inTx,      \* a transaction is open
    pc,        \* not running, in db_open(), the HLR in operation, or the
               \* database tool importing
    version,   \* the local variable of db_open()
    todo,      \* statements that the function under way has yet to run
    allow,     \* allow_upgrade
    torn,      \* history: an opening was stopped between two statements of a
               \* version, with a part of them in effect
    failed,    \* history: a statement did not fit the schema it met
    left       \* history: the keys, by id and kind, that the deletion of their
               \* subscriber did not get to or could not delete

vars == <<disk, view, backup, inTx, pc, version, todo, allow, torn, failed, left>>

opening == <<backup, inTx, version, allow, torn, failed>>

Stmt(op, arg) == [op |-> op, arg |-> arg]

(* The columns that SUBSCR_V2_COLUMN_NAMES and SUBSCR_V3_CREATE name. *)
V2Columns == {"hlr_number", "last_lu_seen", "imei"}
V3Columns == {"msc_number", "last_lu_seen", "imei"}

(* stmt_bootstrap_sql, from sql/hlr.sql. *)
stmt_bootstrap_sql ==
    <<Stmt("create", Column \ {"hlr_number"}), Stmt("create_others", {}),
      Stmt("user_version", CURRENT_SCHEMA_VERSION)>>

db_upgrade_v1 == <<Stmt("alter", "last_lu_seen"), Stmt("user_version", 1)>>

db_upgrade_v2 == <<Stmt("alter", "imei"), Stmt("user_version", 2)>>

(* Mutant: the rows are not copied back. *)
UpgradeV3NotRestored ==
    <<Stmt("begin", {}), Stmt("backup", V2Columns), Stmt("drop", {}),
      Stmt("create", V3Columns), Stmt("commit", {}), Stmt("user_version", 3)>>

db_upgrade_v3 ==
    <<Stmt("begin", {}), Stmt("backup", V2Columns), Stmt("drop", {}),
      Stmt("create", V3Columns), Stmt("restore", {}), Stmt("commit", {}),
      Stmt("user_version", 3)>>

db_upgrade_v4 == <<Stmt("alter", "last_lu_seen_ps"), Stmt("user_version", 4)>>

(* Mutant: the version is set first. *)
UpgradeV5VersionFirst ==
    <<Stmt("user_version", 5), Stmt("alter", "vlr_via_proxy"), Stmt("alter", "sgsn_via_proxy")>>

db_upgrade_v5 ==
    <<Stmt("alter", "vlr_via_proxy"), Stmt("alter", "sgsn_via_proxy"), Stmt("user_version", 5)>>

db_upgrade_path == <<db_upgrade_v1, db_upgrade_v2, db_upgrade_v3, db_upgrade_v4, db_upgrade_v5>>

(* What db_run_statements() may have yet to run. *)
OpeningTodo ==
    UNION {{SubSeq(stmts, n, Len(stmts)) : n \in 1..(Len(stmts) + 1)} :
              stmts \in ToSet(db_upgrade_path) \cup {stmt_bootstrap_sql}}

(* The statements and the look-up of the operations on subscribers. *)
OperationStmt ==
    [op: {"insert_subscr", "import_aud"}, arg: Subscr]
        \cup [op: {"delete_subscr"}, arg: 1..MaxId]
        \cup [op: {"delete_key"}, arg: (1..MaxId) \X KeyKind]
        \cup [op: {"insert_key"}, arg: Key]

(* A table has one row per primary key, and one per IMSI. *)
UniqueRows(rows) == \A r, q \in rows : r.id = q.id \/ r.imsi = q.imsi => r = q

UniqueKeys(keys) == \A k, l \in keys : k.id = l.id /\ k.kind = l.kind => k = l

TypeOK ==
    /\ disk \in Content /\ view \in Content
    /\ view.subscriber # NoTable => UniqueRows(view.subscriber.rows)
    /\ view.others # NoTable => UniqueKeys(view.others)
    /\ backup \in {NoTable} \cup SUBSET Row
    /\ inTx \in BOOLEAN
    /\ pc \in {"down", "opening", "hlr", "import"}
    /\ version \in 0..(CURRENT_SCHEMA_VERSION + 1)
    /\ IF pc = "opening" THEN todo \in OpeningTodo ELSE ToSet(todo) \subseteq OperationStmt
    /\ allow \in BOOLEAN /\ torn \in BOOLEAN /\ failed \in BOOLEAN
    /\ left \in SUBSET ((1..MaxId) \X KeyKind)

(* The columns of a version. *)
ColumnsOf(v) ==
    (UNION {NewColumns[u] : u \in {w \in 1..CURRENT_SCHEMA_VERSION : w <= v}})
        \cup (IF v < 3 THEN {"hlr_number"} ELSE {})

(* A database of version v whose subscribers have keys of these kinds. *)
Database(v, rows, kinds) ==
    [version |-> v, subscriber |-> [cols |-> ColumnsOf(v), rows |-> rows],
     others |-> {[id |-> r.id, kind |-> k, owner |-> r.imsi] : r \in rows, k \in kinds}]

(* An empty file, or a database of any version, a later one included. *)
Init ==
    /\ \/ disk = [version |-> 0, subscriber |-> NoTable, others |-> NoTable]
       \/ \E v \in 0..(CURRENT_SCHEMA_VERSION + 1), rows \in SUBSET Row, kinds \in SUBSET KeyKind :
             UniqueRows(rows) /\ disk = Database(v, rows, kinds)
    /\ view = disk
    /\ backup = NoTable
    /\ inTx = FALSE
    /\ pc = "down"
    /\ version = 0
    /\ todo = <<>>
    /\ allow \in BOOLEAN
    /\ torn = FALSE
    /\ failed = FALSE
    /\ left = {}

-----------------------------------------------------------------------------
(* SQLite. *)

(* A statement fits the schema: what it creates is not there, and what it  *)
(* names is.                                                               *)
Fits(st) ==
    CASE st.op = "alter" -> view.subscriber # NoTable /\ st.arg \notin view.subscriber.cols
      [] st.op = "create" -> view.subscriber = NoTable
      [] st.op = "create_others" -> view.others = NoTable
      [] st.op = "backup" -> view.subscriber # NoTable /\ st.arg \subseteq view.subscriber.cols
      [] st.op \in {"drop", "restore"} -> view.subscriber # NoTable
      [] st.op \in {"begin", "commit", "user_version"} -> TRUE

(* What the connection sees after a statement. *)
Effect(st) ==
    CASE st.op = "alter" -> [view EXCEPT !.subscriber.cols = @ \cup {st.arg}]
      [] st.op = "create" -> [view EXCEPT !.subscriber = [cols |-> st.arg, rows |-> {}]]
      [] st.op = "create_others" -> [view EXCEPT !.others = {}]
      [] st.op = "drop" -> [view EXCEPT !.subscriber = NoTable]
      [] st.op = "restore" -> [view EXCEPT !.subscriber.rows = backup]
      [] st.op = "user_version" -> [view EXCEPT !.version = st.arg]
      [] st.op \in {"begin", "backup", "commit"} -> view

(* The connection is closed, by db_close() or with the process: an open    *)
(* transaction is rolled back and temporary tables are gone.               *)
Closed ==
    /\ pc' = "down"
    /\ view' = disk
    /\ backup' = NoTable
    /\ inTx' = FALSE
    /\ todo' = <<>>
    /\ version' = 0
    /\ UNCHANGED <<disk, allow>>

-----------------------------------------------------------------------------
(* db_open(). *)

(* Mutant: the result of db_get_user_version() is not checked. *)
ReadableAlways(v) == TRUE

(* db_get_user_version() returns -1 if it fails. *)
Readable(v) == v >= 0

(* Mutant: the version stays that of the empty file. *)
VersionUnchanged(v) == v

(* The version after db_bootstrap(). *)
VersionBootstrapped(v) == CURRENT_SCHEMA_VERSION

db_open(allow_upgrade) ==
    /\ pc = "down"
    /\ \E v \in {disk.version, -1} :
         /\ Readable(v)
         /\ IF v = 0 /\ disk.subscriber = NoTable
            THEN todo' = stmt_bootstrap_sql /\ version' = VersionBootstrapped(v)
            ELSE todo' = <<>> /\ version' = v
    /\ pc' = "opening"
    /\ allow' = allow_upgrade
    /\ UNCHANGED <<disk, view, backup, inTx, torn, failed, left>>

(* db_run_statements(): one statement. *)
RunStatement ==
    /\ pc = "opening" /\ todo # <<>> /\ Fits(Head(todo))
    /\ LET st == Head(todo)
       IN  /\ view' = Effect(st)
           /\ backup' = IF st.op = "backup" THEN view.subscriber.rows ELSE backup
           /\ inTx' = IF st.op \in {"begin", "commit"} THEN st.op = "begin" ELSE inTx
           /\ disk' = IF inTx' THEN disk ELSE view'
    /\ todo' = Tail(todo)
    /\ UNCHANGED <<pc, version, allow, torn, failed, left>>

(* db_run_statements(): a statement cannot be prepared, or fails, because  *)
(* the schema is not the one it was made for.                              *)
StatementUnfit ==
    /\ pc = "opening" /\ todo # <<>> /\ ~Fits(Head(todo))
    /\ failed' = TRUE
    /\ Closed
    /\ UNCHANGED <<torn, left>>

(* The next round of the loop over db_upgrade_path. *)
NextVersion ==
    /\ pc = "opening" /\ todo = <<>>
    /\ allow /\ version < CURRENT_SCHEMA_VERSION
    /\ todo' = db_upgrade_path[version + 1]
    /\ version' = version + 1
    /\ UNCHANGED <<disk, view, backup, inTx, pc, allow, torn, failed, left>>

(* The columns and tables that stmt_sql names. *)
Prepared == view.subscriber # NoTable /\ view.others # NoTable
              /\ ColumnsOf(CURRENT_SCHEMA_VERSION) \ {"msc_number"} \subseteq view.subscriber.cols

(* The end of db_open(): the version is the current one and all statements *)
(* can be prepared, or the program gives up.  The program is the HLR, or   *)
(* the database tool, whose main() goes on to the import.                  *)
OpenEnds ==
    /\ pc = "opening" /\ todo = <<>>
    /\ ~(allow /\ version < CURRENT_SCHEMA_VERSION)
    /\ IF version = CURRENT_SCHEMA_VERSION /\ Prepared
       THEN /\ pc' \in {"hlr", "import"}
            /\ UNCHANGED <<disk, view, backup, inTx, version, todo, allow, failed>>
       ELSE /\ failed' = (failed \/ version = CURRENT_SCHEMA_VERSION)
            /\ Closed
    /\ UNCHANGED <<torn, left>>

(* A part of the statements of a version, but not all, is in effect: the   *)
(* list was begun, and what was done is not in an open transaction.        *)
MidVersion ==
    /\ pc = "opening" /\ todo # <<>> /\ ~inTx
    /\ todo \notin ToSet(db_upgrade_path) \cup {stmt_bootstrap_sql}

(* The keys that these statements were to delete for a subscriber that is  *)
(* already deleted.                                                        *)
LeftBy(stmts) ==
    {st.arg : st \in {t \in ToSet(stmts) : t.op = "delete_key"}}
        \ {<<r.id, k>> : r \in view.subscriber.rows, k \in KeyKind}

(* The process ends: it is killed, the power fails, or the tool is done.   *)
(* In db_open(), also a statement that fails for a reason of its own: the  *)
(* disk is full, the file is locked.                                       *)
Interrupted ==
    /\ pc # "down"
    /\ torn' = (torn \/ MidVersion)
    /\ left' = IF pc = "opening" THEN left ELSE left \cup LeftBy(todo)
    /\ Closed
    /\ UNCHANGED failed

-----------------------------------------------------------------------------
(* Subscribers and keys.  A function that runs several statements leaves   *)
(* the later ones in todo; the process runs nothing else until it is done. *)

Idle(program) == pc = program /\ todo = <<>>

Starts(stmts) ==
    /\ todo' = stmts
    /\ UNCHANGED <<disk, view, pc, left, opening>>

(* SQLite gives a new row the highest id plus one: an id at the end of the *)
(* table is used again after its row is deleted.                           *)
NewId(rows) == 1 + Max({0} \cup {r.id : r \in rows})

(* Mutant: the 3G key stays. *)
DeleteForgets3g(id) == <<Stmt("delete_subscr", id), Stmt("delete_key", <<id, "2g">>)>>

(* The row, then the keys. *)
db_subscr_delete_by_id(id) ==
    <<Stmt("delete_subscr", id), Stmt("delete_key", <<id, "2g">>), Stmt("delete_key", <<id, "3g">>)>>

(* aud->algo is NONE, and there is no new key; or there is one. *)
NoAud == <<>>
Aud(r, kind) == <<Stmt("insert_key", [id |-> r.id, kind |-> kind, owner |-> r.imsi])>>

(* The old key, then the new one, if there is one. *)
db_subscr_update_aud_by_id(id, kind, aud) == <<Stmt("delete_key", <<id, kind>>)>> \o aud

(* VTY, and subscr_create_on_demand(). *)
subscriber_create(s) ==
    /\ Idle("hlr")
    /\ Starts(<<Stmt("insert_subscr", s)>>)

(* VTY: the commands find the row by any of its names. *)
subscriber_delete(r) ==
    /\ Idle("hlr")
    /\ Starts(db_subscr_delete_by_id(r.id))

subscriber_aud(r, kind) ==
    /\ Idle("hlr")
    /\ Starts(db_subscr_update_aud_by_id(r.id, kind, Aud(r, kind)))

subscriber_no_aud(r, kind) ==
    /\ Idle("hlr")
    /\ Starts(db_subscr_update_aud_by_id(r.id, kind, NoAud))

(* The tool: a row of the OsmoNITB database. *)
import_nitb_subscr(s) ==
    /\ Idle("import")
    /\ Starts(<<Stmt("insert_subscr", s), Stmt("import_aud", s)>>)

(* The id is looked up by IMSI; the row may be one that was there before,  *)
(* or there is none and the import carries on with the rest.  The OsmoNITB *)
(* subscriber has no key, one of algorithm NONE, which only deletes, or    *)
(* one to store.                                                           *)
import_nitb_subscr_aud ==
    /\ pc = "import" /\ todo # <<>> /\ Head(todo).op = "import_aud"
    /\ LET s == Head(todo).arg
           found == {r \in view.subscriber.rows : r.imsi = s}
       IN  \/ /\ todo' = <<>>
           \/ \E r \in found : \E aud \in {NoAud, Aud(r, "2g")} :
                 todo' = db_subscr_update_aud_by_id(r.id, "2g", aud)
    /\ UNCHANGED <<disk, view, pc, left, opening>>

InOperation == pc \in {"hlr", "import"} /\ todo # <<>> /\ Head(todo).op # "import_aud"

(* What a statement makes of the content, if it can: a row with its IMSI   *)
(* or id is in the way.  The bound on ids is as if the file were full.     *)
Written(st) ==
    LET rows == view.subscriber.rows
        keys == view.others
    IN  CASE st.op = "insert_subscr" ->
               IF NewId(rows) > MaxId \/ \E r \in rows : r.imsi = st.arg THEN {}
               ELSE {[view EXCEPT !.subscriber.rows =
                          @ \cup {[id |-> NewId(rows), imsi |-> st.arg]}]}
          [] st.op = "delete_subscr" ->
               {[view EXCEPT !.subscriber.rows = {r \in @ : r.id # st.arg}]}
          [] st.op = "delete_key" ->
               {[view EXCEPT !.others = {k \in @ : <<k.id, k.kind>> # st.arg}]}
          [] st.op = "insert_key" ->
               IF \E k \in keys : k.id = st.arg.id /\ k.kind = st.arg.kind THEN {}
               ELSE {[view EXCEPT !.others = @ \cup {st.arg}]}

(* sqlite3_step() returns SQLITE_DONE. *)
StepDone ==
    /\ InOperation
    /\ view' \in Written(Head(todo))
    /\ disk' = view'
    /\ todo' = Tail(todo)
    /\ left' = IF Head(todo).op = "delete_key" THEN left \ {Head(todo).arg} ELSE left
    /\ UNCHANGED <<pc, opening>>

(* After an error: a deletion stops if the row cannot be deleted, but not  *)
(* if a key cannot; an update stops; the import carries on.                *)
GoesOn(stmts) ==
    IF \/ Head(stmts).op = "delete_subscr"
       \/ Len(stmts) > 1 /\ stmts[2].op = "insert_key"
    THEN <<>> ELSE Tail(stmts)

(* sqlite3_step() fails, for a constraint or for a reason of its own. *)
StepFails ==
    /\ InOperation
    /\ todo' = GoesOn(todo)
    /\ left' = left \cup LeftBy(<<Head(todo)>>)
    /\ UNCHANGED <<disk, view, pc, opening>>

Next ==
    \/ \E allow_upgrade \in BOOLEAN : db_open(allow_upgrade)
    \/ RunStatement
    \/ StatementUnfit
    \/ NextVersion
    \/ OpenEnds
    \/ Interrupted
    \/ \E s \in Subscr : subscriber_create(s) \/ import_nitb_subscr(s)
    \/ /\ pc = "hlr"
       /\ \E r \in view.subscriber.rows :
             \/ subscriber_delete(r)
             \/ \E kind \in KeyKind : subscriber_aud(r, kind) \/ subscriber_no_aud(r, kind)
    \/ import_nitb_subscr_aud
    \/ StepDone
    \/ StepFails

Spec == Init /\ [][Next]_vars

-----------------------------------------------------------------------------
(* Properties. *)

(* The file never claims more than it holds: whatever was interrupted      *)
(* before, the columns of all versions up to user_version are there.       *)
VersionTruthful ==
    disk.version > 0 =>
        /\ disk.subscriber # NoTable /\ disk.others # NoTable
        /\ \A u \in 1..CURRENT_SCHEMA_VERSION :
              u <= disk.version => NewColumns[u] \subseteq disk.subscriber.cols

(* No statement meets a schema that it was not made for, neither in an     *)
(* upgrade from any version nor when an upgraded or bootstrapped database  *)
(* is used, unless an opening was stopped between two statements of one    *)
(* version.  A stop inside the transaction of version 3, or between two    *)
(* versions, does no harm.                                                 *)
FitsUnlessTorn == failed => torn

RowsOf(d) == IF d.subscriber = NoTable THEN {} ELSE d.subscriber.rows

KeysOf(d) == IF d.others = NoTable THEN {} ELSE d.others

(* No opening, upgrade or interruption loses a subscriber or a key, or     *)
(* changes the id by which keys are found; the import of another database  *)
(* loses no subscriber and no 3G key.                                      *)
SubscribersKept ==
    [][/\ RowsOf(disk) \subseteq RowsOf(disk') \/ pc = "hlr"
       /\ \A k \in KeysOf(disk) \ KeysOf(disk') : pc = "hlr" \/ (pc = "import" /\ k.kind = "2g")]_vars

(* Authentication uses nobody else's key: the key that is found by the id  *)
(* of a subscriber is one that was set for this subscriber, however often  *)
(* SQLite gave the id away before, in whatever order subscribers are made, *)
(* imported and deleted, and wherever an operation stops.  The exception   *)
(* is a deletion that removed the row and was stopped, or failed, before   *)
(* the keys: db_subscr_delete_by_id() does not use a transaction.          *)
KeysFollow ==
    \A r \in RowsOf(disk), k \in KeysOf(disk) :
        k.id = r.id => k.owner = r.imsi \/ <<k.id, k.kind>> \in left

(* "Completely delete a subscriber record from the HLR database.  Also     *)
(* remove authentication data" (db_hlr.c): a deletion of a row that has    *)
(* come to its last statement, and returns, leaves no key with its id.     *)
DeletedCompletely ==
    [][\A id \in 1..MaxId :
          /\ pc = "hlr" /\ pc' = "hlr"
          /\ todo = <<Stmt("delete_key", <<id, "3g">>)>> /\ todo' = <<>>
          /\ \A r \in RowsOf(disk) : r.id # id
          => \A k \in KeysOf(disk') : k.id # id]_vars

=============================================================================
