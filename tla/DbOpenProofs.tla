---------------------------- MODULE DbOpenProofs ----------------------------
(***************************************************************************)
(* Proofs about the database file, for any subscribers and row ids, any    *)
(* number of restarts, and a crash or failed statement at any point.       *)
(*                                                                         *)
(* The invariant has a case for each list of statements that can be left   *)
(* to run, with what file and connection hold there.  An action runs one   *)
(* statement, and is shown to lead from each case to the next; a crash     *)
(* leads from each of them to a file that can be opened.                   *)
(***************************************************************************)
EXTENDS DbOpen, SequenceTheorems, WellFoundedInduction, TLAPS

(* Sets of numbers and lists. *)

(* A non-empty set of natural numbers has a least member. *)
LEMMA LeastNat ==
    ASSUME NEW T \in SUBSET Nat, T # {}
    PROVE  \E x \in T : \A y \in T : x <= y
<1> DEFINE R == OpToRel(<, Nat)
<1>1. IsWellFoundedOn(R, Nat)
  BY NatLessThanWellFounded
<1>2. \A y, x \in Nat : y < x => <<y, x>> \in R
  BY DEF OpToRel
<1> HIDE DEF R
<1>3. PICK x \in T : \A y \in T : ~ (<<y, x>> \in R)
  BY <1>1, WFMin
<1>4. ASSUME NEW y \in T PROVE x <= y
  <2>1. x \in Nat /\ y \in Nat
    OBVIOUS
  <2>2. ~(y < x)
    BY <1>2, <1>3, <2>1
  <2> QED
    BY <2>1, <2>2
<1> QED
  BY <1>4

(* A set of numbers with a bound has a greatest member. *)
LEMMA MaxIs ==
    ASSUME NEW b \in Nat, NEW T \in SUBSET (0..b), T # {}
    PROVE  Max(T) \in T /\ \A y \in T : y <= Max(T)
<1> DEFINE U == {b - y : y \in T}
<1>1. U \in SUBSET Nat /\ U # {}
  <2>1. \A y \in T : b - y \in Nat
    OBVIOUS
  <2>2. PICK y \in T : TRUE
    OBVIOUS
  <2>3. b - y \in U
    OBVIOUS
  <2> QED
    BY <2>1, <2>3
<1>2. PICK u \in U : \A w \in U : u <= w
  BY <1>1, LeastNat
<1>3. PICK x \in T : u = b - x
  BY <1>2
<1>4. \A y \in T : x >= y
  <2> TAKE y \in T
  <2>1. b - x <= b - y
    BY <1>2, <1>3
  <2> QED
    BY <2>1
<1>5. \E m \in T : \A y \in T : m >= y
  BY <1>4
<1>6. Max(T) \in T /\ \A y \in T : Max(T) >= y
  BY <1>5 DEF Max
<1> QED
  BY <1>6

(* The elements of a short list. *)
LEMMA ToSetIs ==
    /\ ToSet(<<>>) = {}
    /\ \A a : ToSet(<<a>>) = {a}
    /\ \A a, b : ToSet(<<a, b>>) = {a, b}
    /\ \A a, b, c : ToSet(<<a, b, c>>) = {a, b, c}
BY DEF ToSet

LEMMA PairIs ==
    ASSUME NEW a, NEW b
    PROVE  <<a>> \o <<b>> = <<a, b>>
<1> DEFINE S == {a, b}
           s == <<a>> \o <<b>>
           t == <<a, b>>
<1>1. <<a>> \in Seq(S) /\ <<b>> \in Seq(S) /\ Len(<<a>>) = 1 /\ Len(<<b>>) = 1 /\ <<a>>[1] = a /\ <<b>>[1] = b
  OBVIOUS
<1>2. t \in Seq(S) /\ Len(t) = 2 /\ t[1] = a /\ t[2] = b
  OBVIOUS
<1>3. /\ s \in Seq(S) /\ Len(s) = 1 + 1
      /\ \A i \in 1..(1 + 1) : s[i] = IF i <= 1 THEN <<a>>[i] ELSE <<b>>[i - 1]
  BY <1>1, ConcatProperties
<1> HIDE DEF s, t, S
<1>4. Len(s) = 2 /\ s[1] = a /\ s[2] = b
  BY <1>1, <1>3
<1>5. Len(s) = Len(t) /\ \A i \in 1..Len(s) : s[i] = t[i]
  <2>1. 1..2 = {1, 2}
    OBVIOUS
  <2> QED
    BY <1>2, <1>4, <2>1
<1>6. s = t
  BY <1>2, <1>3, <1>5, SeqEqual
<1> QED
  BY <1>6 DEF s, t

-----------------------------------------------------------------------------
(* The invariant. *)

-----------------------------------------------------------------------------
(* The inductive invariant.                                                *)
(*                                                                         *)
(* What a file promises in any case, and what it is if no opening was      *)
(* stopped in the midst of a version.                                      *)

Sound(c) ==
    /\ c.version > 0 =>
          /\ c.subscriber # NoTable /\ c.others # NoTable
          /\ \A u \in 1..CURRENT_SCHEMA_VERSION :
                u <= c.version => NewColumns[u] \subseteq c.subscriber.cols
    /\ c.others = NoTable => c.subscriber = NoTable \/ "last_lu_seen" \in c.subscriber.cols

Exact(c) ==
    IF c.subscriber = NoTable THEN c.version = 0 /\ c.others = NoTable
    ELSE c.others # NoTable /\ c.subscriber.cols = ColumnsOf(c.version)

Settled == inTx = FALSE /\ view = disk

AtRest == Settled /\ (torn = TRUE \/ Exact(disk))

(* Where db_open() may be.  Between versions: *)
Resting == todo = <<>> /\ AtRest /\ version = disk.version /\ disk.subscriber # NoTable

Begun(v) ==
    /\ todo = db_upgrade_path[v] /\ version = v
    /\ AtRest /\ disk.version = v - 1 /\ disk.subscriber # NoTable

(* Columns were added, the rest of the statements of version v are left: *)
Altered(v, done, rest) ==
    /\ todo = rest /\ version = v
    /\ Settled /\ disk.version = v - 1
    /\ disk.subscriber # NoTable /\ disk.others # NoTable
    /\ done \subseteq disk.subscriber.cols
    /\ torn = TRUE \/ disk.subscriber.cols = ColumnsOf(v - 1) \cup done

Altering ==
    \/ Altered(1, {"last_lu_seen"}, <<Stmt("user_version", 1)>>)
    \/ Altered(2, {"imei"}, <<Stmt("user_version", 2)>>)
    \/ Altered(4, {"last_lu_seen_ps"}, <<Stmt("user_version", 4)>>)
    \/ Altered(5, {"vlr_via_proxy"}, <<Stmt("alter", "sgsn_via_proxy"), Stmt("user_version", 5)>>)
    \/ Altered(5, {"vlr_via_proxy", "sgsn_via_proxy"}, <<Stmt("user_version", 5)>>)

(* In the transaction of version 3; table is what the connection sees. *)
InTransaction(table, rest) ==
    /\ todo = rest /\ version = 3
    /\ inTx = TRUE /\ (torn = TRUE \/ Exact(disk)) /\ disk.version = 2
    /\ view = [disk EXCEPT !.subscriber = table]

FromCommit == <<Stmt("commit", {}), Stmt("user_version", 3)>>
FromRestore == <<Stmt("restore", {}), Stmt("commit", {}), Stmt("user_version", 3)>>
FromCreate == <<Stmt("create", V3Columns), Stmt("restore", {}), Stmt("commit", {}), Stmt("user_version", 3)>>
FromDrop == <<Stmt("drop", {}), Stmt("create", V3Columns), Stmt("restore", {}), Stmt("commit", {}),
              Stmt("user_version", 3)>>
FromBackup == <<Stmt("backup", V2Columns), Stmt("drop", {}), Stmt("create", V3Columns),
                Stmt("restore", {}), Stmt("commit", {}), Stmt("user_version", 3)>>

Transacting ==
    \/ InTransaction(disk.subscriber, FromBackup)
    \/ /\ backup = RowsOf(disk)
       /\ \/ InTransaction(disk.subscriber, FromDrop)
          \/ InTransaction(NoTable, FromCreate)
          \/ InTransaction([cols |-> V3Columns, rows |-> {}], FromRestore)
          \/ InTransaction([cols |-> V3Columns, rows |-> backup], FromCommit)

Committed ==
    /\ todo = <<Stmt("user_version", 3)>> /\ version = 3
    /\ Settled /\ disk.version = 2
    /\ disk.subscriber # NoTable /\ disk.subscriber.cols = V3Columns

(* In the bootstrap. *)
NewTable == [cols |-> Column \ {"hlr_number"}, rows |-> {}]

Bootstrapping ==
    /\ version = CURRENT_SCHEMA_VERSION /\ Settled /\ disk.version = 0
    /\ \/ todo = stmt_bootstrap_sql /\ AtRest /\ disk.subscriber = NoTable
       \/ /\ todo = <<Stmt("create_others", {}), Stmt("user_version", CURRENT_SCHEMA_VERSION)>>
          /\ disk.subscriber = NewTable /\ (torn = TRUE \/ disk.others = NoTable)
       \/ /\ todo = <<Stmt("user_version", CURRENT_SCHEMA_VERSION)>>
          /\ disk.subscriber = NewTable /\ disk.others # NoTable

Opening ==
    \/ Resting
    \/ \E v \in 1..CURRENT_SCHEMA_VERSION : Begun(v)
    \/ Altering \/ Transacting \/ Committed \/ Bootstrapping

(* Where an operation on subscribers may be, in a file with these rows. *)
Delete(id, kind) == Stmt("delete_key", <<id, kind>>)

Deleting(rows) ==
    \E id \in 1..MaxId :
        \/ todo = db_subscr_delete_by_id(id) /\ \E r \in rows : r.id = id
        \/ /\ todo \in {<<Delete(id, "2g"), Delete(id, "3g")>>, <<Delete(id, "3g")>>}
           /\ \A r \in rows : r.id # id

Updating(rows) ==
    \E r \in rows, kind \in KeyKind :
        /\ pc = "import" => kind = "2g"
        /\ todo \in {<<Delete(r.id, kind)>> \o Aud(r, kind), <<Delete(r.id, kind)>>, Aud(r, kind)}

Importing ==
    \E s \in Subscr :
        \/ todo = <<Stmt("insert_subscr", s)>> /\ pc = "hlr"
        \/ /\ todo \in {<<Stmt("insert_subscr", s), Stmt("import_aud", s)>>, <<Stmt("import_aud", s)>>}
           /\ pc = "import"

InProgress ==
    \/ todo = <<>>
    \/ pc = "hlr" /\ Deleting(RowsOf(disk))
    \/ pc \in {"hlr", "import"} /\ Updating(RowsOf(disk))
    \/ Importing

Operating ==
    /\ AtRest
    /\ pc \in {"hlr", "import"} => disk.subscriber # NoTable /\ disk.others # NoTable
    /\ InProgress

(* A key without a subscriber is about to be deleted, or in left. *)
Orphans ==
    \A k \in KeysOf(disk) :
        \/ \E r \in RowsOf(disk) : r.id = k.id
        \/ <<k.id, k.kind>> \in left
        \/ pc = "hlr" /\ Delete(k.id, k.kind) \in ToSet(todo)

Types ==
    /\ disk \in Content /\ view \in Content
    /\ backup \in {NoTable} \cup SUBSET Row
    /\ inTx \in BOOLEAN
    /\ pc \in {"down", "opening", "hlr", "import"}
    /\ version \in 0..(CURRENT_SCHEMA_VERSION + 1)
    /\ allow \in BOOLEAN /\ torn \in BOOLEAN /\ failed \in BOOLEAN
    /\ left \in SUBSET ((1..MaxId) \X KeyKind)

IInv ==
    /\ Types
    /\ Sound(disk)
    /\ UniqueRows(RowsOf(disk)) /\ UniqueKeys(KeysOf(disk))
    /\ IF pc = "opening" THEN Opening ELSE Operating
    /\ FitsUnlessTorn
    /\ KeysFollow /\ Orphans

-----------------------------------------------------------------------------
(* Columns and contents. *)

(* The columns of each version, spelled out. *)
LEMMA ColumnsAre ==
    /\ ColumnsOf(0) = {"hlr_number"}
    /\ ColumnsOf(1) = {"hlr_number", "last_lu_seen"}
    /\ ColumnsOf(2) = V2Columns
    /\ ColumnsOf(3) = V3Columns
    /\ ColumnsOf(4) = V3Columns \cup {"last_lu_seen_ps"}
    /\ ColumnsOf(5) = Column \ {"hlr_number"}
    /\ ColumnsOf(6) = Column \ {"hlr_number"}
<1> DEFINE N(v) == UNION {NewColumns[u] : u \in {w \in 1..CURRENT_SCHEMA_VERSION : w <= v}}
<1>1. \A v \in 0..6 : \A c : c \in N(v) <=> \E u \in 1..5 : u <= v /\ c \in NewColumns[u]
  BY DEF CURRENT_SCHEMA_VERSION
<1>2. /\ NewColumns[1] = {"last_lu_seen"} /\ NewColumns[2] = {"imei"} /\ NewColumns[3] = {"msc_number"}
      /\ NewColumns[4] = {"last_lu_seen_ps"} /\ NewColumns[5] = {"vlr_via_proxy", "sgsn_via_proxy"}
  BY DEF NewColumns
<1>3. \A v \in 0..6 : \A c : c \in N(v) <=>
         \/ 1 <= v /\ c = "last_lu_seen"
         \/ 2 <= v /\ c = "imei"
         \/ 3 <= v /\ c = "msc_number"
         \/ 4 <= v /\ c = "last_lu_seen_ps"
         \/ 5 <= v /\ c \in {"vlr_via_proxy", "sgsn_via_proxy"}
  <2> SUFFICES ASSUME NEW v \in 0..6, NEW c
               PROVE  (\E u \in 1..5 : u <= v /\ c \in NewColumns[u]) <=>
                        \/ 1 <= v /\ c = "last_lu_seen"
                        \/ 2 <= v /\ c = "imei"
                        \/ 3 <= v /\ c = "msc_number"
                        \/ 4 <= v /\ c = "last_lu_seen_ps"
                        \/ 5 <= v /\ c \in {"vlr_via_proxy", "sgsn_via_proxy"}
    BY <1>1
  <2>1. 1..5 = {1, 2, 3, 4, 5}
    OBVIOUS
  <2> QED
    BY <1>2, <2>1
<1>4. \A v \in 0..6 : \A c : c \in ColumnsOf(v) <=> c \in N(v) \/ (v < 3 /\ c = "hlr_number")
  BY DEF ColumnsOf
<1> HIDE DEF N
<1>5. \A v \in 0..6 : \A c : c \in ColumnsOf(v) <=>
         \/ v < 3 /\ c = "hlr_number"
         \/ 1 <= v /\ c = "last_lu_seen"
         \/ 2 <= v /\ c = "imei"
         \/ 3 <= v /\ c = "msc_number"
         \/ 4 <= v /\ c = "last_lu_seen_ps"
         \/ 5 <= v /\ c \in {"vlr_via_proxy", "sgsn_via_proxy"}
  BY <1>3, <1>4
<1> USE <1>5 DEF V2Columns, V3Columns, Column
<1>6. ColumnsOf(0) = {"hlr_number"}
  OBVIOUS
<1>7. ColumnsOf(1) = {"hlr_number", "last_lu_seen"}
  OBVIOUS
<1>8. ColumnsOf(2) = V2Columns
  OBVIOUS
<1>9. ColumnsOf(3) = V3Columns
  OBVIOUS
<1>10. ColumnsOf(4) = V3Columns \cup {"last_lu_seen_ps"}
  OBVIOUS
<1>11. ColumnsOf(5) = Column \ {"hlr_number"}
  OBVIOUS
<1>12. ColumnsOf(6) = Column \ {"hlr_number"}
  OBVIOUS
<1> QED
  BY <1>6, <1>7, <1>8, <1>9, <1>10, <1>11, <1>12

(* What a version promises of the columns, spelled out. *)
LEMMA SoundIs ==
    ASSUME NEW c \in Content, c.version > 0, c.subscriber # NoTable, c.others # NoTable
    PROVE  Sound(c) <=> /\ "last_lu_seen" \in c.subscriber.cols
                        /\ 2 <= c.version => "imei" \in c.subscriber.cols
                        /\ 3 <= c.version => "msc_number" \in c.subscriber.cols
                        /\ 4 <= c.version => "last_lu_seen_ps" \in c.subscriber.cols
                        /\ 5 <= c.version => {"vlr_via_proxy", "sgsn_via_proxy"} \subseteq c.subscriber.cols
<1>1. /\ NewColumns[1] = {"last_lu_seen"} /\ NewColumns[2] = {"imei"} /\ NewColumns[3] = {"msc_number"}
      /\ NewColumns[4] = {"last_lu_seen_ps"} /\ NewColumns[5] = {"vlr_via_proxy", "sgsn_via_proxy"}
  BY DEF NewColumns
<1>2. 1..CURRENT_SCHEMA_VERSION = {1, 2, 3, 4, 5}
  BY DEF CURRENT_SCHEMA_VERSION
<1>3. c.version \in Nat /\ 1 <= c.version
  BY DEF Content, CURRENT_SCHEMA_VERSION
<1>4. Sound(c) <=> \A u \in {1, 2, 3, 4, 5} : u <= c.version => NewColumns[u] \subseteq c.subscriber.cols
  BY <1>2 DEF Sound
<1> QED
  BY <1>1, <1>3, <1>4

(* The parts of a content. *)
LEMMA ContentParts ==
    ASSUME NEW c \in Content
    PROVE  /\ c.version \in 0..6
           /\ c.subscriber \in Table \cup {NoTable}
           /\ c.subscriber # NoTable => c.subscriber.cols \in SUBSET Column /\ c.subscriber.rows \in SUBSET Row
           /\ c.others # NoTable => c.others \in SUBSET Key
           /\ c.others \in {NoTable} \cup SUBSET Key
           /\ RowsOf(c) \in SUBSET Row /\ KeysOf(c) \in SUBSET Key
BY DEF Content, Table, RowsOf, KeysOf, CURRENT_SCHEMA_VERSION

(* Replacing a part of a content. *)
LEMMA ContentExcept ==
    ASSUME NEW c \in Content
    PROVE  /\ \A n \in 0..6 : [c EXCEPT !.version = n] \in Content
           /\ \A t \in Table \cup {NoTable} : [c EXCEPT !.subscriber = t] \in Content
           /\ \A k \in SUBSET Key : [c EXCEPT !.others = k] \in Content
           /\ \A x : /\ [c EXCEPT !.version = x].version = x
                     /\ [c EXCEPT !.version = x].subscriber = c.subscriber
                     /\ [c EXCEPT !.version = x].others = c.others
                     /\ [c EXCEPT !.subscriber = x].version = c.version
                     /\ [c EXCEPT !.subscriber = x].subscriber = x
                     /\ [c EXCEPT !.subscriber = x].others = c.others
                     /\ [c EXCEPT !.others = x].version = c.version
                     /\ [c EXCEPT !.others = x].subscriber = c.subscriber
                     /\ [c EXCEPT !.others = x].others = x
BY DEF Content, CURRENT_SCHEMA_VERSION

(* Contents with the same parts are the same. *)
LEMMA ContentEqual ==
    ASSUME NEW c \in Content, NEW d \in Content,
           c.version = d.version, c.subscriber = d.subscriber, c.others = d.others
    PROVE  c = d
BY DEF Content

(* The statements of version 3. *)
LEMMA TablesAre ==
    /\ [cols |-> V3Columns, rows |-> {}] \in Table
    /\ \A r \in SUBSET Row : [cols |-> V3Columns, rows |-> r] \in Table
    /\ NewTable \in Table /\ NewTable.rows = {} /\ NewTable.cols = Column \ {"hlr_number"}
    /\ NoTable \notin Table
BY NoTableAssumption DEF Table, V3Columns, Column, NewTable

-----------------------------------------------------------------------------
(* The statements of db_open(). *)

(* What a statement has to keep for the invariant to hold after it. *)
StatementKeeps ==
    /\ disk' \in Content /\ view' \in Content
    /\ backup' \in {NoTable} \cup SUBSET Row
    /\ inTx' \in BOOLEAN
    /\ RowsOf(disk') = RowsOf(disk) /\ KeysOf(disk') = KeysOf(disk)
    /\ Sound(disk')
    /\ Opening'

(* One statement, outside a transaction. *)
LEMMA RunsSettled ==
    ASSUME RunStatement, Settled, NEW st, NEW rest, Head(todo) = st, Tail(todo) = rest,
           st.op \notin {"begin", "backup"}
    PROVE  /\ Fits(st) /\ view' = Effect(st) /\ disk' = view' /\ Settled'
           /\ todo' = rest /\ inTx' = FALSE
           /\ UNCHANGED <<pc, version, allow, torn, failed, left, backup>>
<1>1. /\ Fits(st) /\ view' = Effect(st) /\ todo' = rest
      /\ UNCHANGED <<pc, version, allow, torn, failed, left, backup>>
  BY DEF RunStatement
<1>2. inTx' = FALSE
  <2>1. inTx' = IF st.op \in {"begin", "commit"} THEN st.op = "begin" ELSE inTx
    BY DEF RunStatement
  <2>2. st.op # "begin" /\ inTx = FALSE
    BY DEF Settled
  <2>3. CASE st.op \in {"begin", "commit"}
    BY <2>1, <2>2, <2>3
  <2>4. CASE st.op \notin {"begin", "commit"}
    <3>1. inTx' = inTx
      BY <2>1, <2>4, Zenon
    <3> QED
      BY <2>2, <3>1
  <2> QED
    BY <2>3, <2>4
<1>3. disk' = view'
  BY <1>2 DEF RunStatement
<1> QED
  BY <1>1, <1>2, <1>3 DEF Settled

(* A column is added. *)
LEMMA AlterRuns ==
    ASSUME RunStatement, Settled, disk \in Content, NEW col \in Column, NEW rest,
           Head(todo) = Stmt("alter", col), Tail(todo) = rest
    PROVE  /\ disk' \in Content /\ view' = disk' /\ Settled' /\ inTx' = FALSE /\ todo' = rest
           /\ disk.subscriber # NoTable /\ col \notin disk.subscriber.cols
           /\ disk'.version = disk.version /\ disk'.others = disk.others
           /\ disk'.subscriber # NoTable
           /\ disk'.subscriber.cols = disk.subscriber.cols \cup {col}
           /\ RowsOf(disk') = RowsOf(disk) /\ KeysOf(disk') = KeysOf(disk)
           /\ UNCHANGED <<pc, version, allow, torn, failed, left, backup>>
<1> DEFINE st == Stmt("alter", col)
           t == [disk.subscriber EXCEPT !.cols = @ \cup {col}]
<1>1. st.op = "alter" /\ st.arg = col
  BY DEF Stmt
<1> HIDE DEF st
<1>2. /\ Fits(st) /\ view' = Effect(st) /\ disk' = view' /\ Settled'
      /\ todo' = rest /\ inTx' = FALSE
      /\ UNCHANGED <<pc, version, allow, torn, failed, left, backup>>
  BY <1>1, RunsSettled DEF st
<1>3. view = disk
  BY DEF Settled
<1>4. disk.subscriber # NoTable /\ col \notin disk.subscriber.cols
  BY <1>1, <1>2, <1>3 DEF Fits
<1>5. disk' = [disk EXCEPT !.subscriber = t]
  BY <1>1, <1>2, <1>3 DEF Effect
<1>6. t \in Table /\ t.cols = disk.subscriber.cols \cup {col} /\ t.rows = disk.subscriber.rows
  <2>1. disk.subscriber \in Table
    BY <1>4, ContentParts
  <2> QED
    BY <2>1 DEF Table
<1> HIDE DEF t
<1>7. /\ disk' \in Content /\ disk'.version = disk.version /\ disk'.others = disk.others
      /\ disk'.subscriber = t
  BY <1>5, <1>6, ContentExcept
<1>8. disk'.subscriber # NoTable
  BY <1>6, <1>7, TablesAre
<1>9. RowsOf(disk') = RowsOf(disk) /\ KeysOf(disk') = KeysOf(disk)
  BY <1>4, <1>6, <1>7, <1>8 DEF RowsOf, KeysOf
<1> QED
  BY <1>2, <1>4, <1>6, <1>7, <1>8, <1>9

(* PRAGMA user_version, at the end of a list. *)
LEMMA VersionRuns ==
    ASSUME RunStatement, Settled, disk \in Content, NEW n \in 1..5,
           todo = <<Stmt("user_version", n)>>
    PROVE  /\ disk' \in Content /\ view' = disk' /\ Settled' /\ inTx' = FALSE /\ todo' = <<>>
           /\ disk'.version = n /\ disk'.others = disk.others /\ disk'.subscriber = disk.subscriber
           /\ RowsOf(disk') = RowsOf(disk) /\ KeysOf(disk') = KeysOf(disk)
           /\ UNCHANGED <<pc, version, allow, torn, failed, left, backup>>
<1> DEFINE st == Stmt("user_version", n)
<1>1. st.op = "user_version" /\ st.arg = n
  BY DEF Stmt
<1>2. Head(todo) = st /\ Tail(todo) = <<>>
  OBVIOUS
<1> HIDE DEF st
<1>3. /\ Fits(st) /\ view' = Effect(st) /\ disk' = view' /\ Settled'
      /\ todo' = <<>> /\ inTx' = FALSE
      /\ UNCHANGED <<pc, version, allow, torn, failed, left, backup>>
  BY <1>1, <1>2, RunsSettled
<1>4. disk' = [disk EXCEPT !.version = n]
  BY <1>1, <1>3 DEF Effect, Settled
<1>5. /\ disk' \in Content /\ disk'.version = n
      /\ disk'.others = disk.others /\ disk'.subscriber = disk.subscriber
  BY <1>4 DEF Content, CURRENT_SCHEMA_VERSION
<1> QED
  BY <1>3, <1>5 DEF RowsOf, KeysOf

(* A column of version v is added to a file of the version before. *)
LEMMA AlterKeeps ==
    ASSUME Types, Sound(disk), RunStatement, Settled, NEW v \in 1..5, version = v, disk.version = v - 1,
           NEW done, NEW col \in done, col \in Column, NEW rest,
           disk.subscriber # NoTable =>
              /\ done \ {col} \subseteq disk.subscriber.cols
              /\ torn = TRUE \/ disk.subscriber.cols = ColumnsOf(v - 1) \cup (done \ {col}),
           Head(todo) = Stmt("alter", col), Tail(todo) = rest,
           v = 1 => col = "last_lu_seen"
    PROVE  /\ Altered(v, done, rest)'
           /\ Opening' => StatementKeeps
<1>0. disk \in Content
  BY DEF Types
<1>1. /\ disk' \in Content /\ view' = disk' /\ inTx' = FALSE /\ Settled' /\ todo' = rest
      /\ disk.subscriber # NoTable /\ col \notin disk.subscriber.cols
      /\ disk'.version = disk.version /\ disk'.others = disk.others
      /\ disk'.subscriber # NoTable
      /\ disk'.subscriber.cols = disk.subscriber.cols \cup {col}
      /\ RowsOf(disk') = RowsOf(disk) /\ KeysOf(disk') = KeysOf(disk)
      /\ UNCHANGED <<backup, version, torn>>
  BY <1>0, AlterRuns
<1>2. Sound(disk')
  BY <1>1 DEF Sound
<1>3. backup' \in {NoTable} \cup SUBSET Row
  BY <1>1 DEF Types
<1>4. disk.others # NoTable
  BY <1>1 DEF Sound
<1>5. /\ done \subseteq disk'.subscriber.cols
      /\ torn' = TRUE \/ disk'.subscriber.cols = ColumnsOf(v - 1) \cup done
  BY <1>1
<1>6. Altered(v, done, rest)'
  BY <1>1, <1>4, <1>5 DEF Altered
<1> QED
  BY <1>1, <1>2, <1>3, <1>6 DEF StatementKeeps

(* The first statement of a version that adds columns. *)
LEMMA BegunAlter ==
    ASSUME Types, Sound(disk), RunStatement, NEW v \in {1, 2, 4, 5}, Begun(v),
           NEW col \in Column, NEW rest,
           Head(todo) = Stmt("alter", col), Tail(todo) = rest,
           v = 1 => col = "last_lu_seen"
    PROVE  /\ Altered(v, {col}, rest)'
           /\ Opening' => StatementKeeps
<1>1. Settled /\ version = v /\ disk.version = v - 1 /\ (torn = TRUE \/ Exact(disk))
  BY DEF Begun, AtRest
<1>2. v \in 1..5 /\ col \in {col}
  OBVIOUS
<1>3. disk.subscriber # NoTable =>
         /\ {col} \ {col} \subseteq disk.subscriber.cols
         /\ torn = TRUE \/ disk.subscriber.cols = ColumnsOf(v - 1) \cup ({col} \ {col})
  BY <1>1 DEF Exact
<1> QED
  BY <1>1, <1>2, <1>3, AlterKeeps, Zenon

LEMMA BegunAlters ==
    ASSUME Types, Sound(disk), RunStatement, NEW v \in {1, 2, 4, 5}, Begun(v)
    PROVE  StatementKeeps
<1>1. CASE v = 1
  <2>1. Head(todo) = Stmt("alter", "last_lu_seen") /\ Tail(todo) = <<Stmt("user_version", 1)>>
    BY <1>1 DEF Begun, db_upgrade_path, db_upgrade_v1
  <2>2. "last_lu_seen" \in Column /\ 1 \in {1, 2, 4, 5} /\ (1 = 1 => "last_lu_seen" = "last_lu_seen")
    BY DEF Column
  <2>3. Begun(1)
    BY <1>1
  <2>4. Altered(1, {"last_lu_seen"}, <<Stmt("user_version", 1)>>)' /\ (Opening' => StatementKeeps)
    BY <2>1, <2>2, <2>3, BegunAlter, Zenon
  <2> QED
    BY <2>4, Zenon DEF Opening, Altering
<1>2. CASE v = 2
  <2>1. Head(todo) = Stmt("alter", "imei") /\ Tail(todo) = <<Stmt("user_version", 2)>>
    BY <1>2 DEF Begun, db_upgrade_path, db_upgrade_v2
  <2>2. "imei" \in Column /\ 2 \in {1, 2, 4, 5} /\ (2 = 1 => "imei" = "last_lu_seen")
    BY DEF Column
  <2>3. Begun(2)
    BY <1>2
  <2>4. Altered(2, {"imei"}, <<Stmt("user_version", 2)>>)' /\ (Opening' => StatementKeeps)
    BY <2>1, <2>2, <2>3, BegunAlter, Zenon
  <2> QED
    BY <2>4, Zenon DEF Opening, Altering
<1>3. CASE v = 4
  <2>1. Head(todo) = Stmt("alter", "last_lu_seen_ps") /\ Tail(todo) = <<Stmt("user_version", 4)>>
    BY <1>3 DEF Begun, db_upgrade_path, db_upgrade_v4
  <2>2. "last_lu_seen_ps" \in Column /\ 4 \in {1, 2, 4, 5} /\ (4 = 1 => "last_lu_seen_ps" = "last_lu_seen")
    BY DEF Column
  <2>3. Begun(4)
    BY <1>3
  <2>4. Altered(4, {"last_lu_seen_ps"}, <<Stmt("user_version", 4)>>)' /\ (Opening' => StatementKeeps)
    BY <2>1, <2>2, <2>3, BegunAlter, Zenon
  <2> QED
    BY <2>4, Zenon DEF Opening, Altering
<1>4. CASE v = 5
  <2>1. Head(todo) = Stmt("alter", "vlr_via_proxy") /\ Tail(todo) = <<Stmt("alter", "sgsn_via_proxy"), Stmt("user_version", 5)>>
    BY <1>4 DEF Begun, db_upgrade_path, db_upgrade_v5
  <2>2. "vlr_via_proxy" \in Column /\ 5 \in {1, 2, 4, 5} /\ (5 = 1 => "vlr_via_proxy" = "last_lu_seen")
    BY DEF Column
  <2>3. Begun(5)
    BY <1>4
  <2>4. Altered(5, {"vlr_via_proxy"}, <<Stmt("alter", "sgsn_via_proxy"), Stmt("user_version", 5)>>)' /\ (Opening' => StatementKeeps)
    BY <2>1, <2>2, <2>3, BegunAlter, Zenon
  <2> QED
    BY <2>4, Zenon DEF Opening, Altering
<1> QED
  BY <1>1, <1>2, <1>3, <1>4

(* user_version after the columns of version v. *)
LEMMA AlteredVersion ==
    ASSUME Types, Sound(disk), RunStatement, NEW v \in {1, 2, 4, 5}, NEW done,
           Altered(v, done, <<Stmt("user_version", v)>>),
           /\ v = 1 => done = {"last_lu_seen"}
           /\ v = 2 => done = {"imei"}
           /\ v = 4 => done = {"last_lu_seen_ps"}
           /\ v = 5 => done = {"vlr_via_proxy", "sgsn_via_proxy"}
    PROVE  StatementKeeps
<1>1. /\ disk \in Content /\ Settled /\ version = v /\ disk.version = v - 1
      /\ disk.subscriber # NoTable /\ disk.others # NoTable
      /\ done \subseteq disk.subscriber.cols
      /\ torn = TRUE \/ disk.subscriber.cols = ColumnsOf(v - 1) \cup done
      /\ todo = <<Stmt("user_version", v)>>
  BY DEF Altered, Types
<1>2. /\ disk' \in Content /\ view' = disk' /\ Settled' /\ inTx' = FALSE /\ todo' = <<>>
      /\ disk'.version = v /\ disk'.others = disk.others /\ disk'.subscriber = disk.subscriber
      /\ RowsOf(disk') = RowsOf(disk) /\ KeysOf(disk') = KeysOf(disk)
      /\ UNCHANGED <<version, torn, backup>>
  <2>1. v \in 1..5
    OBVIOUS
  <2>2. UNCHANGED <<pc, version, allow, torn, failed, left, backup>> => UNCHANGED <<version, torn, backup>>
    OBVIOUS
  <2> QED
    BY <1>1, <2>1, <2>2, VersionRuns, Zenon
<1>3. Sound(disk')
  <2>1. v > 1 => /\ "last_lu_seen" \in disk.subscriber.cols
                 /\ 2 <= v - 1 => "imei" \in disk.subscriber.cols
                 /\ 3 <= v - 1 => "msc_number" \in disk.subscriber.cols
                 /\ 4 <= v - 1 => "last_lu_seen_ps" \in disk.subscriber.cols
    BY <1>1, SoundIs
  <2>2. v = 1 => "last_lu_seen" \in disk.subscriber.cols
    BY <1>1
  <2>3. v = 2 => "imei" \in disk.subscriber.cols
    BY <1>1
  <2>4. v = 4 => "last_lu_seen_ps" \in disk.subscriber.cols
    BY <1>1
  <2>5. v = 5 => {"vlr_via_proxy", "sgsn_via_proxy"} \subseteq disk.subscriber.cols
    BY <1>1
  <2> QED
    BY <1>1, <1>2, <2>1, <2>2, <2>3, <2>4, <2>5, SoundIs
<1>4. ColumnsOf(v) = ColumnsOf(v - 1) \cup done
  BY ColumnsAre DEF V2Columns, V3Columns, Column
<1>5. torn' = TRUE \/ Exact(disk')
  BY <1>1, <1>2, <1>4 DEF Exact
<1>6. Resting'
  BY <1>1, <1>2, <1>5 DEF Resting, AtRest
<1>7. backup' \in {NoTable} \cup SUBSET Row
  BY <1>2 DEF Types
<1> QED
  BY <1>2, <1>3, <1>6, <1>7 DEF StatementKeeps, Opening

(* Any statement after columns were added. *)
LEMMA AlteringKeeps ==
    ASSUME Types, Sound(disk), RunStatement, Altering
    PROVE  StatementKeeps
<1>1. CASE Altered(1, {"last_lu_seen"}, <<Stmt("user_version", 1)>>)
  BY <1>1, AlteredVersion
<1>2. CASE Altered(2, {"imei"}, <<Stmt("user_version", 2)>>)
  BY <1>2, AlteredVersion
<1>3. CASE Altered(4, {"last_lu_seen_ps"}, <<Stmt("user_version", 4)>>)
  BY <1>3, AlteredVersion
<1>4. CASE Altered(5, {"vlr_via_proxy"}, <<Stmt("alter", "sgsn_via_proxy"), Stmt("user_version", 5)>>)
  <2>1. Head(todo) = Stmt("alter", "sgsn_via_proxy") /\ Tail(todo) = <<Stmt("user_version", 5)>>
    BY <1>4 DEF Altered
  <2>2. /\ Settled /\ version = 5 /\ disk.version = 5 - 1
        /\ {"vlr_via_proxy"} \subseteq disk.subscriber.cols
        /\ torn = TRUE \/ disk.subscriber.cols = ColumnsOf(5 - 1) \cup {"vlr_via_proxy"}
    BY <1>4 DEF Altered
  <2>3. {"vlr_via_proxy"} = {"vlr_via_proxy", "sgsn_via_proxy"} \ {"sgsn_via_proxy"}
    OBVIOUS
  <2>4. /\ Altered(5, {"vlr_via_proxy", "sgsn_via_proxy"}, <<Stmt("user_version", 5)>>)'
        /\ Opening' => StatementKeeps
    <3>1. /\ 5 \in 1..5 /\ "sgsn_via_proxy" \in Column
          /\ "sgsn_via_proxy" \in {"vlr_via_proxy", "sgsn_via_proxy"}
          /\ 5 = 1 => "sgsn_via_proxy" = "last_lu_seen"
      BY DEF Column
    <3> QED
      BY <2>1, <2>2, <2>3, <3>1, AlterKeeps, Zenon
  <2> QED
    BY <2>4, Zenon DEF Opening, Altering
<1>5. CASE Altered(5, {"vlr_via_proxy", "sgsn_via_proxy"}, <<Stmt("user_version", 5)>>)
  BY <1>5, AlteredVersion
<1> QED
  BY <1>1, <1>2, <1>3, <1>4, <1>5 DEF Altering

(* One statement that is in the transaction of version 3, or begins it. *)
LEMMA RunsInTx ==
    ASSUME RunStatement, NEW st, NEW rest, Head(todo) = st, Tail(todo) = rest,
           st.op = "begin" \/ (inTx = TRUE /\ st.op # "commit")
    PROVE  /\ Fits(st) /\ view' = Effect(st) /\ disk' = disk /\ inTx' = TRUE /\ todo' = rest
           /\ backup' = IF st.op = "backup" THEN view.subscriber.rows ELSE backup
           /\ UNCHANGED <<pc, version, allow, torn, failed, left>>
<1>1. /\ Fits(st) /\ view' = Effect(st) /\ todo' = rest
      /\ backup' = IF st.op = "backup" THEN view.subscriber.rows ELSE backup
      /\ UNCHANGED <<pc, version, allow, torn, failed, left>>
  BY DEF RunStatement
<1>2. inTx' = TRUE
  <2>1. inTx' = IF st.op \in {"begin", "commit"} THEN st.op = "begin" ELSE inTx
    BY DEF RunStatement
  <2>2. CASE st.op = "begin"
    BY <2>1, <2>2
  <2>3. CASE st.op # "begin"
    <3>1. inTx = TRUE /\ st.op \notin {"begin", "commit"}
      BY <2>3
    <3>2. inTx' = inTx
      BY <2>1, <3>1, Zenon
    <3> QED
      BY <3>1, <3>2
  <2> QED
    BY <2>2, <2>3
<1>3. disk' = disk
  BY <1>2 DEF RunStatement
<1> QED
  BY <1>1, <1>2, <1>3

(* What the transaction has done is not in the file. *)
LEMMA TxKeeps ==
    ASSUME Sound(disk), disk \in Content, disk' = disk, inTx' = TRUE, view' \in Content,
           backup' \in {NoTable} \cup SUBSET Row, Transacting'
    PROVE  StatementKeeps
<1>1. RowsOf(disk') = RowsOf(disk) /\ KeysOf(disk') = KeysOf(disk) /\ Sound(disk') /\ disk' \in Content
  BY Zenon
<1>2. inTx' \in BOOLEAN
  OBVIOUS
<1>3. Opening'
  BY Zenon DEF Opening
<1> QED
  BY <1>1, <1>2, <1>3, Zenon DEF StatementKeeps

(* BEGIN. *)
LEMMA BeginKeeps ==
    ASSUME Types, Sound(disk), RunStatement, Begun(3)
    PROVE  StatementKeeps
<1> DEFINE st == Stmt("begin", {})
<1>1. st.op = "begin"
  BY DEF Stmt
<1>2. Head(todo) = st /\ Tail(todo) = FromBackup
  BY DEF Begun, db_upgrade_path, db_upgrade_v3, FromBackup
<1> HIDE DEF st
<1>3. /\ view' = Effect(st) /\ disk' = disk /\ inTx' = TRUE /\ todo' = FromBackup /\ backup' = backup
      /\ UNCHANGED <<version, torn>>
  <2>1. st.op # "backup"
    BY <1>1
  <2> QED
    BY <1>1, <1>2, <2>1, RunsInTx
<1>4. /\ disk \in Content /\ view = disk /\ version = 3 /\ disk.version = 2 /\ (torn = TRUE \/ Exact(disk))
      /\ backup \in {NoTable} \cup SUBSET Row
  BY DEF Begun, AtRest, Settled, Types
<1>5. view' = disk
  BY <1>1, <1>3, <1>4 DEF Effect
<1>6. disk = [disk EXCEPT !.subscriber = disk.subscriber]
  BY <1>4 DEF Content
<1>7. InTransaction(disk.subscriber, FromBackup)'
  BY <1>3, <1>4, <1>5, <1>6 DEF InTransaction, FromBackup, Exact
<1>8. Transacting'
  BY <1>7, Zenon DEF Transacting
<1>9. view' \in Content /\ backup' \in {NoTable} \cup SUBSET Row
  BY <1>3, <1>4, <1>5
<1> QED
  BY <1>3, <1>4, <1>8, <1>9, TxKeeps, Zenon

(* A statement in the transaction of version 3 that replaces the table. *)
LEMMA TxReplaces ==
    ASSUME Types, RunStatement, NEW table, NEW new \in Table \cup {NoTable},
           InTransaction(table, todo),
           Head(todo).op \notin {"begin", "commit", "backup"},
           Effect(Head(todo)) = [view EXCEPT !.subscriber = new]
    PROVE  /\ disk' = disk /\ inTx' = TRUE /\ view' \in Content
           /\ backup' = backup /\ backup' \in {NoTable} \cup SUBSET Row
           /\ todo' = Tail(todo) /\ version' = 3 /\ (torn' = TRUE \/ Exact(disk')) /\ disk'.version = 2
           /\ view' = [disk' EXCEPT !.subscriber = new]
<1> DEFINE st == Head(todo)
           rest == Tail(todo)
<1>1. /\ version = 3 /\ inTx = TRUE /\ (torn = TRUE \/ Exact(disk)) /\ disk.version = 2
      /\ view = [disk EXCEPT !.subscriber = table]
      /\ disk \in Content /\ view \in Content /\ backup \in {NoTable} \cup SUBSET Row
  BY DEF InTransaction, Types
<1>2. Head(todo) = st /\ Tail(todo) = rest
  OBVIOUS
<1>3. st.op = "begin" \/ (inTx = TRUE /\ st.op # "commit")
  BY <1>1
<1> HIDE DEF st, rest
<1>4. /\ Fits(st) /\ view' = Effect(st) /\ disk' = disk /\ inTx' = TRUE /\ todo' = rest
      /\ backup' = (IF st.op = "backup" THEN view.subscriber.rows ELSE backup)
      /\ UNCHANGED <<pc, version, allow, torn, failed, left>>
  BY <1>2, <1>3, RunsInTx, Zenon
<1>5. backup' = backup /\ version' = version /\ torn' = torn
  BY <1>2, <1>4
<1>6. view' = [view EXCEPT !.subscriber = new]
  BY <1>2, <1>4
<1>7. view' \in Content
  BY <1>1, <1>6 DEF Content
<1>8. view' = [disk EXCEPT !.subscriber = new]
  BY <1>1, <1>6 DEF Content
<1>9. torn' = TRUE \/ Exact(disk')
  BY <1>1, <1>4, <1>5, Zenon
<1>10. /\ version' = 3 /\ disk'.version = 2 /\ view' = [disk' EXCEPT !.subscriber = new]
       /\ backup' \in {NoTable} \cup SUBSET Row
  BY <1>1, <1>4, <1>5, <1>8
<1> QED
  BY <1>2, <1>4, <1>5, <1>7, <1>9, <1>10, Zenon

(* The statements of version 3 up to the commit. *)
LEMMA BackupKeeps ==
    ASSUME Types, Sound(disk), RunStatement, InTransaction(disk.subscriber, FromBackup)
    PROVE  StatementKeeps
<1> DEFINE st == Stmt("backup", V2Columns)
<1>1. st.op = "backup" /\ st.arg = V2Columns
  BY DEF Stmt
<1>2. /\ todo = FromBackup /\ version = 3 /\ inTx = TRUE /\ (torn = TRUE \/ Exact(disk))
      /\ disk.version = 2
      /\ view = [disk EXCEPT !.subscriber = disk.subscriber]
      /\ disk \in Content /\ view \in Content
  BY DEF InTransaction, Types
<1>3. Head(todo) = st /\ Tail(todo) = FromDrop
  BY <1>2 DEF FromBackup, FromDrop
<1> HIDE DEF st
<1>4. st.op = "begin" \/ (inTx = TRUE /\ st.op # "commit")
  BY <1>1, <1>2
<1>5. /\ Fits(st) /\ view' = Effect(st) /\ disk' = disk /\ inTx' = TRUE /\ todo' = FromDrop
      /\ backup' = (IF st.op = "backup" THEN view.subscriber.rows ELSE backup)
      /\ UNCHANGED <<pc, version, allow, torn, failed, left>>
  BY <1>3, <1>4, RunsInTx, Zenon
<1>6. view.subscriber # NoTable /\ view' = view /\ backup' = view.subscriber.rows
  BY <1>1, <1>5 DEF Fits, Effect
<1>7. view.subscriber = disk.subscriber
  BY <1>2, ContentExcept
<1>8. backup' = RowsOf(disk) /\ backup' \in SUBSET Row
  BY <1>2, <1>6, <1>7, ContentParts DEF RowsOf
<1>9. version' = version /\ torn' = torn
  BY <1>5
<1>10. InTransaction(disk.subscriber, FromDrop)'
  BY <1>2, <1>5, <1>6, <1>9, Zenon DEF InTransaction, FromDrop
<1>11. Transacting'
  <2>1. backup' = RowsOf(disk')
    BY <1>5, <1>8, Zenon
  <2> QED
    BY <1>10, <2>1, Zenon DEF Transacting
<1>12. view' \in Content /\ backup' \in {NoTable} \cup SUBSET Row
  BY <1>2, <1>6, <1>8
<1> QED
  BY <1>2, <1>5, <1>11, <1>12, TxKeeps, Zenon

LEMMA DropKeeps ==
    ASSUME Types, Sound(disk), RunStatement, backup = RowsOf(disk), InTransaction(disk.subscriber, FromDrop)
    PROVE  StatementKeeps
<1> DEFINE st == Stmt("drop", {})
<1>1. st.op = "drop" /\ st.arg = {}
  BY DEF Stmt
<1>2. Head(todo) = st /\ Tail(todo) = FromCreate /\ InTransaction(disk.subscriber, todo)
  BY DEF FromDrop, FromCreate, InTransaction
<1> HIDE DEF st
<1>3. st.op \notin {"begin", "commit", "backup"}
  BY <1>1
<1>4. Effect(st) = [view EXCEPT !.subscriber = NoTable] /\ NoTable \in Table \cup {NoTable}
  BY <1>1 DEF Effect
<1>5. /\ disk' = disk /\ inTx' = TRUE /\ view' \in Content
      /\ backup' = backup /\ backup' \in {NoTable} \cup SUBSET Row
      /\ todo' = FromCreate /\ version' = 3 /\ (torn' = TRUE \/ Exact(disk')) /\ disk'.version = 2
      /\ view' = [disk' EXCEPT !.subscriber = NoTable]
  BY <1>2, <1>3, <1>4, TxReplaces, Zenon
<1>6. InTransaction(NoTable, FromCreate)'
  BY <1>5, Zenon DEF InTransaction, FromCreate
<1>7. Transacting'
  <2>1. backup' = RowsOf(disk')
    BY <1>5, Zenon
  <2> QED
    BY <1>6, <2>1, Zenon DEF Transacting
<1> QED
  BY <1>5, <1>7, TxKeeps, Zenon DEF Types

LEMMA CreateKeeps ==
    ASSUME Types, Sound(disk), RunStatement, backup = RowsOf(disk), InTransaction(NoTable, FromCreate)
    PROVE  StatementKeeps
<1> DEFINE st == Stmt("create", V3Columns)
           new == [cols |-> V3Columns, rows |-> {}]
<1>1. st.op = "create" /\ st.arg = V3Columns
  BY DEF Stmt
<1>2. Head(todo) = st /\ Tail(todo) = FromRestore /\ InTransaction(NoTable, todo)
  BY DEF FromCreate, FromRestore, InTransaction
<1> HIDE DEF st
<1>3. st.op \notin {"begin", "commit", "backup"}
  BY <1>1
<1>4. Effect(st) = [view EXCEPT !.subscriber = new] /\ new \in Table \cup {NoTable}
  BY <1>1, TablesAre DEF Effect
<1>5. /\ disk' = disk /\ inTx' = TRUE /\ view' \in Content
      /\ backup' = backup /\ backup' \in {NoTable} \cup SUBSET Row
      /\ todo' = FromRestore /\ version' = 3 /\ (torn' = TRUE \/ Exact(disk')) /\ disk'.version = 2
      /\ view' = [disk' EXCEPT !.subscriber = new]
  <2> HIDE DEF new
  <2> QED
    BY <1>2, <1>3, <1>4, TxReplaces, Zenon
<1>6. InTransaction([cols |-> V3Columns, rows |-> {}], FromRestore)'
  BY <1>5, Zenon DEF InTransaction, FromRestore, V3Columns
<1>7. Transacting'
  <2>1. backup' = RowsOf(disk')
    BY <1>5, Zenon
  <2> QED
    BY <1>6, <2>1, Zenon DEF Transacting
<1> QED
  BY <1>5, <1>7, TxKeeps, Zenon DEF Types

LEMMA RestoreKeeps ==
    ASSUME Types, Sound(disk), RunStatement, backup = RowsOf(disk),
           InTransaction([cols |-> V3Columns, rows |-> {}], FromRestore)
    PROVE  StatementKeeps
<1> DEFINE st == Stmt("restore", {})
           old == [cols |-> V3Columns, rows |-> {}]
           new == [cols |-> V3Columns, rows |-> backup]
<1>1. st.op = "restore" /\ st.arg = {}
  BY DEF Stmt
<1>2. Head(todo) = st /\ Tail(todo) = FromCommit /\ InTransaction(old, todo)
  BY DEF FromRestore, FromCommit, InTransaction
<1> HIDE DEF st
<1>3. st.op \notin {"begin", "commit", "backup"}
  BY <1>1
<1>4. Effect(st) = [view EXCEPT !.subscriber = new] /\ new \in Table \cup {NoTable}
  <2>1. disk \in Content /\ view \in Content /\ view = [disk EXCEPT !.subscriber = old]
    BY DEF InTransaction, Types
  <2>2. view.subscriber = old
    BY <2>1, ContentExcept
  <2>3. [view.subscriber EXCEPT !.rows = backup] = new
    BY <2>2
  <2>4. Effect(st) = [view EXCEPT !.subscriber = [view.subscriber EXCEPT !.rows = backup]]
    BY <1>1 DEF Effect
  <2>5. backup \in SUBSET Row
    BY <2>1, ContentParts
  <2> QED
    BY <2>3, <2>4, <2>5, TablesAre
<1>5. /\ disk' = disk /\ inTx' = TRUE /\ view' \in Content
      /\ backup' = backup /\ backup' \in {NoTable} \cup SUBSET Row
      /\ todo' = FromCommit /\ version' = 3 /\ (torn' = TRUE \/ Exact(disk')) /\ disk'.version = 2
      /\ view' = [disk' EXCEPT !.subscriber = new]
  <2> HIDE DEF new
  <2> QED
    BY <1>2, <1>3, <1>4, TxReplaces, Zenon
<1>6. InTransaction([cols |-> V3Columns, rows |-> backup], FromCommit)'
  BY <1>5, Zenon DEF InTransaction, FromCommit, V3Columns
<1>7. Transacting'
  <2>1. backup' = RowsOf(disk')
    BY <1>5, Zenon
  <2> QED
    BY <1>6, <2>1, Zenon DEF Transacting
<1> QED
  BY <1>5, <1>7, TxKeeps, Zenon DEF Types

(* COMMIT: what the connection saw is now in the file, all rows included. *)
LEMMA CommitKeeps ==
    ASSUME Types, Sound(disk), RunStatement, backup = RowsOf(disk),
           InTransaction([cols |-> V3Columns, rows |-> backup], FromCommit)
    PROVE  StatementKeeps
<1> DEFINE st == Stmt("commit", {})
           new == [cols |-> V3Columns, rows |-> backup]
<1>1. st.op = "commit"
  BY DEF Stmt
<1>2. Head(todo) = st /\ Tail(todo) = <<Stmt("user_version", 3)>>
  BY DEF InTransaction, FromCommit
<1>3. /\ version = 3 /\ disk.version = 2 /\ view = [disk EXCEPT !.subscriber = new]
      /\ disk \in Content /\ view \in Content /\ backup \in {NoTable} \cup SUBSET Row
  BY DEF InTransaction, Types
<1> HIDE DEF st
<1>4. /\ view' = Effect(st) /\ inTx' = (st.op = "begin") /\ disk' = (IF inTx' THEN disk ELSE view')
      /\ todo' = <<Stmt("user_version", 3)>> /\ backup' = backup /\ version' = version
  BY <1>1, <1>2 DEF RunStatement
<1>5. inTx' = FALSE
  BY <1>1, <1>4
<1>6. view' = view /\ disk' = view
  BY <1>1, <1>4, <1>5 DEF Effect
<1>7. new \in Table /\ new.rows = RowsOf(disk) /\ new.cols = V3Columns /\ new # NoTable
  BY <1>3, ContentParts, TablesAre
<1> HIDE DEF new
<1>8. disk'.version = 2 /\ disk'.subscriber = new /\ disk'.others = disk.others
  BY <1>3, <1>6, ContentExcept
<1>9. RowsOf(disk') = RowsOf(disk) /\ KeysOf(disk') = KeysOf(disk)
  BY <1>7, <1>8 DEF RowsOf, KeysOf
<1>10. disk' \in Content /\ view' \in Content
  BY <1>3, <1>6
<1>11. disk'.others # NoTable
  BY <1>3, <1>8 DEF Sound
<1>12. Sound(disk')
  BY <1>7, <1>8, <1>10, <1>11, SoundIs DEF V3Columns
<1>13. Committed'
  BY <1>3, <1>4, <1>5, <1>6, <1>7, <1>8 DEF Committed, Settled, V3Columns
<1>14. backup' \in {NoTable} \cup SUBSET Row /\ inTx' \in BOOLEAN
  BY <1>3, <1>4, <1>5
<1>15. Opening'
  BY <1>13, Zenon DEF Opening
<1> QED
  BY <1>9, <1>10, <1>12, <1>14, <1>15, Zenon DEF StatementKeeps

LEMMA TransactingKeeps ==
    ASSUME Types, Sound(disk), RunStatement, Transacting
    PROVE  StatementKeeps
BY BackupKeeps, DropKeeps, CreateKeeps, RestoreKeeps, CommitKeeps, Zenon DEF Transacting

(* A statement outside a transaction, with the version as the last one. *)
LEMMA VersionKeeps ==
    ASSUME Types, RunStatement, Settled, NEW n \in 1..5, todo = <<Stmt("user_version", n)>>, version = n,
           disk.subscriber # NoTable, disk.others # NoTable, disk.subscriber.cols = ColumnsOf(n)
    PROVE  StatementKeeps
<1>1. disk \in Content /\ backup \in {NoTable} \cup SUBSET Row
  BY DEF Types
<1>2. /\ disk' \in Content /\ view' = disk' /\ Settled' /\ inTx' = FALSE /\ todo' = <<>>
      /\ disk'.version = n /\ disk'.others = disk.others /\ disk'.subscriber = disk.subscriber
      /\ RowsOf(disk') = RowsOf(disk) /\ KeysOf(disk') = KeysOf(disk)
      /\ UNCHANGED <<pc, version, allow, torn, failed, left, backup>>
  BY <1>1, VersionRuns, Zenon
<1>3. Exact(disk')
  BY <1>2 DEF Exact
<1>4. Sound(disk')
  <2>1. /\ "last_lu_seen" \in ColumnsOf(n)
        /\ 2 <= n => "imei" \in ColumnsOf(n)
        /\ 3 <= n => "msc_number" \in ColumnsOf(n)
        /\ 4 <= n => "last_lu_seen_ps" \in ColumnsOf(n)
        /\ 5 <= n => {"vlr_via_proxy", "sgsn_via_proxy"} \subseteq ColumnsOf(n)
    BY ColumnsAre DEF V2Columns, V3Columns, Column
  <2> QED
    BY <1>2, <2>1, SoundIs
<1>5. Resting'
  BY <1>2, <1>3 DEF Resting, AtRest
<1>6. backup' \in {NoTable} \cup SUBSET Row /\ inTx' \in BOOLEAN
  BY <1>1, <1>2
<1>7. Opening'
  BY <1>5, Zenon DEF Opening
<1> QED
  BY <1>2, <1>4, <1>6, <1>7, Zenon DEF StatementKeeps

LEMMA CommittedKeeps ==
    ASSUME Types, Sound(disk), RunStatement, Committed
    PROVE  StatementKeeps
<1>1. /\ Settled /\ 3 \in 1..5 /\ todo = <<Stmt("user_version", 3)>> /\ version = 3
      /\ disk.subscriber # NoTable
  BY DEF Committed
<1>2. disk.others # NoTable /\ disk.subscriber.cols = ColumnsOf(3)
  BY ColumnsAre DEF Committed, Sound
<1> QED
  BY <1>1, <1>2, VersionKeeps, Zenon

(* The bootstrap. *)
LEMMA BootstrapKeeps ==
    ASSUME Types, Sound(disk), RunStatement, Bootstrapping
    PROVE  StatementKeeps
<1>0. /\ version = 5 /\ Settled /\ disk.version = 0 /\ view = disk /\ disk \in Content
      /\ backup \in {NoTable} \cup SUBSET Row
  BY DEF Bootstrapping, CURRENT_SCHEMA_VERSION, Settled, Types
<1>1. CASE todo = stmt_bootstrap_sql /\ AtRest /\ disk.subscriber = NoTable
  <2> DEFINE st == Stmt("create", Column \ {"hlr_number"})
             rest == <<Stmt("create_others", {}), Stmt("user_version", CURRENT_SCHEMA_VERSION)>>
  <2>1. st.op = "create" /\ st.arg = Column \ {"hlr_number"} /\ st.op \notin {"begin", "backup"}
    BY DEF Stmt
  <2>2. Head(todo) = st /\ Tail(todo) = rest
    BY <1>1 DEF stmt_bootstrap_sql
  <2> HIDE DEF st, rest
  <2>3. /\ Fits(st) /\ view' = Effect(st) /\ disk' = view' /\ Settled'
        /\ todo' = rest /\ inTx' = FALSE
        /\ UNCHANGED <<pc, version, allow, torn, failed, left, backup>>
    BY <1>0, <2>1, <2>2, RunsSettled, Zenon
  <2>4. disk' = [disk EXCEPT !.subscriber = NewTable]
    BY <1>0, <2>1, <2>3 DEF Effect, NewTable
  <2>5. /\ disk' \in Content /\ disk'.subscriber = NewTable /\ disk'.others = disk.others
        /\ disk'.version = 0 /\ NewTable.rows = {} /\ NewTable # NoTable
        /\ "last_lu_seen" \in NewTable.cols
    <3>1. NewTable.rows = {} /\ NewTable # NoTable /\ NewTable \in Table /\ "last_lu_seen" \in NewTable.cols
      BY TablesAre DEF Column
    <3> QED
      BY <1>0, <2>4, <3>1, ContentExcept
  <2>6. RowsOf(disk') = RowsOf(disk) /\ KeysOf(disk') = KeysOf(disk)
    BY <1>1, <2>5 DEF RowsOf, KeysOf
  <2>7. Sound(disk')
    BY <2>5 DEF Sound
  <2>8. torn' = TRUE \/ disk'.others = NoTable
    BY <1>1, <2>3, <2>5 DEF AtRest, Exact
  <2>9. version' = CURRENT_SCHEMA_VERSION
    BY <1>0, <2>3 DEF CURRENT_SCHEMA_VERSION
  <2>10. Bootstrapping'
    BY <2>3, <2>5, <2>8, <2>9, Zenon DEF Bootstrapping, rest, CURRENT_SCHEMA_VERSION, NewTable, Column
  <2>11. Opening'
    BY <2>10, Zenon DEF Opening
  <2>12. view' \in Content /\ backup' \in {NoTable} \cup SUBSET Row /\ inTx' \in BOOLEAN
    BY <1>0, <2>3, <2>5
  <2> QED
    BY <2>5, <2>6, <2>7, <2>11, <2>12, Zenon DEF StatementKeeps
<1>2. CASE /\ todo = <<Stmt("create_others", {}), Stmt("user_version", CURRENT_SCHEMA_VERSION)>>
           /\ disk.subscriber = NewTable /\ (torn = TRUE \/ disk.others = NoTable)
  <2> DEFINE st == Stmt("create_others", {})
             rest == <<Stmt("user_version", CURRENT_SCHEMA_VERSION)>>
  <2>1. st.op = "create_others" /\ st.op \notin {"begin", "backup"}
    BY DEF Stmt
  <2>2. Head(todo) = st /\ Tail(todo) = rest
    BY <1>2
  <2> HIDE DEF st, rest
  <2>3. /\ Fits(st) /\ view' = Effect(st) /\ disk' = view' /\ Settled'
        /\ todo' = rest /\ inTx' = FALSE
        /\ UNCHANGED <<pc, version, allow, torn, failed, left, backup>>
    BY <1>0, <2>1, <2>2, RunsSettled, Zenon
  <2>4. disk' = [disk EXCEPT !.others = {}] /\ disk.others = NoTable
    BY <1>0, <2>1, <2>3 DEF Effect, Fits
  <2>5. /\ disk' \in Content /\ disk'.subscriber = NewTable /\ disk'.others = {}
        /\ disk'.version = 0 /\ {} # NoTable
    BY <1>0, <1>2, <2>4, ContentExcept, NoTableAssumption
  <2>6. RowsOf(disk') = RowsOf(disk) /\ KeysOf(disk') = KeysOf(disk)
    BY <1>2, <2>4, <2>5 DEF RowsOf, KeysOf
  <2>7. Sound(disk')
    BY <2>5 DEF Sound
  <2>8. disk'.others # NoTable
    BY <2>5
  <2>9. version' = CURRENT_SCHEMA_VERSION
    BY <1>0, <2>3 DEF CURRENT_SCHEMA_VERSION
  <2>10. Bootstrapping'
    BY <2>3, <2>5, <2>8, <2>9, Zenon DEF Bootstrapping, rest, CURRENT_SCHEMA_VERSION, NewTable, Column
  <2>11. Opening'
    BY <2>10, Zenon DEF Opening
  <2>12. view' \in Content /\ backup' \in {NoTable} \cup SUBSET Row /\ inTx' \in BOOLEAN
    BY <1>0, <2>3, <2>5
  <2> QED
    BY <2>5, <2>6, <2>7, <2>11, <2>12, Zenon DEF StatementKeeps
<1>3. CASE /\ todo = <<Stmt("user_version", CURRENT_SCHEMA_VERSION)>>
           /\ disk.subscriber = NewTable /\ disk.others # NoTable
  <2>1. todo = <<Stmt("user_version", 5)>> /\ 5 \in 1..5
    BY <1>3 DEF CURRENT_SCHEMA_VERSION
  <2>2. disk.subscriber # NoTable /\ disk.others # NoTable /\ disk.subscriber.cols = ColumnsOf(5)
    BY <1>3, TablesAre, ColumnsAre
  <2> QED
    BY <1>0, <2>1, <2>2, VersionKeeps, Zenon
<1> QED
  BY <1>1, <1>2, <1>3, Zenon DEF Bootstrapping

(* Any statement of db_open(). *)
LEMMA RunKeeps ==
    ASSUME Types, Sound(disk), Opening, RunStatement
    PROVE  StatementKeeps
<1>1. CASE Resting
  BY <1>1 DEF Resting, RunStatement
<1>2. ASSUME NEW v \in 1..CURRENT_SCHEMA_VERSION, Begun(v)
      PROVE  StatementKeeps
  <2>1. v \in {1, 2, 4, 5} \/ v = 3
    BY DEF CURRENT_SCHEMA_VERSION
  <2>2. CASE v = 3
    BY <1>2, <2>2, BeginKeeps
  <2>3. CASE v \in {1, 2, 4, 5}
    BY <1>2, <2>3, BegunAlters, Zenon
  <2> QED
    BY <2>1, <2>2, <2>3
<1> QED
  BY <1>1, <1>2, AlteringKeeps, TransactingKeeps, CommittedKeeps, BootstrapKeeps, Zenon DEF Opening

-----------------------------------------------------------------------------
(* The other steps of an opening. *)

(* What follows for keys and subscribers when neither is touched. *)
LEMMA SameContent ==
    ASSUME IInv, RowsOf(disk') = RowsOf(disk), KeysOf(disk') = KeysOf(disk), left \subseteq left',
           pc # "hlr" \/ todo = <<>>
    PROVE  /\ UniqueRows(RowsOf(disk')) /\ UniqueKeys(KeysOf(disk'))
           /\ KeysFollow' /\ Orphans'
<1>1. /\ UniqueRows(RowsOf(disk')) /\ UniqueKeys(KeysOf(disk'))
  BY Zenon DEF IInv
<1>2. KeysFollow'
  BY DEF IInv, KeysFollow
<1>3. Orphans'
  <2> SUFFICES ASSUME NEW k \in KeysOf(disk)
               PROVE  (\E r \in RowsOf(disk) : r.id = k.id) \/ <<k.id, k.kind>> \in left'
    BY DEF Orphans
  <2>1. \/ \E r \in RowsOf(disk) : r.id = k.id
        \/ <<k.id, k.kind>> \in left
        \/ pc = "hlr" /\ Delete(k.id, k.kind) \in ToSet(todo)
    BY DEF IInv, Orphans
  <2>2. ~(pc = "hlr" /\ Delete(k.id, k.kind) \in ToSet(todo))
    <3>1. todo = <<>> => ToSet(todo) = {}
      BY ToSetIs
    <3> QED
      BY <3>1
  <2> QED
    BY <2>1, <2>2
<1> QED
  BY <1>1, <1>2, <1>3

LEMMA PathIs ==
    /\ db_upgrade_path[1] = db_upgrade_v1 /\ db_upgrade_path[2] = db_upgrade_v2
    /\ db_upgrade_path[3] = db_upgrade_v3 /\ db_upgrade_path[4] = db_upgrade_v4
    /\ db_upgrade_path[5] = db_upgrade_v5
BY DEF db_upgrade_path

(* In db_open() with nothing left to run, it is between versions. *)
LEMMA OpenIdle ==
    ASSUME Opening, todo = <<>>
    PROVE  Resting
<1>1. ASSUME NEW v \in 1..CURRENT_SCHEMA_VERSION, Begun(v)
      PROVE  FALSE
  <2>1. v \in {1, 2, 3, 4, 5}
    BY DEF CURRENT_SCHEMA_VERSION
  <2>2. db_upgrade_v1 # <<>> /\ db_upgrade_v2 # <<>> /\ db_upgrade_v3 # <<>> /\ db_upgrade_v4 # <<>> /\ db_upgrade_v5 # <<>>
    BY DEF db_upgrade_v1, db_upgrade_v2, db_upgrade_v3, db_upgrade_v4, db_upgrade_v5
  <2>3. db_upgrade_path[v] # <<>>
    BY <2>1, <2>2, PathIs
  <2> QED
    BY <1>1, <2>3 DEF Begun
<1>2. ~Altering
  BY DEF Altering, Altered
<1>3. ~Transacting
  BY DEF Transacting, InTransaction, FromCommit, FromRestore, FromCreate, FromDrop, FromBackup
<1>4. ~Committed
  BY DEF Committed
<1>5. ~Bootstrapping
  BY DEF Bootstrapping, stmt_bootstrap_sql
<1> QED
  BY <1>1, <1>2, <1>3, <1>4, <1>5 DEF Opening

LEMMA RunStatementStep ==
    ASSUME IInv, RunStatement
    PROVE  IInv' /\ RowsOf(disk') = RowsOf(disk) /\ KeysOf(disk') = KeysOf(disk)
<1>1. pc = "opening" /\ UNCHANGED <<pc, version, allow, torn, failed, left>>
  BY DEF RunStatement
<1>2. Types /\ Sound(disk) /\ Opening
  BY <1>1 DEF IInv
<1>3. StatementKeeps
  BY <1>2, RunKeeps, Zenon
<1>4. /\ disk' \in Content /\ view' \in Content
      /\ backup' \in {NoTable} \cup SUBSET Row
      /\ inTx' \in BOOLEAN
      /\ RowsOf(disk') = RowsOf(disk) /\ KeysOf(disk') = KeysOf(disk)
      /\ Sound(disk')
      /\ Opening'
  BY <1>3, Zenon DEF StatementKeeps
<1>5. Types'
  BY <1>1, <1>2, <1>4 DEF Types
<1>6. FitsUnlessTorn'
  BY <1>1, Zenon DEF IInv, FitsUnlessTorn
<1>7. /\ UniqueRows(RowsOf(disk')) /\ UniqueKeys(KeysOf(disk'))
      /\ KeysFollow' /\ Orphans'
  <2>1. left \subseteq left' /\ (pc # "hlr" \/ todo = <<>>)
    BY <1>1
  <2> QED
    BY <1>4, <2>1, SameContent, Zenon
<1>8. pc' = "opening"
  BY <1>1
<1> QED
  BY <1>4, <1>5, <1>6, <1>7, <1>8, Zenon DEF IInv

(* The connection is closed and the file is as it was. *)
LEMMA ClosedKeeps ==
    ASSUME IInv, Closed, failed' \in BOOLEAN, torn' \in BOOLEAN, left' \in SUBSET ((1..MaxId) \X KeyKind),
           left \subseteq left', failed' => torn', torn' = TRUE \/ Exact(disk),
           UniqueRows(RowsOf(disk')) /\ UniqueKeys(KeysOf(disk')) /\ KeysFollow' /\ Orphans'
    PROVE  IInv'
<1>1. /\ pc' = "down" /\ view' = disk /\ backup' = NoTable /\ inTx' = FALSE /\ todo' = <<>> /\ version' = 0
      /\ disk' = disk /\ allow' = allow
  BY DEF Closed
<1>2. Types'
  <2>1. disk \in Content /\ allow \in BOOLEAN
    BY DEF IInv, Types
  <2>2. FALSE \in BOOLEAN /\ 0 \in 0..(CURRENT_SCHEMA_VERSION + 1) /\ NoTable \in {NoTable} \cup SUBSET Row
        /\ "down" \in {"down", "opening", "hlr", "import"}
    BY DEF CURRENT_SCHEMA_VERSION
  <2> QED
    BY <1>1, <2>1, <2>2, Zenon DEF Types
<1>3. Sound(disk')
  BY <1>1, Zenon DEF IInv
<1>4. AtRest'
  <2>1. torn' = TRUE \/ Exact(disk')
    BY <1>1, Zenon
  <2> QED
    BY <1>1, <2>1, Zenon DEF AtRest, Settled
<1>5. Operating'
  BY <1>1, <1>4 DEF Operating, InProgress
<1>6. FitsUnlessTorn'
  BY Zenon DEF FitsUnlessTorn
<1> QED
  BY <1>1, <1>2, <1>3, <1>5, <1>6 DEF IInv

(* When a statement fits. *)
LEMMA FitsIs ==
    /\ \A c : Fits(Stmt("alter", c)) <=> view.subscriber # NoTable /\ c \notin view.subscriber.cols
    /\ \A c : Fits(Stmt("create", c)) <=> view.subscriber = NoTable
    /\ Fits(Stmt("create_others", {})) <=> view.others = NoTable
    /\ \A c : Fits(Stmt("backup", c)) <=> view.subscriber # NoTable /\ c \subseteq view.subscriber.cols
    /\ Fits(Stmt("drop", {})) <=> view.subscriber # NoTable
    /\ Fits(Stmt("restore", {})) <=> view.subscriber # NoTable
    /\ Fits(Stmt("begin", {})) /\ Fits(Stmt("commit", {}))
    /\ \A n : Fits(Stmt("user_version", n))
<1>1. \A op, arg : Stmt(op, arg).op = op /\ Stmt(op, arg).arg = arg
  BY DEF Stmt
<1>2. ASSUME NEW st
      PROVE  /\ st.op = "alter" => (Fits(st) <=> view.subscriber # NoTable /\ st.arg \notin view.subscriber.cols)
             /\ st.op = "create" => (Fits(st) <=> view.subscriber = NoTable)
             /\ st.op = "create_others" => (Fits(st) <=> view.others = NoTable)
             /\ st.op = "backup" => (Fits(st) <=> view.subscriber # NoTable /\ st.arg \subseteq view.subscriber.cols)
             /\ st.op \in {"drop", "restore"} => (Fits(st) <=> view.subscriber # NoTable)
             /\ st.op \in {"begin", "commit", "user_version"} => Fits(st)
  <2>1. CASE st.op = "alter"
    BY <2>1 DEF Fits
  <2>2. CASE st.op = "create"
    BY <2>2 DEF Fits
  <2>3. CASE st.op = "create_others"
    BY <2>3 DEF Fits
  <2>4. CASE st.op = "backup"
    BY <2>4 DEF Fits
  <2>5. CASE st.op \in {"drop", "restore"}
    BY <2>5 DEF Fits
  <2>6. CASE st.op \in {"begin", "commit", "user_version"}
    BY <2>6 DEF Fits
  <2> QED
    BY <2>1, <2>2, <2>3, <2>4, <2>5, <2>6, Zenon
<1>3. \A st : /\ st.op = "alter" => (Fits(st) <=> view.subscriber # NoTable /\ st.arg \notin view.subscriber.cols)
              /\ st.op = "create" => (Fits(st) <=> view.subscriber = NoTable)
              /\ st.op = "create_others" => (Fits(st) <=> view.others = NoTable)
              /\ st.op = "backup" => (Fits(st) <=> view.subscriber # NoTable /\ st.arg \subseteq view.subscriber.cols)
              /\ st.op \in {"drop", "restore"} => (Fits(st) <=> view.subscriber # NoTable)
              /\ st.op \in {"begin", "commit", "user_version"} => Fits(st)
  BY <1>2, Zenon
<1> QED
  BY <1>1, <1>3

(* A statement does not fit only after a torn version. *)
LEMMA AllFit ==
    ASSUME Types, Sound(disk), Opening, todo # <<>>, torn # TRUE
    PROVE  Fits(Head(todo))
<1>0. disk \in Content
  BY DEF Types
<1>1. CASE Resting
  BY <1>1 DEF Resting
<1>2. ASSUME NEW v \in 1..CURRENT_SCHEMA_VERSION, Begun(v)
      PROVE  Fits(Head(todo))
  <2>1. /\ v \in {1, 2, 3, 4, 5} /\ view = disk /\ disk.subscriber # NoTable
        /\ disk.subscriber.cols = ColumnsOf(v - 1) /\ todo = db_upgrade_path[v]
    <3>1. v \in {1, 2, 3, 4, 5}
      BY DEF CURRENT_SCHEMA_VERSION
    <3>2. /\ view = disk /\ disk.subscriber # NoTable /\ Exact(disk) /\ disk.version = v - 1
          /\ todo = db_upgrade_path[v]
      BY <1>2, Zenon DEF Begun, AtRest, Settled
    <3> QED
      BY <3>1, <3>2 DEF Exact
  <2>2. CASE v = 1
    <3>1. Head(todo) = Stmt("alter", "last_lu_seen") /\ disk.subscriber.cols = {"hlr_number"}
      BY <2>1, <2>2, ColumnsAre DEF db_upgrade_path, db_upgrade_v1
    <3> QED
      BY <2>1, <3>1, FitsIs
  <2>3. CASE v = 2
    <3>1. Head(todo) = Stmt("alter", "imei") /\ disk.subscriber.cols = {"hlr_number", "last_lu_seen"}
      BY <2>1, <2>3, ColumnsAre DEF db_upgrade_path, db_upgrade_v2
    <3> QED
      BY <2>1, <3>1, FitsIs
  <2>4. CASE v = 3
    <3>1. Head(todo) = Stmt("begin", {})
      BY <2>1, <2>4 DEF db_upgrade_path, db_upgrade_v3
    <3> QED
      BY <3>1, FitsIs
  <2>5. CASE v = 4
    <3>1. Head(todo) = Stmt("alter", "last_lu_seen_ps") /\ disk.subscriber.cols = V3Columns
      BY <2>1, <2>5, ColumnsAre DEF db_upgrade_path, db_upgrade_v4
    <3> QED
      BY <2>1, <3>1, FitsIs DEF V3Columns
  <2>6. CASE v = 5
    <3>1. /\ Head(todo) = Stmt("alter", "vlr_via_proxy")
          /\ disk.subscriber.cols = V3Columns \cup {"last_lu_seen_ps"}
      BY <2>1, <2>6, ColumnsAre DEF db_upgrade_path, db_upgrade_v5
    <3> QED
      BY <2>1, <3>1, FitsIs DEF V3Columns
  <2> QED
    BY <2>1, <2>2, <2>3, <2>4, <2>5, <2>6
<1>3. \A n : todo = <<Stmt("user_version", n)>> => Fits(Head(todo))
  <2>1. \A n : Head(<<Stmt("user_version", n)>>) = Stmt("user_version", n)
    OBVIOUS
  <2>2. \A n : Fits(Stmt("user_version", n))
    BY FitsIs
  <2> QED
    BY <2>1, <2>2, Zenon
<1>4. CASE Altering
  <2>1. CASE Altered(5, {"vlr_via_proxy"}, <<Stmt("alter", "sgsn_via_proxy"), Stmt("user_version", 5)>>)
    <3>0. /\ todo = <<Stmt("alter", "sgsn_via_proxy"), Stmt("user_version", 5)>>
          /\ view = disk /\ disk.subscriber # NoTable
          /\ disk.subscriber.cols = ColumnsOf(5 - 1) \cup {"vlr_via_proxy"}
      BY <2>1, Zenon DEF Altered, Settled
    <3>1. /\ Head(todo) = Stmt("alter", "sgsn_via_proxy") /\ view = disk /\ disk.subscriber # NoTable
          /\ disk.subscriber.cols = ColumnsOf(4) \cup {"vlr_via_proxy"}
      BY <3>0
    <3>2. "sgsn_via_proxy" \notin disk.subscriber.cols
      BY <3>1, ColumnsAre DEF V3Columns
    <3> QED
      BY <3>1, <3>2, FitsIs
  <2> QED
    BY <1>3, <1>4, <2>1 DEF Altering, Altered
<1>5. CASE Transacting
  <2>1. disk.version = 2 /\ view.subscriber = [disk EXCEPT !.subscriber = view.subscriber].subscriber
    BY <1>0, <1>5 DEF Transacting, InTransaction, Content
  <2>2. disk.subscriber # NoTable
    BY <2>1 DEF Sound
  <2>3. CASE InTransaction(disk.subscriber, FromBackup)
    <3>1. view.subscriber = disk.subscriber /\ Exact(disk)
      BY <1>0, <2>3, ContentExcept DEF InTransaction
    <3>2. disk.subscriber.cols = V2Columns
      BY <2>1, <2>2, <3>1, ColumnsAre DEF Exact
    <3>3. Head(todo) = Stmt("backup", V2Columns)
      BY <2>3 DEF InTransaction, FromBackup
    <3> QED
      BY <2>2, <3>1, <3>2, <3>3, FitsIs
  <2>4. CASE InTransaction(disk.subscriber, FromDrop)
    <3>1. view.subscriber = disk.subscriber
      BY <1>0, <2>4, ContentExcept DEF InTransaction
    <3>2. Head(todo) = Stmt("drop", {})
      BY <2>4 DEF InTransaction, FromDrop
    <3> QED
      BY <2>2, <3>1, <3>2, FitsIs
  <2>5. CASE InTransaction(NoTable, FromCreate)
    <3>1. view.subscriber = NoTable
      BY <1>0, <2>5, ContentExcept DEF InTransaction
    <3>2. Head(todo) = Stmt("create", V3Columns)
      BY <2>5 DEF InTransaction, FromCreate
    <3> QED
      BY <3>1, <3>2, FitsIs
  <2>6. CASE InTransaction([cols |-> V3Columns, rows |-> {}], FromRestore)
    <3>1. view.subscriber = [cols |-> V3Columns, rows |-> {}]
      BY <1>0, <2>6, ContentExcept DEF InTransaction
    <3>2. Head(todo) = Stmt("restore", {}) /\ view.subscriber # NoTable
      BY <2>6, <3>1, TablesAre DEF InTransaction, FromRestore
    <3> QED
      BY <3>2, FitsIs
  <2>7. CASE InTransaction([cols |-> V3Columns, rows |-> backup], FromCommit)
    <3>1. Head(todo) = Stmt("commit", {})
      BY <2>7 DEF InTransaction, FromCommit
    <3> QED
      BY <3>1, FitsIs
  <2> QED
    BY <1>5, <2>3, <2>4, <2>5, <2>6, <2>7, Zenon DEF Transacting
<1>6. CASE Committed
  BY <1>3, <1>6 DEF Committed
<1>7. CASE Bootstrapping
  <2>0. view = disk
    BY <1>7 DEF Bootstrapping, Settled
  <2>1. CASE todo = stmt_bootstrap_sql /\ AtRest /\ disk.subscriber = NoTable
    <3>1. Head(todo) = Stmt("create", Column \ {"hlr_number"})
      BY <2>1 DEF stmt_bootstrap_sql
    <3> QED
      BY <2>0, <2>1, <3>1, FitsIs
  <2>2. CASE /\ todo = <<Stmt("create_others", {}), Stmt("user_version", CURRENT_SCHEMA_VERSION)>>
             /\ disk.subscriber = NewTable /\ (torn = TRUE \/ disk.others = NoTable)
    <3>1. Head(todo) = Stmt("create_others", {})
      BY <2>2
    <3>2. disk.others = NoTable
      BY <2>2, Zenon
    <3> QED
      BY <2>0, <3>1, <3>2, FitsIs
  <2> QED
    BY <1>3, <1>7, <2>1, <2>2, Zenon DEF Bootstrapping
<1> QED
  BY <1>1, <1>2, <1>4, <1>5, <1>6, <1>7, Zenon DEF Opening

LEMMA UnfitStep ==
    ASSUME IInv, StatementUnfit
    PROVE  IInv' /\ disk' = disk
<1>1. pc = "opening" /\ todo # <<>> /\ ~Fits(Head(todo)) /\ failed' = TRUE /\ Closed /\ torn' = torn /\ left' = left
  BY DEF StatementUnfit
<1>2. disk' = disk
  BY <1>1 DEF Closed
<1>3. Types /\ Sound(disk) /\ Opening
  BY <1>1 DEF IInv
<1>4. torn = TRUE
  BY <1>1, <1>3, AllFit, Zenon
<1>5. /\ failed' \in BOOLEAN /\ torn' \in BOOLEAN /\ left' \in SUBSET ((1..MaxId) \X KeyKind)
      /\ left \subseteq left' /\ (failed' => torn') /\ (torn' = TRUE \/ Exact(disk))
  <2>1. torn' = TRUE
    BY <1>1, <1>4, Zenon
  <2>2. left \in SUBSET ((1..MaxId) \X KeyKind)
    BY <1>3 DEF Types
  <2>3. failed' \in BOOLEAN /\ torn' \in BOOLEAN
    BY <1>1, <2>1
  <2>4. left' \in SUBSET ((1..MaxId) \X KeyKind) /\ left \subseteq left'
    BY <1>1, <2>2
  <2> QED
    BY <2>1, <2>3, <2>4, Zenon
<1>6. UniqueRows(RowsOf(disk')) /\ UniqueKeys(KeysOf(disk')) /\ KeysFollow' /\ Orphans'
  <2>1. RowsOf(disk') = RowsOf(disk) /\ KeysOf(disk') = KeysOf(disk) /\ (pc # "hlr" \/ todo = <<>>)
    BY <1>1, <1>2
  <2> QED
    BY <1>5, <2>1, SameContent, Zenon
<1> QED
  BY <1>1, <1>2, <1>5, <1>6, ClosedKeeps, Zenon

(* A step of db_open() that touches neither the file nor the view of it. *)
LEMMA OpenKeeps ==
    ASSUME IInv, UNCHANGED <<disk, view, backup, inTx, torn, failed, left>>, pc # "hlr",
           pc' = "opening", allow' \in BOOLEAN, version' \in 0..6, Opening'
    PROVE  IInv'
<1>1. Types'
  BY DEF IInv, Types, CURRENT_SCHEMA_VERSION
<1>2. Sound(disk') /\ RowsOf(disk') = RowsOf(disk) /\ KeysOf(disk') = KeysOf(disk)
  <2>1. disk' = disk
    OBVIOUS
  <2> QED
    BY <2>1, Zenon DEF IInv
<1>3. /\ UniqueRows(RowsOf(disk')) /\ UniqueKeys(KeysOf(disk'))
      /\ KeysFollow' /\ Orphans'
  <2>1. left \subseteq left'
    OBVIOUS
  <2> QED
    BY <1>2, <2>1, SameContent, Zenon
<1>4. FitsUnlessTorn'
  <2>1. failed' = failed /\ torn' = torn
    OBVIOUS
  <2>2. failed => torn
    BY Zenon DEF IInv, FitsUnlessTorn
  <2>3. failed' => torn'
    BY <2>1, <2>2
  <2> QED
    BY <2>3, Zenon DEF FitsUnlessTorn
<1> QED
  BY <1>1, <1>2, <1>3, <1>4, Zenon DEF IInv

LEMMA db_openStep ==
    ASSUME IInv, NEW allow_upgrade \in BOOLEAN, db_open(allow_upgrade)
    PROVE  IInv' /\ disk' = disk
<1>1. /\ pc = "down" /\ pc' = "opening" /\ allow' = allow_upgrade
      /\ UNCHANGED <<disk, view, backup, inTx, torn, failed, left>>
  BY DEF db_open
<1>2. Operating /\ Types /\ Sound(disk)
  BY <1>1 DEF IInv
<1>3. AtRest /\ disk \in Content
  BY <1>2 DEF Operating, Types
<1>4. AtRest'
  BY <1>1, <1>3, Zenon DEF AtRest, Settled, Exact
<1>5. PICK v \in {disk.version, -1} :
         /\ Readable(v)
         /\ IF v = 0 /\ disk.subscriber = NoTable
            THEN todo' = stmt_bootstrap_sql /\ version' = VersionBootstrapped(v)
            ELSE todo' = <<>> /\ version' = v
  BY Zenon DEF db_open
<1>6. v = disk.version /\ v \in 0..6
  BY <1>3, <1>5, ContentParts DEF Readable
<1>7. CASE v = 0 /\ disk.subscriber = NoTable
  <2>1. todo' = stmt_bootstrap_sql /\ version' = CURRENT_SCHEMA_VERSION
    BY <1>5, <1>7 DEF VersionBootstrapped
  <2>2. disk'.version = 0 /\ disk'.subscriber = NoTable
    BY <1>1, <1>6, <1>7
  <2>3. Bootstrapping'
    BY <1>4, <2>1, <2>2, Zenon DEF Bootstrapping, AtRest, stmt_bootstrap_sql, CURRENT_SCHEMA_VERSION, Column
  <2>4. Opening'
    BY <2>3, Zenon DEF Opening
  <2>5. version' \in 0..6 /\ allow' \in BOOLEAN
    BY <1>1, <2>1 DEF CURRENT_SCHEMA_VERSION
  <2> QED
    BY <1>1, <2>4, <2>5, OpenKeeps
<1>8. CASE ~(v = 0 /\ disk.subscriber = NoTable)
  <2>1. todo' = <<>> /\ version' = v
    BY <1>5, <1>8
  <2>2. disk.subscriber # NoTable
    BY <1>2, <1>6, <1>8 DEF Sound
  <2>3. disk'.subscriber # NoTable /\ version' = disk'.version
    BY <1>1, <1>6, <2>1, <2>2
  <2>4. Resting'
    BY <1>4, <2>1, <2>3, Zenon DEF Resting
  <2>5. Opening'
    BY <2>4, Zenon DEF Opening
  <2>6. version' \in 0..6 /\ allow' \in BOOLEAN
    BY <1>1, <1>6, <2>1
  <2> QED
    BY <1>1, <2>5, <2>6, OpenKeeps
<1> QED
  BY <1>7, <1>8

LEMMA NextVersionStep ==
    ASSUME IInv, NextVersion
    PROVE  IInv' /\ disk' = disk
<1>1. /\ pc = "opening" /\ todo = <<>> /\ version < CURRENT_SCHEMA_VERSION
      /\ todo' = db_upgrade_path[version + 1] /\ version' = version + 1
      /\ UNCHANGED <<disk, view, backup, inTx, pc, allow, torn, failed, left>>
  BY DEF NextVersion
<1>2. Opening /\ Types
  BY <1>1 DEF IInv
<1>3. Resting
  BY <1>1, <1>2, OpenIdle, Zenon
<1>4. AtRest /\ version = disk.version /\ disk.subscriber # NoTable
  BY <1>3 DEF Resting
<1>5. AtRest'
  BY <1>1, <1>4, Zenon DEF AtRest, Settled, Exact
<1>6. version' \in 1..CURRENT_SCHEMA_VERSION /\ disk'.version = version' - 1 /\ disk'.subscriber # NoTable
  BY <1>1, <1>2, <1>4 DEF Types, CURRENT_SCHEMA_VERSION
<1>7. todo' = db_upgrade_path[version']
  BY <1>1
<1>8. \E v \in 1..CURRENT_SCHEMA_VERSION : Begun(v)'
  <2>1. Begun(version)'
    BY <1>5, <1>6, <1>7, Zenon DEF Begun, db_upgrade_path
  <2> QED
    BY <1>6, <2>1 DEF Begun, CURRENT_SCHEMA_VERSION
<1>9. Opening'
  BY <1>8, Zenon DEF Opening, CURRENT_SCHEMA_VERSION
<1>10. version' \in 0..6 /\ allow' \in BOOLEAN /\ pc' = "opening" /\ pc # "hlr"
  BY <1>1, <1>2, <1>6 DEF Types, CURRENT_SCHEMA_VERSION
<1> QED
  BY <1>1, <1>9, <1>10, OpenKeeps

LEMMA OpenEndsStep ==
    ASSUME IInv, OpenEnds
    PROVE  IInv' /\ disk' = disk
<1>1. /\ pc = "opening" /\ todo = <<>> /\ torn' = torn /\ left' = left
      /\ \/ /\ version = CURRENT_SCHEMA_VERSION /\ Prepared
            /\ pc' \in {"hlr", "import"}
            /\ UNCHANGED <<disk, view, backup, inTx, version, todo, allow, failed>>
         \/ /\ ~(version = CURRENT_SCHEMA_VERSION /\ Prepared)
            /\ failed' = (failed \/ version = CURRENT_SCHEMA_VERSION)
            /\ Closed
  BY DEF OpenEnds
<1>2. Types /\ Sound(disk) /\ Opening
  BY <1>1 DEF IInv
<1>3. Resting
  BY <1>1, <1>2, OpenIdle, Zenon
<1>4. AtRest /\ version = disk.version /\ disk.subscriber # NoTable /\ view = disk
  BY <1>3 DEF Resting, AtRest, Settled
<1>5. disk' = disk
  BY <1>1 DEF Closed
<1>6. UniqueRows(RowsOf(disk')) /\ UniqueKeys(KeysOf(disk')) /\ KeysFollow' /\ Orphans'
  <2>1. RowsOf(disk') = RowsOf(disk) /\ KeysOf(disk') = KeysOf(disk) /\ (pc # "hlr" \/ todo = <<>>)
        /\ left \subseteq left'
    BY <1>1, <1>5
  <2> QED
    BY <2>1, SameContent, Zenon
<1>7. CASE /\ version = CURRENT_SCHEMA_VERSION /\ Prepared
           /\ pc' \in {"hlr", "import"}
           /\ UNCHANGED <<disk, view, backup, inTx, version, todo, allow, failed>>
  <2>1. Types'
    BY <1>1, <1>2, <1>7 DEF Types
  <2>2. Sound(disk')
    BY <1>2, <1>5, Zenon
  <2>3. AtRest'
    BY <1>1, <1>4, <1>7, Zenon DEF AtRest, Settled, Exact
  <2>4. disk'.subscriber # NoTable /\ disk'.others # NoTable /\ todo' = <<>>
    BY <1>1, <1>4, <1>7 DEF Prepared
  <2>5. Operating'
    BY <2>3, <2>4, Zenon DEF Operating, InProgress
  <2>6. failed' = failed /\ torn' = torn
    BY <1>1, <1>7
  <2>7. failed => torn
    BY Zenon DEF IInv, FitsUnlessTorn
  <2>8. failed' => torn'
    BY <2>6, <2>7
  <2>9. pc' # "opening"
    BY <1>7
  <2> QED
    BY <1>5, <1>6, <2>1, <2>2, <2>5, <2>8, <2>9, Zenon DEF IInv, FitsUnlessTorn
<1>8. CASE /\ ~(version = CURRENT_SCHEMA_VERSION /\ Prepared)
           /\ failed' = (failed \/ version = CURRENT_SCHEMA_VERSION)
           /\ Closed
  <2>1. torn = TRUE \/ Exact(disk)
    BY <1>4, Zenon DEF AtRest
  <2>2. version = CURRENT_SCHEMA_VERSION => torn = TRUE
    <3>1. ASSUME version = CURRENT_SCHEMA_VERSION, Exact(disk) PROVE Prepared
      BY <1>4, <3>1 DEF Prepared, Exact
    <3> QED
      BY <1>8, <2>1, <3>1, Zenon
  <2>3. failed => torn
    BY Zenon DEF IInv, FitsUnlessTorn
  <2>4. failed' => torn
    <3>1. CASE version = CURRENT_SCHEMA_VERSION
      BY <2>2, <3>1
    <3>2. CASE version # CURRENT_SCHEMA_VERSION
      <4>1. failed' => failed
        BY <1>8, <3>2
      <4> QED
        BY <2>3, <4>1, Zenon
    <3> QED
      BY <3>1, <3>2
  <2>5. failed' => torn'
    BY <1>1, <2>4
  <2>6. failed' \in BOOLEAN /\ torn' \in BOOLEAN
    BY <1>1, <1>2, <1>8 DEF Types
  <2>7. left' \in SUBSET ((1..MaxId) \X KeyKind) /\ left \subseteq left'
    BY <1>1, <1>2 DEF Types
  <2>8. torn' = TRUE \/ Exact(disk)
    BY <1>1, <2>1, Zenon
  <2> QED
    BY <1>5, <1>6, <1>8, <2>5, <2>6, <2>7, <2>8, ClosedKeeps, Zenon
<1> QED
  BY <1>1, <1>7, <1>8, Zenon

(* The version lists, and what is not one. *)
LEMMA WholeLists ==
    /\ ToSet(db_upgrade_path) = {db_upgrade_v1, db_upgrade_v2, db_upgrade_v3, db_upgrade_v4, db_upgrade_v5}
    /\ \A n : <<Stmt("user_version", n)>> \notin ToSet(db_upgrade_path) \cup {stmt_bootstrap_sql}
    /\ \A n : <<Stmt("alter", "sgsn_via_proxy"), Stmt("user_version", n)>>
                 \notin ToSet(db_upgrade_path) \cup {stmt_bootstrap_sql}
    /\ \A n : <<Stmt("create_others", {}), Stmt("user_version", n)>>
                 \notin ToSet(db_upgrade_path) \cup {stmt_bootstrap_sql}
<1>1. \A a, b, c, d, e : ToSet(<<a, b, c, d, e>>) = {a, b, c, d, e}
  BY DEF ToSet
<1>2. ToSet(db_upgrade_path) = {db_upgrade_v1, db_upgrade_v2, db_upgrade_v3, db_upgrade_v4, db_upgrade_v5}
  BY <1>1 DEF db_upgrade_path
<1>3. \A n : LET s == <<Stmt("user_version", n)>> IN
         /\ s # db_upgrade_v1 /\ s # db_upgrade_v2 /\ s # db_upgrade_v3 /\ s # db_upgrade_v4
         /\ s # db_upgrade_v5 /\ s # stmt_bootstrap_sql
  BY DEF db_upgrade_v1, db_upgrade_v2, db_upgrade_v3, db_upgrade_v4, db_upgrade_v5, stmt_bootstrap_sql
<1>4. /\ Stmt("alter", "sgsn_via_proxy") # Stmt("alter", "last_lu_seen")
      /\ Stmt("alter", "sgsn_via_proxy") # Stmt("alter", "imei")
      /\ Stmt("alter", "sgsn_via_proxy") # Stmt("alter", "last_lu_seen_ps")
      /\ \A c : Stmt("create_others", {}) # Stmt("alter", c)
  BY DEF Stmt
<1>5. \A n : LET s == <<Stmt("alter", "sgsn_via_proxy"), Stmt("user_version", n)>> IN
         /\ s # db_upgrade_v1 /\ s # db_upgrade_v2 /\ s # db_upgrade_v3 /\ s # db_upgrade_v4
         /\ s # db_upgrade_v5 /\ s # stmt_bootstrap_sql
  BY <1>4 DEF db_upgrade_v1, db_upgrade_v2, db_upgrade_v3, db_upgrade_v4, db_upgrade_v5, stmt_bootstrap_sql
<1>6. \A n : LET s == <<Stmt("create_others", {}), Stmt("user_version", n)>> IN
         /\ s # db_upgrade_v1 /\ s # db_upgrade_v2 /\ s # db_upgrade_v3 /\ s # db_upgrade_v4
         /\ s # db_upgrade_v5 /\ s # stmt_bootstrap_sql
  BY <1>4 DEF db_upgrade_v1, db_upgrade_v2, db_upgrade_v3, db_upgrade_v4, db_upgrade_v5, stmt_bootstrap_sql
<1> QED
  BY <1>2, <1>3, <1>5, <1>6

(* Wherever db_open() is stopped, the file is that of a version unless it  *)
(* is between two statements of one.                                       *)
LEMMA ExactOrMid ==
    ASSUME Opening, pc = "opening"
    PROVE  torn = TRUE \/ Exact(disk) \/ MidVersion
<1>1. ASSUME todo # <<>>, inTx = FALSE, todo \notin ToSet(db_upgrade_path) \cup {stmt_bootstrap_sql}
      PROVE  MidVersion
  BY <1>1, Zenon DEF MidVersion
<1>2. ASSUME Resting \/ \E v \in 1..CURRENT_SCHEMA_VERSION : Begun(v)
      PROVE  torn = TRUE \/ Exact(disk)
  BY <1>2, Zenon DEF Resting, Begun, AtRest
<1>3. ASSUME NEW n, todo = <<Stmt("user_version", n)>>, Settled
      PROVE  MidVersion
  <2>1. todo # <<>> /\ todo \notin ToSet(db_upgrade_path) \cup {stmt_bootstrap_sql}
    BY <1>3, WholeLists
  <2> QED
    BY <1>1, <1>3, <2>1, Zenon DEF Settled
<1>4. CASE Altering
  <2>1. CASE Altered(5, {"vlr_via_proxy"}, <<Stmt("alter", "sgsn_via_proxy"), Stmt("user_version", 5)>>)
    <3>1. todo = <<Stmt("alter", "sgsn_via_proxy"), Stmt("user_version", 5)>> /\ inTx = FALSE
      BY <2>1, Zenon DEF Altered, Settled
    <3>2. todo # <<>> /\ todo \notin ToSet(db_upgrade_path) \cup {stmt_bootstrap_sql}
      BY <3>1, WholeLists
    <3> QED
      BY <1>1, <3>1, <3>2, Zenon
  <2> QED
    BY <1>3, <1>4, <2>1, Zenon DEF Altering, Altered
<1>5. CASE Transacting
  BY <1>5, Zenon DEF Transacting, InTransaction
<1>6. CASE Committed
  BY <1>3, <1>6, Zenon DEF Committed
<1>7. CASE Bootstrapping
  <2>1. CASE todo = stmt_bootstrap_sql /\ AtRest
    BY <2>1, Zenon DEF AtRest
  <2>2. CASE todo = <<Stmt("create_others", {}), Stmt("user_version", CURRENT_SCHEMA_VERSION)>>
    <3>1. todo # <<>> /\ todo \notin ToSet(db_upgrade_path) \cup {stmt_bootstrap_sql}
      BY <2>2, WholeLists
    <3>2. inTx = FALSE
      BY <1>7, Zenon DEF Bootstrapping, Settled
    <3> QED
      BY <1>1, <3>1, <3>2, Zenon
  <2> QED
    BY <1>3, <1>7, <2>1, <2>2, Zenon DEF Bootstrapping
<1> QED
  BY <1>2, <1>4, <1>5, <1>6, <1>7, Zenon DEF Opening

-----------------------------------------------------------------------------
(* The operations on subscribers. *)

(* What an operation has yet to run. *)
LEMMA OperationTodo ==
    ASSUME Types, Operating
    PROVE  ToSet(todo) \subseteq OperationStmt
<1>1. /\ \A s \in Subscr : /\ Stmt("insert_subscr", s) \in OperationStmt
                           /\ Stmt("import_aud", s) \in OperationStmt
      /\ \A id \in 1..MaxId : Stmt("delete_subscr", id) \in OperationStmt
      /\ \A id \in 1..MaxId, kind \in KeyKind : Delete(id, kind) \in OperationStmt
      /\ \A k \in Key : Stmt("insert_key", k) \in OperationStmt
  BY DEF OperationStmt, Stmt, Delete
<1>2. "2g" \in KeyKind /\ "3g" \in KeyKind
  BY DEF KeyKind
<1>3. CASE todo = <<>>
  BY <1>3, ToSetIs
<1>4. CASE Deleting(RowsOf(disk))
  <2>1. PICK id \in 1..MaxId :
           todo \in {db_subscr_delete_by_id(id), <<Delete(id, "2g"), Delete(id, "3g")>>, <<Delete(id, "3g")>>}
    BY <1>4 DEF Deleting
  <2>2. db_subscr_delete_by_id(id) = <<Stmt("delete_subscr", id), Delete(id, "2g"), Delete(id, "3g")>>
    BY DEF db_subscr_delete_by_id, Delete
  <2>3. ToSet(todo) \subseteq {Stmt("delete_subscr", id), Delete(id, "2g"), Delete(id, "3g")}
    BY <2>1, <2>2, ToSetIs
  <2> QED
    BY <1>1, <1>2, <2>3
<1>5. CASE Updating(RowsOf(disk))
  <2>1. PICK r \in RowsOf(disk), kind \in KeyKind :
           todo \in {<<Delete(r.id, kind)>> \o Aud(r, kind), <<Delete(r.id, kind)>>, Aud(r, kind)}
    BY <1>5 DEF Updating
  <2>2. r \in Row
    BY ContentParts DEF Types
  <2> DEFINE k == [id |-> r.id, kind |-> kind, owner |-> r.imsi]
  <2>3. k \in Key /\ r.id \in 1..MaxId
    BY <2>2 DEF Key, Row
  <2>4. Aud(r, kind) = <<Stmt("insert_key", k)>>
    BY DEF Aud
  <2> HIDE DEF k
  <2>5. <<Delete(r.id, kind)>> \o Aud(r, kind) = <<Delete(r.id, kind), Stmt("insert_key", k)>>
    BY <2>4, PairIs, Zenon
  <2>6. ToSet(todo) \subseteq {Delete(r.id, kind), Stmt("insert_key", k)}
    BY <2>1, <2>4, <2>5, ToSetIs
  <2> QED
    BY <1>1, <2>3, <2>6
<1>6. CASE Importing
  <2>1. PICK s \in Subscr :
           todo \in {<<Stmt("insert_subscr", s)>>, <<Stmt("insert_subscr", s), Stmt("import_aud", s)>>,
                     <<Stmt("import_aud", s)>>}
    BY <1>6 DEF Importing
  <2>2. ToSet(todo) \subseteq {Stmt("insert_subscr", s), Stmt("import_aud", s)}
    BY <2>1, ToSetIs
  <2> QED
    BY <1>1, <2>2
<1> QED
  BY <1>3, <1>4, <1>5, <1>6, Zenon DEF Operating, InProgress

(* What is left of a deletion. *)
LEMMA LeftByIs ==
    ASSUME NEW stmts, ToSet(stmts) \subseteq OperationStmt
    PROVE  /\ LeftBy(stmts) \subseteq (1..MaxId) \X KeyKind
           /\ \A id \in 1..MaxId, kind \in KeyKind :
                 Delete(id, kind) \in ToSet(stmts) /\ (\A r \in view.subscriber.rows : r.id # id)
                    => <<id, kind>> \in LeftBy(stmts)
<1>1. \A st \in OperationStmt : st.op = "delete_key" => st.arg \in (1..MaxId) \X KeyKind
  BY DEF OperationStmt
<1>2. LeftBy(stmts) \subseteq (1..MaxId) \X KeyKind
  BY <1>1 DEF LeftBy
<1>3. ASSUME NEW id \in 1..MaxId, NEW kind \in KeyKind,
             Delete(id, kind) \in ToSet(stmts), \A r \in view.subscriber.rows : r.id # id
      PROVE  <<id, kind>> \in LeftBy(stmts)
  <2>1. Delete(id, kind).op = "delete_key" /\ Delete(id, kind).arg = <<id, kind>>
    BY DEF Delete, Stmt
  <2>2. <<id, kind>> \in {st.arg : st \in {t \in ToSet(stmts) : t.op = "delete_key"}}
    BY <1>3, <2>1
  <2>3. <<id, kind>> \notin {<<r.id, k>> : r \in view.subscriber.rows, k \in KeyKind}
    BY <1>3
  <2> QED
    BY <2>2, <2>3 DEF LeftBy
<1> QED
  BY <1>2, <1>3

LEMMA InterruptedStep ==
    ASSUME IInv, Interrupted
    PROVE  IInv' /\ disk' = disk
<1>1. /\ pc # "down" /\ torn' = (torn \/ MidVersion) /\ Closed /\ failed' = failed
      /\ left' = IF pc = "opening" THEN left ELSE left \cup LeftBy(todo)
  BY DEF Interrupted
<1>2. disk' = disk /\ Types /\ pc' = "down"
  BY <1>1 DEF Closed, IInv
<1>3. torn' \in BOOLEAN
  BY <1>1 DEF MidVersion
<1>4. failed' \in BOOLEAN
  BY <1>1, <1>2 DEF Types
<1>5. failed' => torn'
  <2>1. failed => torn
    BY Zenon DEF IInv, FitsUnlessTorn
  <2>2. failed' => torn
    BY <1>1, <2>1
  <2> QED
    BY <1>1, <2>2, Zenon
<1>6. torn' = TRUE \/ Exact(disk)
  <2>1. torn = TRUE \/ Exact(disk) \/ MidVersion
    <3>1. CASE pc = "opening"
      <4>1. Opening
        BY <3>1 DEF IInv
      <4> QED
        BY <3>1, <4>1, ExactOrMid, Zenon
    <3>2. CASE pc # "opening"
      <4>1. Operating
        BY <3>2 DEF IInv
      <4> QED
        BY <4>1, Zenon DEF Operating, AtRest
    <3> QED
      BY <3>1, <3>2
  <2>2. CASE torn = TRUE
    BY <1>1, <2>2, Zenon
  <2>3. CASE MidVersion
    BY <1>1, <2>3, Zenon
  <2> QED
    BY <2>1, <2>2, <2>3, Zenon
<1>7. CASE pc = "opening"
  <2>1. /\ RowsOf(disk') = RowsOf(disk) /\ KeysOf(disk') = KeysOf(disk) /\ (pc # "hlr" \/ todo = <<>>)
        /\ left' = left /\ left \subseteq left'
    BY <1>1, <1>2, <1>7
  <2>2. UniqueRows(RowsOf(disk')) /\ UniqueKeys(KeysOf(disk')) /\ KeysFollow' /\ Orphans'
    BY <2>1, SameContent, Zenon
  <2>3. left' \in SUBSET ((1..MaxId) \X KeyKind)
    BY <1>2, <2>1 DEF Types
  <2> QED
    BY <1>1, <1>2, <1>3, <1>4, <1>5, <1>6, <2>1, <2>2, <2>3, ClosedKeeps, Zenon
<1>8. CASE pc # "opening"
  <2>1. Operating /\ pc \in {"hlr", "import"}
    BY <1>1, <1>2, <1>8 DEF IInv, Types
  <2>2. view = disk /\ disk.subscriber # NoTable
    BY <2>1, Zenon DEF Operating, AtRest, Settled
  <2>3. RowsOf(disk) = view.subscriber.rows
    BY <2>2 DEF RowsOf
  <2>4. ToSet(todo) \subseteq OperationStmt
    BY <1>2, <2>1, OperationTodo, Zenon
  <2>5. left' = left \cup LeftBy(todo)
    BY <1>1, <1>8
  <2>6. left' \in SUBSET ((1..MaxId) \X KeyKind) /\ left \subseteq left'
    BY <1>2, <2>4, <2>5, LeftByIs DEF Types
  <2>7. UniqueRows(RowsOf(disk')) /\ UniqueKeys(KeysOf(disk'))
    BY <1>2, Zenon DEF IInv
  <2>8. KeysFollow'
    BY <1>2, <2>6 DEF IInv, KeysFollow
  <2>9. Orphans'
    <3> SUFFICES ASSUME NEW k \in KeysOf(disk), \A r \in RowsOf(disk) : r.id # k.id
                 PROVE  <<k.id, k.kind>> \in left'
      BY <1>2 DEF Orphans
    <3>1. <<k.id, k.kind>> \in left \/ Delete(k.id, k.kind) \in ToSet(todo)
      BY DEF IInv, Orphans
    <3>2. k.id \in 1..MaxId /\ k.kind \in KeyKind
      BY <1>2, ContentParts DEF Types, Key
    <3> QED
      BY <2>3, <2>4, <2>5, <3>1, <3>2, LeftByIs
  <2> QED
    BY <1>1, <1>2, <1>3, <1>4, <1>5, <1>6, <2>6, <2>7, <2>8, <2>9, ClosedKeeps, Zenon
<1> QED
  BY <1>7, <1>8

(* In operation, the file has its tables and the connection sees it. *)
LEMMA InOperationFacts ==
    ASSUME IInv, pc \in {"hlr", "import"}
    PROVE  /\ Types /\ Operating /\ InProgress
           /\ view = disk /\ disk \in Content /\ disk.subscriber # NoTable /\ disk.others # NoTable
           /\ RowsOf(disk) = disk.subscriber.rows /\ KeysOf(disk) = disk.others
           /\ RowsOf(disk) \in SUBSET Row /\ KeysOf(disk) \in SUBSET Key
           /\ ToSet(todo) \subseteq OperationStmt
           /\ left \in SUBSET ((1..MaxId) \X KeyKind)
<1>1. Types /\ Operating
  BY DEF IInv
<1>2. disk \in Content /\ left \in SUBSET ((1..MaxId) \X KeyKind)
  BY <1>1 DEF Types
<1>3. view = disk /\ disk.subscriber # NoTable /\ disk.others # NoTable /\ InProgress
  BY <1>1, Zenon DEF Operating, AtRest, Settled
<1>4. RowsOf(disk) = disk.subscriber.rows /\ KeysOf(disk) = disk.others
  BY <1>3 DEF RowsOf, KeysOf
<1>5. RowsOf(disk) \in SUBSET Row /\ KeysOf(disk) \in SUBSET Key
  BY <1>2, ContentParts
<1>6. ToSet(todo) \subseteq OperationStmt
  BY <1>1, OperationTodo, Zenon
<1> QED
  BY <1>1, <1>2, <1>3, <1>4, <1>5, <1>6, Zenon

(* What a step of an operation has to keep for the invariant to hold. *)
LEMMA OperationKeeps ==
    ASSUME IInv, pc \in {"hlr", "import"}, UNCHANGED <<pc, opening>>,
           disk' \in Content, view' = disk', disk'.version = disk.version,
           disk'.subscriber # NoTable, disk'.others # NoTable,
           disk'.subscriber.cols = disk.subscriber.cols,
           left' \in SUBSET ((1..MaxId) \X KeyKind), InProgress',
           UniqueRows(RowsOf(disk')), UniqueKeys(KeysOf(disk')), KeysFollow', Orphans'
    PROVE  IInv'
<1>1. /\ Types /\ Operating /\ view = disk /\ disk \in Content
      /\ disk.subscriber # NoTable /\ disk.others # NoTable
  BY InOperationFacts, Zenon
<1>2. pc' = pc /\ backup' = backup /\ inTx' = inTx /\ version' = version /\ allow' = allow
      /\ torn' = torn /\ failed' = failed
  BY DEF opening
<1>3. Types'
  BY <1>1, <1>2 DEF Types
<1>4. Sound(disk')
  BY <1>1 DEF IInv, Sound
<1>5. torn' = TRUE \/ Exact(disk')
  <2>1. Exact(disk) => Exact(disk')
    BY <1>1 DEF Exact
  <2>2. torn = TRUE \/ Exact(disk)
    BY <1>1, Zenon DEF Operating, AtRest
  <2> QED
    BY <1>2, <2>1, <2>2, Zenon
<1>6. inTx = FALSE
  BY <1>1, Zenon DEF Operating, AtRest, Settled
<1>7. AtRest'
  BY <1>2, <1>5, <1>6, Zenon DEF AtRest, Settled
<1>8. Operating'
  BY <1>7, Zenon DEF Operating
<1>9. FitsUnlessTorn'
  <2>1. failed => torn
    BY Zenon DEF IInv, FitsUnlessTorn
  <2>2. failed' => torn'
    BY <1>2, <2>1
  <2> QED
    BY <2>2, Zenon DEF FitsUnlessTorn
<1>10. pc' # "opening"
  BY <1>2
<1> QED
  BY <1>3, <1>4, <1>8, <1>9, <1>10, Zenon DEF IInv

(* A step that writes nothing, and no deletion was under way. *)
LEMMA StartKeeps ==
    ASSUME IInv, pc \in {"hlr", "import"}, pc # "hlr" \/ todo = <<>>,
           UNCHANGED <<disk, view, pc, left, opening>>, InProgress'
    PROVE  IInv' /\ disk' = disk
<1>1. disk' = disk /\ view' = view /\ left' = left /\ UNCHANGED <<pc, opening>>
  OBVIOUS
<1>2. /\ Types /\ view = disk /\ disk \in Content /\ disk.subscriber # NoTable /\ disk.others # NoTable
      /\ left \in SUBSET ((1..MaxId) \X KeyKind)
  BY InOperationFacts, Zenon
<1>3. /\ UniqueRows(RowsOf(disk')) /\ UniqueKeys(KeysOf(disk'))
      /\ KeysFollow' /\ Orphans'
  <2>1. RowsOf(disk') = RowsOf(disk) /\ KeysOf(disk') = KeysOf(disk) /\ left \subseteq left'
    BY <1>1
  <2> QED
    BY <2>1, SameContent, Zenon
<1>4. /\ disk' \in Content /\ view' = disk' /\ disk'.version = disk.version
      /\ disk'.subscriber # NoTable /\ disk'.others # NoTable
      /\ disk'.subscriber.cols = disk.subscriber.cols
      /\ left' \in SUBSET ((1..MaxId) \X KeyKind)
  BY <1>1, <1>2
<1> QED
  BY <1>1, <1>3, <1>4, OperationKeeps, Zenon

LEMMA StartsStep ==
    ASSUME IInv,
           \/ \E s \in Subscr : subscriber_create(s) \/ import_nitb_subscr(s)
           \/ /\ pc = "hlr"
              /\ \E r \in view.subscriber.rows :
                    \/ subscriber_delete(r)
                    \/ \E kind \in KeyKind : subscriber_aud(r, kind) \/ subscriber_no_aud(r, kind)
    PROVE  IInv' /\ disk' = disk
<1>1. ASSUME NEW s \in Subscr, subscriber_create(s)
      PROVE  IInv' /\ disk' = disk
  <2>1. /\ pc = "hlr" /\ todo = <<>> /\ todo' = <<Stmt("insert_subscr", s)>>
        /\ UNCHANGED <<disk, view, pc, left, opening>>
    BY <1>1, Zenon DEF subscriber_create, Idle, Starts
  <2>2. pc' = "hlr" /\ pc \in {"hlr", "import"}
    BY <2>1
  <2>3. InProgress'
    BY <2>1, <2>2, Zenon DEF InProgress, Importing
  <2> QED
    BY <2>1, <2>2, <2>3, StartKeeps, Zenon
<1>2. ASSUME NEW s \in Subscr, import_nitb_subscr(s)
      PROVE  IInv' /\ disk' = disk
  <2>1. /\ pc = "import" /\ todo = <<>> /\ todo' = <<Stmt("insert_subscr", s), Stmt("import_aud", s)>>
        /\ UNCHANGED <<disk, view, pc, left, opening>>
    BY <1>2, Zenon DEF import_nitb_subscr, Idle, Starts
  <2>2. pc' = "import" /\ pc \in {"hlr", "import"}
    BY <2>1
  <2>3. InProgress'
    BY <2>1, <2>2, Zenon DEF InProgress, Importing
  <2> QED
    BY <2>1, <2>2, <2>3, StartKeeps, Zenon
<1>3. ASSUME pc = "hlr", NEW r \in view.subscriber.rows, subscriber_delete(r)
      PROVE  IInv' /\ disk' = disk
  <2>1. /\ todo = <<>> /\ todo' = db_subscr_delete_by_id(r.id)
        /\ UNCHANGED <<disk, view, pc, left, opening>>
    BY <1>3, Zenon DEF subscriber_delete, Idle, Starts
  <2>2. pc' = "hlr" /\ pc \in {"hlr", "import"} /\ disk' = disk
    BY <1>3, <2>1
  <2>3. r \in RowsOf(disk) /\ r.id \in 1..MaxId
    BY <2>2, InOperationFacts DEF Row
  <2>4. InProgress'
    BY <2>1, <2>2, <2>3, Zenon DEF InProgress, Deleting
  <2> QED
    BY <2>1, <2>2, <2>4, StartKeeps, Zenon
<1>4. ASSUME pc = "hlr", NEW r \in view.subscriber.rows, NEW kind \in KeyKind,
             subscriber_aud(r, kind) \/ subscriber_no_aud(r, kind)
      PROVE  IInv' /\ disk' = disk
  <2>1. /\ todo = <<>>
        /\ todo' \in {<<Delete(r.id, kind)>> \o Aud(r, kind), <<Delete(r.id, kind)>>}
        /\ UNCHANGED <<disk, view, pc, left, opening>>
    <3>1. CASE subscriber_aud(r, kind)
      BY <3>1, Zenon DEF subscriber_aud, Idle, Starts, db_subscr_update_aud_by_id, Delete
    <3>2. CASE subscriber_no_aud(r, kind)
      <4>1. /\ todo = <<>> /\ todo' = <<Delete(r.id, kind)>> \o <<>>
            /\ UNCHANGED <<disk, view, pc, left, opening>>
        BY <3>2, Zenon DEF subscriber_no_aud, Idle, Starts, db_subscr_update_aud_by_id, Delete, NoAud
      <4>2. <<Delete(r.id, kind)>> \in Seq({Delete(r.id, kind)})
        OBVIOUS
      <4>3. todo' = <<Delete(r.id, kind)>>
        BY <4>1, <4>2, ConcatEmptySeq
      <4> QED
        BY <4>1, <4>3, Zenon
    <3> QED
      BY <1>4, <3>1, <3>2
  <2>2. pc' = "hlr" /\ pc \in {"hlr", "import"} /\ disk' = disk
    BY <1>4, <2>1
  <2>3. r \in RowsOf(disk) /\ r.id \in 1..MaxId
    BY <2>2, InOperationFacts DEF Row
  <2>4. Updating(RowsOf(disk))'
    <3>1. pc' # "import"
      BY <2>2
    <3> QED
      BY <2>1, <2>2, <2>3, <3>1, Zenon DEF Updating
  <2>5. InProgress'
    BY <2>2, <2>4 DEF InProgress
  <2> QED
    BY <2>1, <2>2, <2>5, StartKeeps, Zenon
<1> QED
  BY <1>1, <1>2, <1>3, <1>4, Zenon

LEMMA ImportAudStep ==
    ASSUME IInv, import_nitb_subscr_aud
    PROVE  IInv' /\ disk' = disk
<1>1. /\ pc = "import" /\ UNCHANGED <<disk, view, pc, left, opening>>
      /\ \/ todo' = <<>>
         \/ \E r \in view.subscriber.rows : \E aud \in {NoAud, Aud(r, "2g")} :
               todo' = db_subscr_update_aud_by_id(r.id, "2g", aud)
  BY DEF import_nitb_subscr_aud
<1>2. pc' = "import" /\ pc \in {"hlr", "import"} /\ disk' = disk /\ pc # "hlr"
  BY <1>1
<1>3. CASE todo' = <<>>
  BY <1>1, <1>2, <1>3, StartKeeps, Zenon DEF InProgress
<1>4. ASSUME NEW r \in view.subscriber.rows, NEW aud \in {NoAud, Aud(r, "2g")},
             todo' = db_subscr_update_aud_by_id(r.id, "2g", aud)
      PROVE  IInv' /\ disk' = disk
  <2>1. todo' \in {<<Delete(r.id, "2g")>> \o Aud(r, "2g"), <<Delete(r.id, "2g")>>}
    <3>1. todo' = <<Delete(r.id, "2g")>> \o aud
      BY <1>4, Zenon DEF db_subscr_update_aud_by_id, Delete
    <3>2. <<Delete(r.id, "2g")>> \in Seq({Delete(r.id, "2g")})
      OBVIOUS
    <3>3. <<Delete(r.id, "2g")>> \o <<>> = <<Delete(r.id, "2g")>>
      BY <3>2, ConcatEmptySeq
    <3> QED
      BY <3>1, <3>3, Zenon DEF NoAud
  <2>2. r \in RowsOf(disk)
    BY <1>2, InOperationFacts
  <2>3. Updating(RowsOf(disk))'
    <3>1. "2g" \in KeyKind
      BY DEF KeyKind
    <3> QED
      BY <1>2, <2>1, <2>2, <3>1, Zenon DEF Updating, KeyKind
  <2>4. InProgress'
    BY <1>2, <2>3 DEF InProgress
  <2> QED
    BY <1>1, <1>2, <2>4, StartKeeps, Zenon
<1> QED
  BY <1>1, <1>3, <1>4, Zenon

(* What an opening, an interruption or an import may never do. *)
Kept ==
    /\ RowsOf(disk) \subseteq RowsOf(disk') \/ pc = "hlr"
    /\ \A k \in KeysOf(disk) \ KeysOf(disk') : pc = "hlr" \/ (pc = "import" /\ k.kind = "2g")

(* What follows for the file when the rows, or the keys, are replaced. *)
LEMMA RowsReplaced ==
    ASSUME NEW c \in Content, c.subscriber # NoTable, c.others # NoTable, NEW rows \in SUBSET Row
    PROVE  LET d == [c EXCEPT !.subscriber.rows = rows]
           IN  /\ d \in Content /\ d.version = c.version
               /\ d.subscriber # NoTable /\ d.others # NoTable
               /\ d.subscriber.cols = c.subscriber.cols
               /\ RowsOf(d) = rows /\ KeysOf(d) = KeysOf(c)
<1> DEFINE t == [c.subscriber EXCEPT !.rows = rows]
           d == [c EXCEPT !.subscriber.rows = rows]
<1>1. c.subscriber \in Table
  BY ContentParts
<1>2. t \in Table /\ t.rows = rows /\ t.cols = c.subscriber.cols
  BY <1>1 DEF Table
<1>3. d = [c EXCEPT !.subscriber = t]
  OBVIOUS
<1> HIDE DEF t, d
<1>4. d \in Content /\ d.version = c.version /\ d.subscriber = t /\ d.others = c.others
  BY <1>2, <1>3, ContentExcept
<1>5. t # NoTable
  BY <1>2, TablesAre
<1>6. RowsOf(d) = rows /\ KeysOf(d) = KeysOf(c)
  BY <1>2, <1>4, <1>5 DEF RowsOf, KeysOf
<1>7. /\ d \in Content /\ d.version = c.version
      /\ d.subscriber # NoTable /\ d.others # NoTable
      /\ d.subscriber.cols = c.subscriber.cols
  BY <1>2, <1>4, <1>5
<1> QED
  BY <1>6, <1>7 DEF d

LEMMA KeysReplaced ==
    ASSUME NEW c \in Content, c.subscriber # NoTable, c.others # NoTable, NEW keys \in SUBSET Key
    PROVE  LET d == [c EXCEPT !.others = keys]
           IN  /\ d \in Content /\ d.version = c.version
               /\ d.subscriber # NoTable /\ d.others # NoTable
               /\ d.subscriber.cols = c.subscriber.cols
               /\ RowsOf(d) = RowsOf(c) /\ KeysOf(d) = keys
<1> DEFINE d == [c EXCEPT !.others = keys]
<1>1. d \in Content /\ d.version = c.version /\ d.subscriber = c.subscriber /\ d.others = keys
  BY ContentExcept
<1>2. keys # NoTable
  BY NoTableAssumption
<1> HIDE DEF d
<1>3. RowsOf(d) = RowsOf(c) /\ KeysOf(d) = keys
  BY <1>1, <1>2 DEF RowsOf, KeysOf
<1>4. /\ d \in Content /\ d.version = c.version
      /\ d.subscriber # NoTable /\ d.others # NoTable
      /\ d.subscriber.cols = c.subscriber.cols
  BY <1>1, <1>2
<1> QED
  BY <1>3, <1>4 DEF d

(* A key is deleted. *)
LEMMA DeleteKeyDone ==
    ASSUME IInv, StepDone, NEW id \in 1..MaxId, NEW kind \in KeyKind, NEW rest,
           Head(todo) = Delete(id, kind), Tail(todo) = rest,
           \A st \in ToSet(todo) : st = Delete(id, kind) \/ st \in ToSet(rest)
    PROVE  /\ pc' = pc /\ todo' = rest /\ RowsOf(disk') = RowsOf(disk)
           /\ KeysOf(disk') = {k \in KeysOf(disk) : <<k.id, k.kind>> # <<id, kind>>}
           /\ InProgress' => IInv'
<1> DEFINE st == Delete(id, kind)
           keys == {k \in disk.others : <<k.id, k.kind>> # <<id, kind>>}
<1>1. st.op = "delete_key" /\ st.arg = <<id, kind>>
  BY DEF Delete, Stmt
<1>2. /\ pc \in {"hlr", "import"} /\ view' \in Written(st) /\ disk' = view' /\ todo' = rest
      /\ left' = left \ {<<id, kind>>} /\ UNCHANGED <<pc, opening>>
  BY <1>1 DEF StepDone, InOperation
<1> HIDE DEF st
<1>3. /\ view = disk /\ disk \in Content /\ disk.subscriber # NoTable /\ disk.others # NoTable
      /\ KeysOf(disk) = disk.others /\ KeysOf(disk) \in SUBSET Key
      /\ left \in SUBSET ((1..MaxId) \X KeyKind)
  BY <1>2, InOperationFacts, Zenon
<1>4. disk' = [disk EXCEPT !.others = keys]
  BY <1>1, <1>2, <1>3 DEF Written
<1>5. keys \in SUBSET Key
  BY <1>3
<1> HIDE DEF keys
<1>6. /\ disk' \in Content /\ disk'.version = disk.version
      /\ disk'.subscriber # NoTable /\ disk'.others # NoTable
      /\ disk'.subscriber.cols = disk.subscriber.cols
      /\ RowsOf(disk') = RowsOf(disk) /\ KeysOf(disk') = keys
  BY <1>3, <1>4, <1>5, KeysReplaced
<1>7. KeysOf(disk') = {k \in KeysOf(disk) : <<k.id, k.kind>> # <<id, kind>>}
  BY <1>3, <1>6 DEF keys
<1>8. UniqueRows(RowsOf(disk'))
  BY <1>6, Zenon DEF IInv
<1>9. UniqueKeys(KeysOf(disk'))
  BY <1>7 DEF IInv, UniqueKeys
<1>10. KeysFollow'
  <2> SUFFICES ASSUME NEW r \in RowsOf(disk), NEW k \in KeysOf(disk), <<k.id, k.kind>> # <<id, kind>>,
                      k.id = r.id
               PROVE  k.owner = r.imsi \/ <<k.id, k.kind>> \in left'
    BY <1>6, <1>7 DEF KeysFollow
  <2>1. k.owner = r.imsi \/ <<k.id, k.kind>> \in left
    BY DEF IInv, KeysFollow
  <2> QED
    BY <1>2, <2>1
<1>11. Orphans'
  <2> SUFFICES ASSUME NEW k \in KeysOf(disk), <<k.id, k.kind>> # <<id, kind>>,
                      ~\E r \in RowsOf(disk) : r.id = k.id
               PROVE  <<k.id, k.kind>> \in left' \/ (pc' = "hlr" /\ Delete(k.id, k.kind) \in ToSet(todo'))
    BY <1>6, <1>7 DEF Orphans, Delete
  <2>1. <<k.id, k.kind>> \in left \/ (pc = "hlr" /\ Delete(k.id, k.kind) \in ToSet(todo))
    BY DEF IInv, Orphans
  <2>2. Delete(k.id, k.kind) # Delete(id, kind)
    BY DEF Delete, Stmt
  <2>3. Delete(k.id, k.kind) \in ToSet(todo) => Delete(k.id, k.kind) \in ToSet(rest)
    BY <2>2
  <2>4. <<k.id, k.kind>> \in left => <<k.id, k.kind>> \in left'
    BY <1>2
  <2>5. pc' = pc /\ todo' = rest
    BY <1>2
  <2> QED
    BY <2>1, <2>3, <2>4, <2>5, Zenon
<1>12. left' \in SUBSET ((1..MaxId) \X KeyKind)
  BY <1>2, <1>3
<1>13. InProgress' => IInv'
  BY <1>2, <1>6, <1>8, <1>9, <1>10, <1>11, <1>12, OperationKeeps, Zenon
<1>14. pc' = pc
  BY <1>2
<1> QED
  BY <1>2, <1>6, <1>7, <1>13, <1>14, Zenon

(* The row of a subscriber is deleted: its keys are next. *)
LEMMA DeleteSubscrDone ==
    ASSUME IInv, StepDone, NEW id \in 1..MaxId, pc = "hlr",
           todo = <<Stmt("delete_subscr", id), Delete(id, "2g"), Delete(id, "3g")>>
    PROVE  IInv'
<1> DEFINE st == Stmt("delete_subscr", id)
           rows == {r \in disk.subscriber.rows : r.id # id}
           rest == <<Delete(id, "2g"), Delete(id, "3g")>>
<1>1. st.op = "delete_subscr" /\ st.arg = id
  BY DEF Stmt
<1>2. Head(todo) = st /\ Tail(todo) = rest
  OBVIOUS
<1>3. ToSet(todo) = {st, Delete(id, "2g"), Delete(id, "3g")} /\ ToSet(rest) = {Delete(id, "2g"), Delete(id, "3g")}
  BY ToSetIs
<1> HIDE DEF st, rest
<1>4. /\ pc \in {"hlr", "import"} /\ view' \in Written(st) /\ disk' = view' /\ todo' = rest
      /\ left' = left /\ UNCHANGED <<pc, opening>>
  BY <1>1, <1>2 DEF StepDone, InOperation
<1>5. /\ view = disk /\ disk \in Content /\ disk.subscriber # NoTable /\ disk.others # NoTable
      /\ RowsOf(disk) = disk.subscriber.rows /\ RowsOf(disk) \in SUBSET Row /\ KeysOf(disk) \in SUBSET Key
      /\ left \in SUBSET ((1..MaxId) \X KeyKind)
  BY <1>4, InOperationFacts, Zenon
<1>6. disk' = [disk EXCEPT !.subscriber.rows = rows]
  BY <1>1, <1>4, <1>5 DEF Written
<1>7. rows \in SUBSET Row /\ rows = {r \in RowsOf(disk) : r.id # id}
  BY <1>5
<1> HIDE DEF rows
<1>8. /\ disk' \in Content /\ disk'.version = disk.version
      /\ disk'.subscriber # NoTable /\ disk'.others # NoTable
      /\ disk'.subscriber.cols = disk.subscriber.cols
      /\ RowsOf(disk') = rows /\ KeysOf(disk') = KeysOf(disk)
  BY <1>5, <1>6, <1>7, RowsReplaced
<1>9. UniqueRows(RowsOf(disk')) /\ UniqueKeys(KeysOf(disk'))
  <2>1. UniqueRows(RowsOf(disk')) 
    BY <1>7, <1>8 DEF IInv, UniqueRows
  <2>2. UniqueKeys(KeysOf(disk'))
    BY <1>8, Zenon DEF IInv
  <2> QED
    BY <2>1, <2>2
<1>10. KeysFollow'
  BY <1>4, <1>7, <1>8 DEF IInv, KeysFollow
<1>11. pc' = "hlr"
  BY <1>4
<1>12. Orphans'
  <2> SUFFICES ASSUME NEW k \in KeysOf(disk), ~\E r \in rows : r.id = k.id
               PROVE  <<k.id, k.kind>> \in left' \/ Delete(k.id, k.kind) \in ToSet(todo')
    BY <1>8, <1>11 DEF Orphans, Delete
  <2>1. k.kind \in {"2g", "3g"}
    BY <1>5 DEF Key, KeyKind
  <2>2. CASE k.id = id
    <3>1. Delete(k.id, k.kind) \in ToSet(rest)
      BY <1>3, <2>1, <2>2
    <3> QED
      BY <1>4, <3>1
  <2>3. CASE k.id # id
    <3>1. ~\E r \in RowsOf(disk) : r.id = k.id
      BY <1>7, <2>3
    <3>2. <<k.id, k.kind>> \in left \/ Delete(k.id, k.kind) \in ToSet(todo)
      BY <3>1 DEF IInv, Orphans
    <3>3. Delete(k.id, k.kind) # st
      BY <1>1 DEF Delete, Stmt
    <3>4. Delete(k.id, k.kind) \in ToSet(todo) => Delete(k.id, k.kind) \in ToSet(rest)
      BY <1>3, <3>3
    <3> QED
      BY <1>4, <3>2, <3>4, Zenon
  <2> QED
    BY <2>2, <2>3
<1>13. InProgress'
  <2>1. \A r \in RowsOf(disk') : r.id # id
    BY <1>7, <1>8
  <2>2. Deleting(RowsOf(disk))'
    BY <1>4, <2>1, Zenon DEF Deleting, rest, Delete
  <2> QED
    BY <1>11, <2>2, Zenon DEF InProgress
<1>14. left' \in SUBSET ((1..MaxId) \X KeyKind) /\ view' = disk'
  BY <1>4, <1>5
<1> QED
  BY <1>4, <1>8, <1>9, <1>10, <1>12, <1>13, <1>14, OperationKeeps, Zenon

(* A key is stored for the row that has its id. *)
LEMMA InsertKeyDone ==
    ASSUME IInv, StepDone, NEW r \in RowsOf(disk), NEW kind \in KeyKind, todo = Aud(r, kind)
    PROVE  IInv' /\ RowsOf(disk') = RowsOf(disk) /\ KeysOf(disk) \subseteq KeysOf(disk')
<1> DEFINE key == [id |-> r.id, kind |-> kind, owner |-> r.imsi]
           st == Stmt("insert_key", key)
           keys == disk.others \cup {key}
<1>1. st.op = "insert_key" /\ st.arg = key
  BY DEF Stmt
<1>2. Head(todo) = st /\ Tail(todo) = <<>>
  BY DEF Aud
<1>3. ToSet(todo) = {st}
  BY ToSetIs DEF Aud
<1> HIDE DEF st
<1>4. /\ pc \in {"hlr", "import"} /\ view' \in Written(st) /\ disk' = view' /\ todo' = <<>>
      /\ left' = left /\ UNCHANGED <<pc, opening>>
  BY <1>1, <1>2 DEF StepDone, InOperation
<1>5. /\ view = disk /\ disk \in Content /\ disk.subscriber # NoTable /\ disk.others # NoTable
      /\ KeysOf(disk) = disk.others /\ RowsOf(disk) \in SUBSET Row /\ KeysOf(disk) \in SUBSET Key
      /\ left \in SUBSET ((1..MaxId) \X KeyKind)
  BY <1>4, InOperationFacts, Zenon
<1>6. key \in Key /\ key.id = r.id /\ key.kind = kind /\ key.owner = r.imsi
  BY <1>5 DEF Key, Row
<1> HIDE DEF key
<1>7. /\ disk' = [disk EXCEPT !.others = keys]
      /\ ~\E k \in KeysOf(disk) : k.id = key.id /\ k.kind = key.kind
  BY <1>1, <1>4, <1>5 DEF Written
<1>8. keys \in SUBSET Key /\ keys = KeysOf(disk) \cup {key}
  BY <1>5, <1>6
<1> HIDE DEF keys
<1>9. /\ disk' \in Content /\ disk'.version = disk.version
      /\ disk'.subscriber # NoTable /\ disk'.others # NoTable
      /\ disk'.subscriber.cols = disk.subscriber.cols
      /\ RowsOf(disk') = RowsOf(disk) /\ KeysOf(disk') = keys
  BY <1>5, <1>7, <1>8, KeysReplaced
<1>10. UniqueRows(RowsOf(disk'))
  BY <1>9, Zenon DEF IInv
<1>11. UniqueKeys(KeysOf(disk'))
  <2> SUFFICES ASSUME NEW k \in KeysOf(disk'), NEW l \in KeysOf(disk'), k.id = l.id /\ k.kind = l.kind
               PROVE  k = l
    BY DEF UniqueKeys
  <2>1. (k \in KeysOf(disk) \/ k = key) /\ (l \in KeysOf(disk) \/ l = key)
    BY <1>8, <1>9
  <2>2. CASE k \in KeysOf(disk) /\ l \in KeysOf(disk)
    BY <2>2 DEF IInv, UniqueKeys
  <2>3. CASE k = key \/ l = key
    BY <1>7, <2>1, <2>3
  <2> QED
    BY <2>1, <2>2, <2>3
<1>12. KeysFollow'
  <2>1. ASSUME NEW q \in RowsOf(disk), q.id = key.id
        PROVE  key.owner = q.imsi
    <3>1. q = r
      BY <1>6, <2>1 DEF IInv, UniqueRows
    <3> QED
      BY <1>6, <3>1
  <2> QED
    BY <1>4, <1>8, <1>9, <2>1 DEF IInv, KeysFollow
<1>13. Orphans'
  <2> SUFFICES ASSUME NEW k \in keys
               PROVE  (\E q \in RowsOf(disk) : q.id = k.id) \/ <<k.id, k.kind>> \in left'
    BY <1>9 DEF Orphans, Delete
  <2>1. CASE k = key
    BY <1>6, <2>1
  <2>2. CASE k \in KeysOf(disk)
    <3>1. \/ \E q \in RowsOf(disk) : q.id = k.id
          \/ <<k.id, k.kind>> \in left
          \/ Delete(k.id, k.kind) \in ToSet(todo)
      BY <2>2 DEF IInv, Orphans
    <3>2. Delete(k.id, k.kind) # st
      BY <1>1 DEF Delete, Stmt
    <3> QED
      BY <1>3, <1>4, <3>1, <3>2
  <2> QED
    BY <1>8, <2>1, <2>2
<1>14. InProgress'
  BY <1>4, Zenon DEF InProgress
<1>15. left' \in SUBSET ((1..MaxId) \X KeyKind) /\ view' = disk' /\ KeysOf(disk) \subseteq KeysOf(disk')
  BY <1>4, <1>5, <1>8, <1>9
<1> QED
  BY <1>4, <1>9, <1>10, <1>11, <1>12, <1>13, <1>14, <1>15, OperationKeeps, Zenon

(* A new id is above all that are in use. *)
LEMMA NewIdIs ==
    ASSUME NEW rows \in SUBSET Row
    PROVE  NewId(rows) \in Nat \ {0} /\ \A r \in rows : r.id < NewId(rows)
<1> DEFINE T == {0} \cup {r.id : r \in rows}
<1>1. T \in SUBSET (0..MaxId) /\ T # {} /\ MaxId \in Nat
  BY MaxIdAssumption DEF Row
<1>2. \A r \in rows : r.id \in T
  OBVIOUS
<1>3. NewId(rows) = 1 + Max(T)
  BY DEF NewId
<1> HIDE DEF T
<1>4. Max(T) \in T /\ \A y \in T : y <= Max(T)
  BY <1>1, MaxIs
<1>5. Max(T) \in Nat /\ \A r \in rows : r.id \in Nat
  <2>1. \A y \in T : y \in Nat
    BY <1>1
  <2> QED
    BY <1>2, <1>4, <2>1, Zenon
<1> QED
  BY <1>2, <1>3, <1>4, <1>5

(* A subscriber is made: what key is found by its id is one that a         *)
(* deletion left behind.                                                   *)
LEMMA InsertSubscrDone ==
    ASSUME IInv, StepDone, NEW s \in Subscr, NEW rest, Head(todo) = Stmt("insert_subscr", s), Tail(todo) = rest,
           \A k \in KeysOf(disk) : Delete(k.id, k.kind) \notin ToSet(todo)
    PROVE  /\ pc' = pc /\ todo' = rest
           /\ RowsOf(disk) \subseteq RowsOf(disk') /\ KeysOf(disk') = KeysOf(disk)
           /\ InProgress' => IInv'
<1> DEFINE st == Stmt("insert_subscr", s)
           id == NewId(disk.subscriber.rows)
           row == [id |-> id, imsi |-> s]
           rows == disk.subscriber.rows \cup {row}
<1>1. st.op = "insert_subscr" /\ st.arg = s
  BY DEF Stmt
<1> HIDE DEF st
<1>2. /\ pc \in {"hlr", "import"} /\ view' \in Written(st) /\ disk' = view' /\ todo' = rest
      /\ left' = left /\ UNCHANGED <<pc, opening>>
  <2>1. Head(todo) = st
    BY DEF st
  <2> QED
    BY <1>1, <2>1 DEF StepDone, InOperation
<1>3. /\ view = disk /\ disk \in Content /\ disk.subscriber # NoTable /\ disk.others # NoTable
      /\ RowsOf(disk) = disk.subscriber.rows /\ RowsOf(disk) \in SUBSET Row /\ KeysOf(disk) \in SUBSET Key
      /\ left \in SUBSET ((1..MaxId) \X KeyKind)
  BY <1>2, InOperationFacts, Zenon
<1>4. /\ disk' = [disk EXCEPT !.subscriber.rows = rows]
      /\ ~(id > MaxId) /\ ~\E r \in RowsOf(disk) : r.imsi = s
  BY <1>1, <1>2, <1>3 DEF Written
<1>5. id \in Nat \ {0} /\ \A r \in RowsOf(disk) : r.id < id
  BY <1>3, NewIdIs
<1> HIDE DEF id
<1>6. id \in 1..MaxId
  BY <1>4, <1>5, MaxIdAssumption
<1>7. row \in Row /\ row.id = id /\ row.imsi = s
  BY <1>6 DEF Row
<1> HIDE DEF row
<1>8. rows \in SUBSET Row /\ rows = RowsOf(disk) \cup {row}
  BY <1>3, <1>7
<1> HIDE DEF rows
<1>9. /\ disk' \in Content /\ disk'.version = disk.version
      /\ disk'.subscriber # NoTable /\ disk'.others # NoTable
      /\ disk'.subscriber.cols = disk.subscriber.cols
      /\ RowsOf(disk') = rows /\ KeysOf(disk') = KeysOf(disk)
  BY <1>3, <1>4, <1>8, RowsReplaced
<1>10. \A r \in RowsOf(disk) : r.id # id /\ r.imsi # s
  <2>1. \A r \in RowsOf(disk) : r.id \in Nat
    BY <1>3 DEF Row
  <2> QED
    BY <1>4, <1>5, <2>1
<1>11. UniqueRows(RowsOf(disk')) /\ UniqueKeys(KeysOf(disk'))
  <2>1. UniqueRows(RowsOf(disk'))
    BY <1>7, <1>8, <1>9, <1>10 DEF IInv, UniqueRows
  <2>2. UniqueKeys(KeysOf(disk'))
    BY <1>9, Zenon DEF IInv
  <2> QED
    BY <2>1, <2>2
<1>12. KeysFollow'
  <2>1. ASSUME NEW k \in KeysOf(disk), k.id = row.id
        PROVE  <<k.id, k.kind>> \in left
    BY <1>7, <1>10, <2>1 DEF IInv, Orphans
  <2> QED
    BY <1>2, <1>8, <1>9, <2>1 DEF IInv, KeysFollow
<1>13. Orphans'
  <2>1. ASSUME NEW k \in KeysOf(disk)
        PROVE  (\E r \in rows : r.id = k.id) \/ <<k.id, k.kind>> \in left'
    BY <1>2, <1>8 DEF IInv, Orphans
  <2> QED
    BY <1>9, <2>1 DEF Orphans, Delete
<1>14. left' \in SUBSET ((1..MaxId) \X KeyKind) /\ view' = disk' /\ RowsOf(disk) \subseteq RowsOf(disk') /\ pc' = pc
  BY <1>2, <1>3, <1>8, <1>9
<1> QED
  BY <1>2, <1>9, <1>11, <1>12, <1>13, <1>14, OperationKeeps, Zenon

(* sqlite3_step() is done. *)
LEMMA StepDoneStep ==
    ASSUME IInv, StepDone
    PROVE  IInv' /\ Kept
<1>1. pc \in {"hlr", "import"} /\ todo # <<>> /\ Head(todo).op # "import_aud"
  BY DEF StepDone, InOperation
<1>2. InProgress /\ RowsOf(disk) \in SUBSET Row /\ KeysOf(disk) \in SUBSET Key
  BY <1>1, InOperationFacts, Zenon
<1>3. "2g" \in KeyKind /\ "3g" \in KeyKind
  BY DEF KeyKind
<1>4. ASSUME pc = "hlr", Deleting(RowsOf(disk))
      PROVE  IInv' /\ Kept
  <2>1. Kept
    BY <1>4 DEF Kept
  <2>2. PICK id \in 1..MaxId :
           \/ todo = db_subscr_delete_by_id(id)
           \/ /\ todo \in {<<Delete(id, "2g"), Delete(id, "3g")>>, <<Delete(id, "3g")>>}
              /\ \A r \in RowsOf(disk) : r.id # id
    BY <1>4, Zenon DEF Deleting
  <2>3. CASE todo = db_subscr_delete_by_id(id)
    <3>1. todo = <<Stmt("delete_subscr", id), Delete(id, "2g"), Delete(id, "3g")>>
      BY <2>3 DEF db_subscr_delete_by_id, Delete
    <3> QED
      BY <1>4, <2>1, <3>1, DeleteSubscrDone, Zenon
  <2>4. CASE todo = <<Delete(id, "2g"), Delete(id, "3g")>> /\ \A r \in RowsOf(disk) : r.id # id
    <3>1. Head(todo) = Delete(id, "2g") /\ Tail(todo) = <<Delete(id, "3g")>>
      BY <2>4
    <3>2. \A st \in ToSet(todo) : st = Delete(id, "2g") \/ st \in ToSet(<<Delete(id, "3g")>>)
      BY <2>4, ToSetIs
    <3>3. pc' = pc /\ todo' = <<Delete(id, "3g")>> /\ RowsOf(disk') = RowsOf(disk) /\ (InProgress' => IInv')
      BY <1>3, <3>1, <3>2, DeleteKeyDone, Zenon
    <3>4. Deleting(RowsOf(disk))'
      BY <2>4, <3>3, Zenon DEF Deleting, Delete
    <3>5. InProgress'
      BY <1>4, <3>3, <3>4, Zenon DEF InProgress
    <3> QED
      BY <2>1, <3>3, <3>5, Zenon
  <2>5. CASE todo = <<Delete(id, "3g")>>
    <3>1. Head(todo) = Delete(id, "3g") /\ Tail(todo) = <<>>
      BY <2>5
    <3>2. \A st \in ToSet(todo) : st = Delete(id, "3g") \/ st \in ToSet(<<>>)
      BY <2>5, ToSetIs
    <3>3. todo' = <<>> /\ (InProgress' => IInv')
      BY <1>3, <3>1, <3>2, DeleteKeyDone, Zenon
    <3> QED
      BY <2>1, <3>3, Zenon DEF InProgress
  <2> QED
    BY <2>2, <2>3, <2>4, <2>5, Zenon
<1>5. ASSUME Updating(RowsOf(disk))
      PROVE  IInv' /\ Kept
  <2>1. PICK r \in RowsOf(disk), kind \in KeyKind :
           /\ pc = "import" => kind = "2g"
           /\ todo \in {<<Delete(r.id, kind)>> \o Aud(r, kind), <<Delete(r.id, kind)>>, Aud(r, kind)}
    BY <1>5, Zenon DEF Updating
  <2>2. r.id \in 1..MaxId
    BY <1>2 DEF Row
  <2>3. CASE todo = <<Delete(r.id, kind)>> \o Aud(r, kind)
    <3> DEFINE ins == Stmt("insert_key", [id |-> r.id, kind |-> kind, owner |-> r.imsi])
    <3>1. Aud(r, kind) = <<ins>>
      BY DEF Aud
    <3> HIDE DEF ins
    <3>2. todo = <<Delete(r.id, kind), ins>>
      BY <2>3, <3>1, PairIs, Zenon
    <3>3. Head(todo) = Delete(r.id, kind) /\ Tail(todo) = Aud(r, kind)
      BY <3>1, <3>2
    <3>4. \A st \in ToSet(todo) : st = Delete(r.id, kind) \/ st \in ToSet(Aud(r, kind))
      BY <3>1, <3>2, ToSetIs
    <3>5. /\ pc' = pc /\ todo' = Aud(r, kind) /\ RowsOf(disk') = RowsOf(disk)
          /\ KeysOf(disk') = {k \in KeysOf(disk) : <<k.id, k.kind>> # <<r.id, kind>>}
          /\ InProgress' => IInv'
      BY <2>2, <3>3, <3>4, DeleteKeyDone, Zenon
    <3>6. Updating(RowsOf(disk))'
      BY <2>1, <3>5, Zenon DEF Updating, Aud, Delete, KeyKind
    <3>7. InProgress'
      BY <1>1, <3>5, <3>6, Zenon DEF InProgress
    <3>8. Kept
      BY <1>1, <2>1, <3>5 DEF Kept
    <3> QED
      BY <3>5, <3>7, <3>8, Zenon
  <2>4. CASE todo = <<Delete(r.id, kind)>>
    <3>1. Head(todo) = Delete(r.id, kind) /\ Tail(todo) = <<>>
      BY <2>4
    <3>2. \A st \in ToSet(todo) : st = Delete(r.id, kind) \/ st \in ToSet(<<>>)
      BY <2>4, ToSetIs
    <3>3. /\ todo' = <<>> /\ RowsOf(disk') = RowsOf(disk)
          /\ KeysOf(disk') = {k \in KeysOf(disk) : <<k.id, k.kind>> # <<r.id, kind>>}
          /\ InProgress' => IInv'
      BY <2>2, <3>1, <3>2, DeleteKeyDone, Zenon
    <3>4. Kept
      BY <1>1, <2>1, <3>3 DEF Kept
    <3> QED
      BY <3>3, <3>4, Zenon DEF InProgress
  <2>5. CASE todo = Aud(r, kind)
    <3>1. IInv' /\ RowsOf(disk') = RowsOf(disk) /\ KeysOf(disk) \subseteq KeysOf(disk')
      BY <2>5, InsertKeyDone, Zenon
    <3>2. Kept
      BY <3>1 DEF Kept
    <3> QED
      BY <3>1, <3>2, Zenon
  <2> QED
    BY <2>1, <2>3, <2>4, <2>5, Zenon
<1>6. ASSUME Importing
      PROVE  IInv' /\ Kept
  <2>1. PICK s \in Subscr :
           \/ todo = <<Stmt("insert_subscr", s)>> /\ pc = "hlr"
           \/ /\ todo \in {<<Stmt("insert_subscr", s), Stmt("import_aud", s)>>, <<Stmt("import_aud", s)>>}
              /\ pc = "import"
    BY <1>6, Zenon DEF Importing
  <2>2. /\ Stmt("insert_subscr", s).op = "insert_subscr" /\ Stmt("import_aud", s).op = "import_aud"
        /\ \A id, kind : Delete(id, kind).op = "delete_key"
    BY DEF Stmt, Delete
  <2>3. CASE todo = <<Stmt("insert_subscr", s)>>
    <3>1. Head(todo) = Stmt("insert_subscr", s) /\ Tail(todo) = <<>>
      BY <2>3
    <3>2. \A k \in KeysOf(disk) : Delete(k.id, k.kind) \notin ToSet(todo)
      BY <2>2, <2>3, ToSetIs
    <3>3. /\ todo' = <<>> /\ RowsOf(disk) \subseteq RowsOf(disk') /\ KeysOf(disk') = KeysOf(disk)
          /\ InProgress' => IInv'
      BY <3>1, <3>2, InsertSubscrDone, Zenon
    <3>4. Kept
      BY <3>3 DEF Kept
    <3> QED
      BY <3>3, <3>4, Zenon DEF InProgress
  <2>4. CASE todo = <<Stmt("insert_subscr", s), Stmt("import_aud", s)>> /\ pc = "import"
    <3>1. Head(todo) = Stmt("insert_subscr", s) /\ Tail(todo) = <<Stmt("import_aud", s)>>
      BY <2>4
    <3>2. \A k \in KeysOf(disk) : Delete(k.id, k.kind) \notin ToSet(todo)
      BY <2>2, <2>4, ToSetIs
    <3>3. /\ pc' = pc /\ todo' = <<Stmt("import_aud", s)>>
          /\ RowsOf(disk) \subseteq RowsOf(disk') /\ KeysOf(disk') = KeysOf(disk)
          /\ InProgress' => IInv'
      BY <3>1, <3>2, InsertSubscrDone, Zenon
    <3>4. Kept
      BY <3>3 DEF Kept
    <3>5. Importing'
      BY <2>4, <3>3, Zenon DEF Importing
    <3> QED
      BY <3>3, <3>4, <3>5, Zenon DEF InProgress
  <2>5. todo # <<Stmt("import_aud", s)>>
    <3>1. Head(<<Stmt("import_aud", s)>>) = Stmt("import_aud", s)
      OBVIOUS
    <3> QED
      BY <1>1, <2>2, <3>1, Zenon
  <2> QED
    BY <2>1, <2>3, <2>4, <2>5, Zenon
<1> QED
  BY <1>1, <1>2, <1>4, <1>5, <1>6, Zenon DEF InProgress

(* The statement to run is one of those to run. *)
LEMMA HeadInTodo ==
    ASSUME Types, Operating, todo # <<>>
    PROVE  Head(todo) \in ToSet(todo)
<1>1. \A a : Head(<<a>>) \in ToSet(<<a>>)
  BY ToSetIs
<1>2. \A a, b : Head(<<a, b>>) \in ToSet(<<a, b>>)
  BY ToSetIs
<1>3. \A a, b, c : Head(<<a, b, c>>) \in ToSet(<<a, b, c>>)
  BY ToSetIs
<1>4. CASE Deleting(RowsOf(disk))
  BY <1>1, <1>2, <1>3, <1>4, Zenon DEF Deleting, db_subscr_delete_by_id
<1>5. CASE Updating(RowsOf(disk))
  BY <1>1, <1>2, <1>5, PairIs, Zenon DEF Updating, Aud
<1>6. CASE Importing
  BY <1>1, <1>2, <1>6, Zenon DEF Importing
<1> QED
  BY <1>4, <1>5, <1>6, Zenon DEF Operating, InProgress

(* A step that fails writes nothing, and what was to be deleted is still   *)
(* to be deleted, or counted as left.                                      *)
LEMMA FailKeeps ==
    ASSUME IInv, StepFails, InProgress',
           \A k \in KeysOf(disk) :
              (\A r \in RowsOf(disk) : r.id # k.id) /\ Delete(k.id, k.kind) \in ToSet(todo)
                 => Delete(k.id, k.kind) = Head(todo) \/ Delete(k.id, k.kind) \in ToSet(todo')
    PROVE  IInv'
<1>1. /\ pc \in {"hlr", "import"} /\ todo # <<>>
      /\ left' = left \cup LeftBy(<<Head(todo)>>)
      /\ disk' = disk /\ view' = view /\ UNCHANGED <<pc, opening>> /\ pc' = pc
  BY DEF StepFails, InOperation
<1>2. /\ Types /\ Operating /\ view = disk /\ disk \in Content /\ disk.subscriber # NoTable /\ disk.others # NoTable
      /\ RowsOf(disk) = disk.subscriber.rows /\ KeysOf(disk) \in SUBSET Key
      /\ ToSet(todo) \subseteq OperationStmt
      /\ left \in SUBSET ((1..MaxId) \X KeyKind)
  BY <1>1, InOperationFacts, Zenon
<1>3. ToSet(<<Head(todo)>>) = {Head(todo)} /\ Head(todo) \in OperationStmt
  <2>1. Head(todo) \in ToSet(todo)
    BY <1>1, <1>2, HeadInTodo, Zenon
  <2>2. Head(todo) \in OperationStmt
    BY <1>1, <1>2, <2>1
  <2> QED
    BY <2>2, ToSetIs, Zenon
<1>4. /\ LeftBy(<<Head(todo)>>) \subseteq (1..MaxId) \X KeyKind
      /\ \A id \in 1..MaxId, kind \in KeyKind :
            Delete(id, kind) = Head(todo) /\ (\A r \in view.subscriber.rows : r.id # id)
               => <<id, kind>> \in LeftBy(<<Head(todo)>>)
  <2>1. ToSet(<<Head(todo)>>) \subseteq OperationStmt
    BY <1>3
  <2>2. /\ LeftBy(<<Head(todo)>>) \subseteq (1..MaxId) \X KeyKind
        /\ \A id \in 1..MaxId, kind \in KeyKind :
              Delete(id, kind) \in ToSet(<<Head(todo)>>) /\ (\A r \in view.subscriber.rows : r.id # id)
                 => <<id, kind>> \in LeftBy(<<Head(todo)>>)
    BY <2>1, LeftByIs, Zenon
  <2> QED
    BY <1>3, <2>2
<1>5. left' \in SUBSET ((1..MaxId) \X KeyKind) /\ left \subseteq left'
  BY <1>1, <1>2, <1>4
<1>6. UniqueRows(RowsOf(disk')) /\ UniqueKeys(KeysOf(disk'))
  BY <1>1, Zenon DEF IInv
<1>7. KeysFollow'
  BY <1>1, <1>5 DEF IInv, KeysFollow
<1>8. Orphans'
  <2> SUFFICES ASSUME NEW k \in KeysOf(disk), \A r \in RowsOf(disk) : r.id # k.id
               PROVE  <<k.id, k.kind>> \in left' \/ (pc' = "hlr" /\ Delete(k.id, k.kind) \in ToSet(todo'))
    BY <1>1 DEF Orphans, Delete
  <2>1. <<k.id, k.kind>> \in left \/ (pc = "hlr" /\ Delete(k.id, k.kind) \in ToSet(todo))
    BY DEF IInv, Orphans
  <2>2. k.id \in 1..MaxId /\ k.kind \in KeyKind
    BY <1>2 DEF Key
  <2>3. Delete(k.id, k.kind) = Head(todo) => <<k.id, k.kind>> \in left'
    BY <1>1, <1>2, <1>4, <2>2
  <2>4. <<k.id, k.kind>> \in left => <<k.id, k.kind>> \in left'
    BY <1>5
  <2> QED
    BY <1>1, <2>1, <2>3, <2>4, Zenon
<1>9. /\ disk' \in Content /\ view' = disk' /\ disk'.version = disk.version
      /\ disk'.subscriber # NoTable /\ disk'.others # NoTable
      /\ disk'.subscriber.cols = disk.subscriber.cols
  BY <1>1, <1>2
<1> QED
  BY <1>1, <1>5, <1>6, <1>7, <1>8, <1>9, OperationKeeps, Zenon

LEMMA StepFailsStep ==
    ASSUME IInv, StepFails
    PROVE  IInv' /\ disk' = disk
<1>1. /\ pc \in {"hlr", "import"} /\ todo # <<>> /\ Head(todo).op # "import_aud"
      /\ todo' = GoesOn(todo) /\ disk' = disk /\ pc' = pc
  BY DEF StepFails, InOperation
<1>2. InProgress /\ RowsOf(disk) \in SUBSET Row /\ KeysOf(disk) \in SUBSET Key
  BY <1>1, InOperationFacts, Zenon
<1>3. /\ \A x : Stmt("delete_subscr", x).op = "delete_subscr" /\ Stmt("insert_key", x).op = "insert_key"
      /\ \A x : Stmt("insert_subscr", x).op = "insert_subscr" /\ Stmt("import_aud", x).op = "import_aud"
      /\ \A id, kind : Delete(id, kind).op = "delete_key"
  BY DEF Stmt, Delete
<1>4. ASSUME todo' = <<>>,
             \A k \in KeysOf(disk) :
                (\A r \in RowsOf(disk) : r.id # k.id) /\ Delete(k.id, k.kind) \in ToSet(todo)
                   => Delete(k.id, k.kind) = Head(todo)
      PROVE  IInv'
  <2>1. InProgress'
    BY <1>4, Zenon DEF InProgress
  <2> QED
    BY <1>4, <2>1, FailKeeps, Zenon
<1>5. ASSUME pc = "hlr", Deleting(RowsOf(disk))
      PROVE  IInv'
  <2>1. PICK id \in 1..MaxId :
           \/ todo = db_subscr_delete_by_id(id) /\ \E r \in RowsOf(disk) : r.id = id
           \/ /\ todo \in {<<Delete(id, "2g"), Delete(id, "3g")>>, <<Delete(id, "3g")>>}
              /\ \A r \in RowsOf(disk) : r.id # id
    BY <1>5, Zenon DEF Deleting
  <2>2. CASE todo = db_subscr_delete_by_id(id) /\ \E r \in RowsOf(disk) : r.id = id
    <3>1. todo = <<Stmt("delete_subscr", id), Delete(id, "2g"), Delete(id, "3g")>>
      BY <2>2 DEF db_subscr_delete_by_id, Delete
    <3>2. Head(todo) = Stmt("delete_subscr", id)
      BY <3>1
    <3>3. todo' = <<>>
      BY <1>1, <1>3, <3>2 DEF GoesOn
    <3>4. ToSet(todo) = {Stmt("delete_subscr", id), Delete(id, "2g"), Delete(id, "3g")}
      BY <3>1, ToSetIs
    <3>5. \A i, kind : Delete(i, kind) \in ToSet(todo) => i = id
      BY <1>3, <3>4 DEF Delete, Stmt
    <3> QED
      BY <1>4, <2>2, <3>3, <3>5, Zenon
  <2>3. CASE todo = <<Delete(id, "2g"), Delete(id, "3g")>> /\ \A r \in RowsOf(disk) : r.id # id
    <3>1. Head(todo) = Delete(id, "2g") /\ Tail(todo) = <<Delete(id, "3g")>> /\ todo[2] = Delete(id, "3g")
      BY <2>3
    <3>2. todo' = <<Delete(id, "3g")>>
      BY <1>1, <1>3, <3>1 DEF GoesOn
    <3>3. ToSet(todo) = {Delete(id, "2g"), Delete(id, "3g")} /\ ToSet(todo') = {Delete(id, "3g")}
      BY <2>3, <3>2, ToSetIs
    <3>4. Deleting(RowsOf(disk))'
      BY <1>1, <2>3, <3>2, Zenon DEF Deleting, Delete
    <3>5. InProgress'
      BY <1>1, <1>5, <3>4, Zenon DEF InProgress
    <3>6. \A st \in ToSet(todo) : st = Head(todo) \/ st \in ToSet(todo')
      BY <3>1, <3>3
    <3> QED
      BY <3>5, <3>6, FailKeeps, Zenon
  <2>4. CASE todo = <<Delete(id, "3g")>>
    <3>1. Head(todo) = Delete(id, "3g") /\ Tail(todo) = <<>> /\ Len(todo) = 1
      BY <2>4
    <3>2. todo' = <<>>
      BY <1>1, <1>3, <3>1 DEF GoesOn
    <3>3. \A st \in ToSet(todo) : st = Head(todo)
      BY <2>4, <3>1, ToSetIs
    <3> QED
      BY <1>4, <3>2, <3>3, Zenon
  <2> QED
    BY <2>1, <2>2, <2>3, <2>4, Zenon
<1>6. ASSUME Updating(RowsOf(disk))
      PROVE  IInv'
  <2>1. PICK r \in RowsOf(disk), kind \in KeyKind :
           todo \in {<<Delete(r.id, kind)>> \o Aud(r, kind), <<Delete(r.id, kind)>>, Aud(r, kind)}
    BY <1>6, Zenon DEF Updating
  <2> DEFINE ins == Stmt("insert_key", [id |-> r.id, kind |-> kind, owner |-> r.imsi])
  <2>2. Aud(r, kind) = <<ins>> /\ ins.op = "insert_key"
    BY <1>3 DEF Aud
  <2> HIDE DEF ins
  <2>3. <<Delete(r.id, kind)>> \o Aud(r, kind) = <<Delete(r.id, kind), ins>>
    BY <2>2, PairIs, Zenon
  <2>4. todo' = <<>>
    <3>1. CASE todo = <<Delete(r.id, kind), ins>>
      <4>1. Len(todo) > 1 /\ todo[2] = ins
        BY <3>1
      <4> QED
        BY <1>1, <2>2, <4>1 DEF GoesOn
    <3>2. CASE todo = <<Delete(r.id, kind)>>
      <4>1. Head(todo) = Delete(r.id, kind) /\ Len(todo) = 1 /\ Tail(todo) = <<>>
        BY <3>2
      <4> QED
        BY <1>1, <1>3, <4>1 DEF GoesOn
    <3>3. CASE todo = <<ins>>
      <4>1. Head(todo) = ins /\ Len(todo) = 1 /\ Tail(todo) = <<>>
        BY <3>3
      <4> QED
        BY <1>1, <2>2, <4>1 DEF GoesOn
    <3> QED
      BY <2>1, <2>2, <2>3, <3>1, <3>2, <3>3
  <2>5. ToSet(todo) \subseteq {Delete(r.id, kind), ins}
    BY <2>1, <2>2, <2>3, ToSetIs
  <2>6. \A i, k : Delete(i, k) \in ToSet(todo) => i = r.id
    <3>1. \A i, k : Delete(i, k) # ins
      BY <1>3, <2>2
    <3>2. \A i, k : Delete(i, k) = Delete(r.id, kind) => i = r.id
      BY DEF Delete, Stmt
    <3> QED
      BY <2>5, <3>1, <3>2
  <2> QED
    BY <1>4, <2>4, <2>6, Zenon
<1>7. ASSUME Importing
      PROVE  IInv'
  <2>1. PICK s \in Subscr :
           \/ todo = <<Stmt("insert_subscr", s)>> /\ pc = "hlr"
           \/ /\ todo \in {<<Stmt("insert_subscr", s), Stmt("import_aud", s)>>, <<Stmt("import_aud", s)>>}
              /\ pc = "import"
    BY <1>7, Zenon DEF Importing
  <2>2. ToSet(todo) \subseteq {Stmt("insert_subscr", s), Stmt("import_aud", s)}
    BY <2>1, ToSetIs
  <2>3. \A i, kind : Delete(i, kind) \notin ToSet(todo)
    BY <1>3, <2>2
  <2>4. CASE todo = <<Stmt("insert_subscr", s)>>
    <3>1. Head(todo) = Stmt("insert_subscr", s) /\ Len(todo) = 1 /\ Tail(todo) = <<>>
      BY <2>4
    <3>2. todo' = <<>>
      BY <1>1, <1>3, <3>1 DEF GoesOn
    <3> QED
      BY <1>4, <2>3, <3>2, Zenon
  <2>5. CASE todo = <<Stmt("insert_subscr", s), Stmt("import_aud", s)>> /\ pc = "import"
    <3>1. /\ Head(todo) = Stmt("insert_subscr", s) /\ todo[2] = Stmt("import_aud", s)
          /\ Tail(todo) = <<Stmt("import_aud", s)>>
      BY <2>5
    <3>2. todo' = <<Stmt("import_aud", s)>>
      BY <1>1, <1>3, <3>1 DEF GoesOn
    <3>3. Importing'
      BY <1>1, <2>5, <3>2, Zenon DEF Importing
    <3>4. InProgress'
      BY <3>3, Zenon DEF InProgress
    <3> QED
      BY <2>3, <3>4, FailKeeps, Zenon
  <2>6. todo # <<Stmt("import_aud", s)>>
    <3>1. Head(<<Stmt("import_aud", s)>>) = Stmt("import_aud", s)
      OBVIOUS
    <3> QED
      BY <1>1, <1>3, <3>1, Zenon
  <2> QED
    BY <2>1, <2>4, <2>5, <2>6, Zenon
<1> QED
  BY <1>1, <1>2, <1>5, <1>6, <1>7, Zenon DEF InProgress

-----------------------------------------------------------------------------
(* The invariant. *)

LEMMA InitIInv ==
    ASSUME Init
    PROVE  IInv
<1>1. /\ view = disk /\ backup = NoTable /\ inTx = FALSE /\ pc = "down" /\ version = 0 /\ todo = <<>>
      /\ allow \in BOOLEAN /\ torn = FALSE /\ failed = FALSE /\ left = {}
  BY DEF Init
<1> DEFINE Fine ==
              /\ disk \in Content /\ Sound(disk) /\ Exact(disk)
              /\ UniqueRows(RowsOf(disk)) /\ UniqueKeys(KeysOf(disk))
              /\ \A k \in KeysOf(disk) : \E q \in RowsOf(disk) : q.id = k.id /\ q.imsi = k.owner
<1>2. Fine
  <2>1. CASE disk = [version |-> 0, subscriber |-> NoTable, others |-> NoTable]
    <3>1. disk.version = 0 /\ disk.subscriber = NoTable /\ disk.others = NoTable /\ disk \in Content
      BY <2>1 DEF Content, CURRENT_SCHEMA_VERSION
    <3>2. RowsOf(disk) = {} /\ KeysOf(disk) = {}
      BY <3>1 DEF RowsOf, KeysOf
    <3> QED
      BY <3>1, <3>2 DEF Sound, Exact, UniqueRows, UniqueKeys
  <2>2. ASSUME NEW v \in 0..(CURRENT_SCHEMA_VERSION + 1), NEW r \in SUBSET Row, NEW kinds \in SUBSET KeyKind,
               UniqueRows(r),
               disk = Database(v, r, kinds)
        PROVE  Fine
    <3> DEFINE t == [cols |-> ColumnsOf(v), rows |-> r]
               keys == {[id |-> q.id, kind |-> k, owner |-> q.imsi] : q \in r, k \in kinds}
    <3>1. v \in {0, 1, 2, 3, 4, 5, 6}
      BY DEF CURRENT_SCHEMA_VERSION
    <3>2. ColumnsOf(v) \in SUBSET Column
      BY <3>1, ColumnsAre DEF V2Columns, V3Columns, Column
    <3>3. t \in Table /\ t.cols = ColumnsOf(v) /\ t.rows = r
      BY <3>2 DEF Table
    <3>4. t # NoTable
      BY <3>3, TablesAre
    <3>5. keys \in SUBSET Key
      BY DEF Key, Row
    <3>6. keys # NoTable
      BY <3>5, NoTableAssumption
    <3>7. \A k \in keys : \E q \in r : q.id = k.id /\ q.imsi = k.owner
      OBVIOUS
    <3> HIDE DEF t, keys
    <3>8. disk = [version |-> v, subscriber |-> t, others |-> keys]
      BY <2>2 DEF t, keys, Database
    <3>9. disk \in Content /\ disk.version = v /\ disk.subscriber = t /\ disk.others = keys
      BY <3>3, <3>5, <3>8 DEF Content
    <3>10. RowsOf(disk) = r /\ KeysOf(disk) = keys
      BY <3>3, <3>4, <3>6, <3>9 DEF RowsOf, KeysOf
    <3>11. Exact(disk)
      BY <3>3, <3>4, <3>6, <3>9 DEF Exact
    <3>12. Sound(disk)
      <4>1. CASE v = 0
        BY <3>6, <3>9, <4>1 DEF Sound
      <4>2. CASE v # 0
        <5>1. /\ "last_lu_seen" \in ColumnsOf(v)
              /\ 2 <= v => "imei" \in ColumnsOf(v)
              /\ 3 <= v => "msc_number" \in ColumnsOf(v)
              /\ 4 <= v => "last_lu_seen_ps" \in ColumnsOf(v)
              /\ 5 <= v => {"vlr_via_proxy", "sgsn_via_proxy"} \subseteq ColumnsOf(v)
          BY <3>1, <4>2, ColumnsAre DEF V2Columns, V3Columns, Column
        <5>2. v > 0
          BY <3>1, <4>2
        <5> QED
          BY <3>3, <3>4, <3>6, <3>9, <5>1, <5>2, SoundIs
      <4> QED
        BY <4>1, <4>2
    <3>13. UniqueKeys(keys)
      <4> SUFFICES ASSUME NEW k \in keys, NEW l \in keys, k.id = l.id /\ k.kind = l.kind
                   PROVE  k = l
        BY DEF UniqueKeys
      <4>1. PICK q \in r : q.id = k.id /\ q.imsi = k.owner
        BY <3>7
      <4>2. PICK p \in r : p.id = l.id /\ p.imsi = l.owner
        BY <3>7
      <4>3. q = p
        BY <2>2, <4>1, <4>2 DEF UniqueRows
      <4>4. k.owner = l.owner
        BY <4>1, <4>2, <4>3
      <4> QED
        BY <3>5, <4>4 DEF Key
    <3> QED
      BY <2>2, <3>7, <3>9, <3>10, <3>11, <3>12, <3>13
  <2> HIDE DEF Fine
  <2> QED
    BY <2>1, <2>2, Zenon DEF Init
<1>3. Types
  <2>1. /\ inTx \in BOOLEAN /\ torn \in BOOLEAN /\ failed \in BOOLEAN
    BY <1>1
  <2>2. /\ version \in 0..(CURRENT_SCHEMA_VERSION + 1) /\ pc \in {"down", "opening", "hlr", "import"}
        /\ backup \in {NoTable} \cup SUBSET Row /\ left \in SUBSET ((1..MaxId) \X KeyKind)
    BY <1>1 DEF CURRENT_SCHEMA_VERSION
  <2> QED
    BY <1>1, <1>2, <2>1, <2>2, Zenon DEF Types
<1>4. AtRest
  BY <1>1, <1>2, Zenon DEF AtRest, Settled
<1>5. Operating
  <2>1. pc \notin {"hlr", "import"}
    BY <1>1
  <2> QED
    BY <1>1, <1>4, <2>1, Zenon DEF Operating, InProgress
<1>6. FitsUnlessTorn
  BY <1>1 DEF FitsUnlessTorn
<1>7. KeysFollow
  BY <1>2 DEF KeysFollow, UniqueRows
<1>8. Orphans
  BY <1>2 DEF Orphans
<1>9. pc # "opening"
  BY <1>1
<1> QED
  BY <1>2, <1>3, <1>5, <1>6, <1>7, <1>8, <1>9, Zenon DEF IInv

LEMMA StutterKept ==
    ASSUME disk' = disk
    PROVE  Kept
<1>1. RowsOf(disk') = RowsOf(disk) /\ KeysOf(disk') = KeysOf(disk)
  BY Zenon
<1> QED
  BY <1>1 DEF Kept

LEMMA NextIInv ==
    ASSUME IInv, [Next]_vars
    PROVE  IInv' /\ Kept
<1>1. CASE UNCHANGED vars
  <2>1. /\ disk' = disk /\ view' = view /\ backup' = backup /\ inTx' = inTx /\ pc' = pc /\ version' = version
        /\ todo' = todo /\ allow' = allow /\ torn' = torn /\ failed' = failed /\ left' = left
    BY <1>1 DEF vars
  <2>2. Kept
    BY <2>1, StutterKept, Zenon
  <2>3. Types'
    BY <2>1 DEF IInv, Types
  <2>4. AtRest => AtRest'
    BY <2>1, Zenon DEF AtRest, Settled, Exact
  <2>5. InProgress => InProgress'
    BY <2>1, Zenon DEF InProgress, Deleting, Updating, Importing
  <2>6. Operating => Operating'
    BY <2>1, <2>4, <2>5, Zenon DEF Operating
  <2>7. Opening => Opening'
    <3>1. Resting => Resting'
      BY <2>1, <2>4, Zenon DEF Resting
    <3>2. (\E v \in 1..CURRENT_SCHEMA_VERSION : Begun(v)) => (\E v \in 1..CURRENT_SCHEMA_VERSION : Begun(v)')
      BY <2>1, <2>4, Zenon DEF Begun
    <3>3. Altering => Altering'
      BY <2>1, Zenon DEF Altering, Altered, Settled
    <3>4. Transacting => Transacting'
      BY <2>1, Zenon DEF Transacting, InTransaction, Exact
    <3>5. Committed => Committed'
      BY <2>1, Zenon DEF Committed, Settled
    <3>6. Bootstrapping => Bootstrapping'
      BY <2>1, <2>4, Zenon DEF Bootstrapping, Settled
    <3> QED
      BY <3>1, <3>2, <3>3, <3>4, <3>5, <3>6, Zenon DEF Opening
  <2>8. Sound(disk') /\ UniqueRows(RowsOf(disk')) /\ UniqueKeys(KeysOf(disk'))
    BY <2>1, Zenon DEF IInv
  <2>9. FitsUnlessTorn'
    BY <2>1 DEF IInv, FitsUnlessTorn
  <2>10. KeysFollow'
    BY <2>1, Zenon DEF IInv, KeysFollow
  <2>11. Orphans'
    BY <2>1, Zenon DEF IInv, Orphans
  <2>12. IF pc' = "opening" THEN Opening' ELSE Operating'
    BY <2>1, <2>6, <2>7, Zenon DEF IInv
  <2> QED
    BY <2>2, <2>3, <2>8, <2>9, <2>10, <2>11, <2>12, Zenon DEF IInv
<1>2. CASE \E allow_upgrade \in BOOLEAN : db_open(allow_upgrade)
  BY <1>2, db_openStep, StutterKept, Zenon
<1>3. CASE RunStatement
  <2>1. IInv' /\ RowsOf(disk') = RowsOf(disk) /\ KeysOf(disk') = KeysOf(disk)
    BY <1>3, RunStatementStep, Zenon
  <2>2. Kept
    BY <2>1 DEF Kept
  <2> QED
    BY <2>1, <2>2, Zenon
<1>4. CASE StatementUnfit
  BY <1>4, UnfitStep, StutterKept, Zenon
<1>5. CASE NextVersion
  BY <1>5, NextVersionStep, StutterKept, Zenon
<1>6. CASE OpenEnds
  BY <1>6, OpenEndsStep, StutterKept, Zenon
<1>7. CASE Interrupted
  BY <1>7, InterruptedStep, StutterKept, Zenon
<1>8. CASE \/ \E s \in Subscr : subscriber_create(s) \/ import_nitb_subscr(s)
           \/ /\ pc = "hlr"
              /\ \E r \in view.subscriber.rows :
                    \/ subscriber_delete(r)
                    \/ \E kind \in KeyKind : subscriber_aud(r, kind) \/ subscriber_no_aud(r, kind)
  BY <1>8, StartsStep, StutterKept, Zenon
<1>9. CASE import_nitb_subscr_aud
  BY <1>9, ImportAudStep, StutterKept, Zenon
<1>10. CASE StepDone
  BY <1>10, StepDoneStep, Zenon
<1>11. CASE StepFails
  BY <1>11, StepFailsStep, StutterKept, Zenon
<1> QED
  BY <1>1, <1>2, <1>3, <1>4, <1>5, <1>6, <1>7, <1>8, <1>9, <1>10, <1>11, Zenon DEF Next

LEMMA Invariant == Spec => []IInv
<1>1. Init => IInv
  BY InitIInv
<1>2. IInv /\ [Next]_vars => IInv'
  BY NextIInv
<1> QED
  BY <1>1, <1>2, PTL DEF Spec

-----------------------------------------------------------------------------
(* Types. *)

(* What is left of a list after a statement. *)
LEMMA SuffixTail ==
    ASSUME NEW S, NEW s \in Seq(S), NEW n \in 1..Len(s)
    PROVE  Tail(SubSeq(s, n, Len(s))) = SubSeq(s, n + 1, Len(s))
<1> DEFINE a == SubSeq(s, n, Len(s))
           b == SubSeq(s, n + 1, Len(s))
<1>1. a \in Seq(S) /\ Len(a) = Len(s) - n + 1 /\ \A j \in 1..(Len(s) - n + 1) : a[j] = s[n + j - 1]
  BY SMT
<1>2. b \in Seq(S) /\ Len(b) = Len(s) - n /\ \A j \in 1..(Len(s) - n) : b[j] = s[n + j]
  BY SMT
<1> HIDE DEF a, b
<1>3. a # <<>>
  BY <1>1
<1>4. Tail(a) \in Seq(S) /\ Len(Tail(a)) = Len(a) - 1 /\ \A j \in 1..(Len(a) - 1) : Tail(a)[j] = a[j + 1]
  BY <1>1, <1>3, HeadTailProperties
<1>5. Len(Tail(a)) = Len(b) /\ \A j \in 1..Len(Tail(a)) : Tail(a)[j] = b[j]
  <2>1. Len(s) \in Nat /\ Len(Tail(a)) = Len(s) - n /\ Len(a) = Len(s) - n + 1
    BY <1>1, <1>4
  <2>2. ASSUME NEW j \in 1..(Len(s) - n)
        PROVE  Tail(a)[j] = b[j]
    <3>1. j \in 1..(Len(a) - 1) /\ j + 1 \in 1..(Len(s) - n + 1) /\ n + (j + 1) - 1 = n + j
      BY <2>1
    <3>2. Tail(a)[j] = a[j + 1] /\ a[j + 1] = s[n + (j + 1) - 1]
      BY <1>1, <1>4, <3>1
    <3>3. b[j] = s[n + j]
      BY <1>2
    <3> QED
      BY <3>1, <3>2, <3>3
  <2> QED
    BY <1>2, <2>1, <2>2
<1>6. Tail(a) = b
  BY <1>2, <1>4, <1>5, SeqEqual
<1> QED
  BY <1>6 DEF a, b

(* The list and all that may be left of it. *)
LEMMA SuffixesTyped ==
    ASSUME NEW stmts, NEW S, stmts \in Seq(S), stmts \in ToSet(db_upgrade_path) \cup {stmt_bootstrap_sql}
    PROVE  /\ Len(stmts) > 0 => stmts \in OpeningTodo
           /\ \A n \in 1..Len(stmts) : Tail(SubSeq(stmts, n, Len(stmts))) \in OpeningTodo
<1>1. \A n \in 1..(Len(stmts) + 1) : SubSeq(stmts, n, Len(stmts)) \in OpeningTodo
  BY DEF OpeningTodo
<1>2. Len(stmts) \in Nat /\ SubSeq(stmts, 1, Len(stmts)) = stmts
  BY SMT
<1>3. \A n \in 1..Len(stmts) : n + 1 \in 1..(Len(stmts) + 1)
  BY <1>2
<1>4. \A n \in 1..Len(stmts) : Tail(SubSeq(stmts, n, Len(stmts))) = SubSeq(stmts, n + 1, Len(stmts))
  BY SuffixTail
<1>5. 1 \in 1..(Len(stmts) + 1)
  BY <1>2
<1> QED
  BY <1>1, <1>2, <1>3, <1>4, <1>5

(* What may be left to run is closed under running the next statement. *)
LEMMA OpeningTail ==
    ASSUME NEW s \in OpeningTodo, s # <<>>
    PROVE  Tail(s) \in OpeningTodo
<1>1. PICK stmts \in ToSet(db_upgrade_path) \cup {stmt_bootstrap_sql} :
         \E n \in 1..(Len(stmts) + 1) : s = SubSeq(stmts, n, Len(stmts))
  BY DEF OpeningTodo
<1>2. PICK n \in 1..(Len(stmts) + 1) : s = SubSeq(stmts, n, Len(stmts))
  BY <1>1
<1>3. stmts \in Seq(ToSet(stmts)) /\ Len(stmts) \in Nat
  <2>1. stmts \in {db_upgrade_v1, db_upgrade_v2, db_upgrade_v3, db_upgrade_v4, db_upgrade_v5, stmt_bootstrap_sql}
    BY <1>1, WholeLists
  <2>2. \A x \in {db_upgrade_v1, db_upgrade_v2, db_upgrade_v3, db_upgrade_v4, db_upgrade_v5, stmt_bootstrap_sql} :
           x \in Seq(ToSet(x)) /\ Len(x) \in Nat
    BY DEF db_upgrade_v1, db_upgrade_v2, db_upgrade_v3, db_upgrade_v4, db_upgrade_v5, stmt_bootstrap_sql, ToSet
  <2> QED
    BY <2>1, <2>2
<1>4. n \in 1..Len(stmts)
  <2>1. n = Len(stmts) + 1 => SubSeq(stmts, n, Len(stmts)) = <<>>
    BY <1>3, SMT
  <2> QED
    BY <1>2, <1>3, <2>1
<1> QED
  BY <1>1, <1>2, <1>3, <1>4, SuffixesTyped

LEMMA OpeningTyped ==
    ASSUME Opening
    PROVE  todo \in OpeningTodo
<1> DEFINE Lists == ToSet(db_upgrade_path) \cup {stmt_bootstrap_sql}
<1>1. Lists = {db_upgrade_v1, db_upgrade_v2, db_upgrade_v3, db_upgrade_v4, db_upgrade_v5, stmt_bootstrap_sql}
  BY WholeLists
<1>2. \A x \in Lists : x \in Seq(ToSet(x)) /\ Len(x) > 0
  BY <1>1 DEF db_upgrade_v1, db_upgrade_v2, db_upgrade_v3, db_upgrade_v4, db_upgrade_v5, stmt_bootstrap_sql, ToSet
<1>3. \A x \in Lists : x \in OpeningTodo
  BY <1>2, SuffixesTyped
<1> HIDE DEF Lists
<1>4. /\ db_upgrade_v1 \in OpeningTodo /\ db_upgrade_v2 \in OpeningTodo /\ db_upgrade_v3 \in OpeningTodo
      /\ db_upgrade_v4 \in OpeningTodo /\ db_upgrade_v5 \in OpeningTodo /\ stmt_bootstrap_sql \in OpeningTodo
  BY <1>1, <1>3
<1>5. <<Stmt("user_version", 1)>> \in OpeningTodo
  <2>1. Tail(db_upgrade_v1) = <<Stmt("user_version", 1)>> /\ db_upgrade_v1 # <<>>
    BY DEF db_upgrade_v1
  <2> QED
    BY <1>4, <2>1, OpeningTail
<1>6. <<Stmt("user_version", 2)>> \in OpeningTodo
  <2>1. Tail(db_upgrade_v2) = <<Stmt("user_version", 2)>> /\ db_upgrade_v2 # <<>>
    BY DEF db_upgrade_v2
  <2> QED
    BY <1>4, <2>1, OpeningTail
<1>7. <<Stmt("user_version", 4)>> \in OpeningTodo
  <2>1. Tail(db_upgrade_v4) = <<Stmt("user_version", 4)>> /\ db_upgrade_v4 # <<>>
    BY DEF db_upgrade_v4
  <2> QED
    BY <1>4, <2>1, OpeningTail
<1>8. <<Stmt("alter", "sgsn_via_proxy"), Stmt("user_version", 5)>> \in OpeningTodo
  <2>1. /\ Tail(db_upgrade_v5) = <<Stmt("alter", "sgsn_via_proxy"), Stmt("user_version", 5)>>
        /\ db_upgrade_v5 # <<>>
    BY DEF db_upgrade_v5
  <2> QED
    BY <1>4, <2>1, OpeningTail
<1>9. <<Stmt("user_version", 5)>> \in OpeningTodo
  <2> DEFINE s == <<Stmt("alter", "sgsn_via_proxy"), Stmt("user_version", 5)>>
  <2>1. Tail(s) = <<Stmt("user_version", 5)>> /\ s # <<>>
    OBVIOUS
  <2> QED
    BY <1>8, <2>1, OpeningTail
<1>10. <<>> \in OpeningTodo
  <2> DEFINE s == <<Stmt("user_version", 5)>>
  <2>1. Tail(s) = <<>> /\ s # <<>>
    OBVIOUS
  <2> QED
    BY <1>9, <2>1, OpeningTail
<1>11. /\ FromBackup \in OpeningTodo /\ FromDrop \in OpeningTodo /\ FromCreate \in OpeningTodo
       /\ FromRestore \in OpeningTodo /\ FromCommit \in OpeningTodo /\ <<Stmt("user_version", 3)>> \in OpeningTodo
  <2>1. /\ Tail(db_upgrade_v3) = FromBackup /\ db_upgrade_v3 # <<>>
        /\ Tail(FromBackup) = FromDrop /\ FromBackup # <<>>
        /\ Tail(FromDrop) = FromCreate /\ FromDrop # <<>>
        /\ Tail(FromCreate) = FromRestore /\ FromCreate # <<>>
        /\ Tail(FromRestore) = FromCommit /\ FromRestore # <<>>
        /\ Tail(FromCommit) = <<Stmt("user_version", 3)>> /\ FromCommit # <<>>
    BY DEF db_upgrade_v3, FromBackup, FromDrop, FromCreate, FromRestore, FromCommit
  <2>2. FromBackup \in OpeningTodo
    BY <1>4, <2>1, OpeningTail
  <2>3. FromDrop \in OpeningTodo
    BY <2>1, <2>2, OpeningTail
  <2>4. FromCreate \in OpeningTodo
    BY <2>1, <2>3, OpeningTail
  <2>5. FromRestore \in OpeningTodo
    BY <2>1, <2>4, OpeningTail
  <2>6. FromCommit \in OpeningTodo
    BY <2>1, <2>5, OpeningTail
  <2>7. <<Stmt("user_version", 3)>> \in OpeningTodo
    BY <2>1, <2>6, OpeningTail
  <2> QED
    BY <2>2, <2>3, <2>4, <2>5, <2>6, <2>7
<1>12. /\ <<Stmt("create_others", {}), Stmt("user_version", CURRENT_SCHEMA_VERSION)>> \in OpeningTodo
       /\ <<Stmt("user_version", CURRENT_SCHEMA_VERSION)>> \in OpeningTodo
  <2> DEFINE s == <<Stmt("create_others", {}), Stmt("user_version", CURRENT_SCHEMA_VERSION)>>
             t == <<Stmt("user_version", CURRENT_SCHEMA_VERSION)>>
  <2>1. Tail(stmt_bootstrap_sql) = s /\ stmt_bootstrap_sql # <<>>
    BY DEF stmt_bootstrap_sql
  <2>2. Tail(s) = t /\ s # <<>>
    OBVIOUS
  <2> HIDE DEF s, t
  <2>3. s \in OpeningTodo
    BY <1>4, <2>1, OpeningTail
  <2>4. t \in OpeningTodo
    BY <2>2, <2>3, OpeningTail
  <2> QED
    BY <2>3, <2>4 DEF s, t
<1>13. ASSUME NEW v \in 1..CURRENT_SCHEMA_VERSION, Begun(v)
       PROVE  todo \in OpeningTodo
  <2>1. v \in {1, 2, 3, 4, 5}
    BY DEF CURRENT_SCHEMA_VERSION
  <2>2. todo = db_upgrade_path[v]
    BY <1>13, Zenon DEF Begun
  <2> QED
    BY <1>4, <2>1, <2>2, PathIs
<1>14. CASE Resting
  BY <1>10, <1>14, Zenon DEF Resting
<1>15. CASE Altering
  BY <1>5, <1>6, <1>7, <1>8, <1>9, <1>15, Zenon DEF Altering, Altered
<1>16. CASE Transacting
  BY <1>11, <1>16, Zenon DEF Transacting, InTransaction
<1>17. CASE Committed
  BY <1>11, <1>17, Zenon DEF Committed
<1>18. CASE Bootstrapping
  BY <1>4, <1>12, <1>18, Zenon DEF Bootstrapping
<1> QED
  BY <1>13, <1>14, <1>15, <1>16, <1>17, <1>18, Zenon DEF Opening

(* What the connection sees has one row per id and IMSI, and one key per   *)
(* id and kind, in the transaction too.                                    *)
LEMMA ViewUnique ==
    ASSUME IInv
    PROVE  /\ view.subscriber # NoTable => UniqueRows(view.subscriber.rows)
           /\ view.others # NoTable => UniqueKeys(view.others)
<1>1. Types /\ disk \in Content /\ UniqueRows(RowsOf(disk)) /\ UniqueKeys(KeysOf(disk))
  BY DEF IInv, Types
<1>2. /\ disk.subscriber # NoTable => UniqueRows(disk.subscriber.rows)
      /\ disk.others # NoTable => UniqueKeys(disk.others)
  BY <1>1 DEF RowsOf, KeysOf
<1>3. CASE Settled
  BY <1>2, <1>3, Zenon DEF Settled
<1>4. ASSUME NEW table, NEW rest, InTransaction(table, rest), table # NoTable => UniqueRows(table.rows)
      PROVE  /\ view.subscriber # NoTable => UniqueRows(view.subscriber.rows)
             /\ view.others # NoTable => UniqueKeys(view.others)
  <2>1. view = [disk EXCEPT !.subscriber = table]
    BY <1>4, Zenon DEF InTransaction
  <2>2. view.subscriber = table /\ view.others = disk.others
    BY <1>1, <2>1, ContentExcept
  <2> QED
    BY <1>2, <1>4, <2>2
<1>5. CASE Transacting
  <2>1. [cols |-> V3Columns, rows |-> {}].rows = {} /\ [cols |-> V3Columns, rows |-> backup].rows = backup
    OBVIOUS
  <2>2. UniqueRows({})
    BY DEF UniqueRows
  <2>3. UniqueRows([cols |-> V3Columns, rows |-> {}].rows)
    BY <2>1, <2>2
  <2>4. backup = RowsOf(disk) => UniqueRows([cols |-> V3Columns, rows |-> backup].rows)
    BY <1>1, <2>1
  <2> QED
    BY <1>2, <1>4, <1>5, <2>3, <2>4, Zenon DEF Transacting
<1>6. Settled \/ Transacting
  <2>1. CASE pc = "opening"
    <3>1. Opening
      BY <2>1 DEF IInv
    <3> QED
      BY <3>1, Zenon DEF Opening, Resting, Begun, AtRest, Altering, Altered, Committed, Bootstrapping
  <2>2. CASE pc # "opening"
    <3>1. Operating
      BY <2>2 DEF IInv
    <3> QED
      BY <3>1, Zenon DEF Operating, AtRest
  <2> QED
    BY <2>1, <2>2
<1> QED
  BY <1>3, <1>5, <1>6

-----------------------------------------------------------------------------
(* Results. *)

(* The tables, the connection and the statements left to run have their    *)
(* types at all times, with unique ids, IMSIs and keys in what is seen,    *)
(* also within the transaction of db_upgrade_v3().                         *)
THEOREM TypeCorrect == Spec => []TypeOK
<1>1. IInv => TypeOK
  <2> SUFFICES ASSUME IInv PROVE TypeOK
    OBVIOUS
  <2>1. Types
    BY DEF IInv
  <2>2. IF pc = "opening" THEN todo \in OpeningTodo ELSE ToSet(todo) \subseteq OperationStmt
    <3>1. CASE pc = "opening"
      <4>1. Opening
        BY <3>1 DEF IInv
      <4> QED
        BY <3>1, <4>1, OpeningTyped, Zenon
    <3>2. CASE pc # "opening"
      <4>1. Operating
        BY <3>2 DEF IInv
      <4> QED
        BY <2>1, <3>2, <4>1, OperationTodo, Zenon
    <3> QED
      BY <3>1, <3>2
  <2> QED
    BY <2>1, <2>2, ViewUnique, Zenon DEF TypeOK, Types
<1> QED
  BY <1>1, Invariant, PTL

(* user_version never claims columns or tables that the file does not      *)
(* have, wherever db_bootstrap() or an upgrade was stopped.                *)
THEOREM VersionsTruthful == Spec => []VersionTruthful
<1>1. IInv => VersionTruthful
  BY Zenon DEF IInv, Sound, VersionTruthful
<1> QED
  BY <1>1, Invariant, PTL

(* Only an opening stopped between two statements of one version makes a   *)
(* later statement meet a schema that it was not made for.                 *)
THEOREM OnlyTornFails == Spec => []FitsUnlessTorn
<1>1. IInv => FitsUnlessTorn
  BY Zenon DEF IInv
<1> QED
  BY <1>1, Invariant, PTL

(* A key found by the id of a subscriber was set for that subscriber, or   *)
(* is one that the deletion of an earlier subscriber with the id left      *)
(* behind: db_subscr_delete_by_id() deletes the row first.                 *)
THEOREM KeysFollowSubscribers == Spec => []KeysFollow
<1>1. IInv => KeysFollow
  BY Zenon DEF IInv
<1> QED
  BY <1>1, Invariant, PTL

(* No step of an opening, an upgrade or an interruption takes a subscriber *)
(* or a key out of the file, and an import takes no subscriber and no 3G   *)
(* key.                                                                    *)
THEOREM SubscribersNotLost == Spec => SubscribersKept
<1>1. IInv /\ [Next]_vars =>
         [/\ RowsOf(disk) \subseteq RowsOf(disk') \/ pc = "hlr"
          /\ \A k \in KeysOf(disk) \ KeysOf(disk') : pc = "hlr" \/ (pc = "import" /\ k.kind = "2g")]_vars
  <2>1. IInv /\ [Next]_vars => Kept
    BY NextIInv
  <2> QED
    BY <2>1, Zenon DEF Kept
<1> QED
  BY <1>1, Invariant, PTL DEF Spec, SubscribersKept

=============================================================================
