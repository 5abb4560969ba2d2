-------------------------- MODULE ConnectionProofs --------------------------
(***************************************************************************)
(* What the calls of Connection do to a connection, whichever backend it   *)
(* is of: the contract of is_connection.hpp that Client relies on.  The    *)
(* contracts say nothing of a call that write() or a Transaction does not  *)
(* make, such as a write() within a transaction.                           *)
(***************************************************************************)
EXTENDS Connection, TLAPS

\* These backends roll a failed write() back.
Atomic(c) == c.backend \in {"sqlite", "mysql"}

Sane(c) ==
  /\ c.db \subseteq c.view
  /\ c.tx = "none" => c.view = c.db
  /\ ~c.stmt => c.buffer = {}
  /\ Atomic(c) => c.buffer = {}

Started(c) ==
  IF Atomic(c) THEN [c EXCEPT !.tx = "open", !.stmt = TRUE] ELSE [c EXCEPT !.stmt = TRUE]

-----------------------------------------------------------------------------
\* Results and connections, field by field.

LEMMA ResultFields ==
  ASSUME NEW c
  PROVE  /\ Ok(c).conn = c /\ Ok(c).ok = TRUE
         /\ Fail(c).conn = c /\ Fail(c).ok = FALSE
BY DEF Ok, Fail

LEMMA FourBackends ==
  ASSUME NEW R, NEW c \in Connections(R)
  PROVE  \/ c.backend = "sqlite" \/ c.backend = "postgres"
         \/ c.backend = "mysql" \/ c.backend = "duckdb"
BY DEF Connections, AllBackends

LEMMA TransactionFields ==
  ASSUME NEW R, NEW c \in Connections(R)
  PROVE  /\ Begun(c) \in Connections(R)
         /\ Committed(c) \in Connections(R)
         /\ RolledBack(c) \in Connections(R)
         /\ c.tx = "none" /\ c.view = c.db => Committed(c) = c /\ RolledBack(c) = c
BY DEF Connections, Begun, Committed, RolledBack

LEMMA RolledBackFields ==
  ASSUME NEW R, NEW c \in Connections(R)
  PROVE  /\ RolledBack(c).backend = c.backend
         /\ RolledBack(c).db = c.db
         /\ RolledBack(c).view = c.db
         /\ RolledBack(c).tx = "none"
         /\ RolledBack(c).stmt = c.stmt
         /\ RolledBack(c).buffer = c.buffer
BY DEF Connections, RolledBack

LEMMA CommittedFields ==
  ASSUME NEW R, NEW c \in Connections(R)
  PROVE  /\ Committed(c).backend = c.backend
         /\ Committed(c).db = c.view
         /\ Committed(c).view = c.view
         /\ Committed(c).tx = "none"
         /\ Committed(c).stmt = c.stmt
         /\ Committed(c).buffer = c.buffer
BY DEF Connections, Committed

\* begin_transaction() outside a transaction begins one or changes nothing.
LEMMA BeginContract ==
  ASSUME NEW R, NEW c \in Connections(R), Sane(c), c.tx = "none"
  PROVE  begin_transaction(c) \subseteq {Ok(Begun(c)), Fail(c)}
<1>1. CASE c.backend = "sqlite"
  BY <1>1 DEF begin_transaction, Sqlite!begin_transaction, Sqlite!Begun, Sqlite!Ok, Sqlite!Fail, Begun, Ok, Fail
<1>2. CASE c.backend = "postgres"
  BY <1>2 DEF begin_transaction, Postgres!begin_transaction, Postgres!Begun, Postgres!Ok, Postgres!Fail, Begun, Ok, Fail
<1>3. CASE c.backend = "mysql"
  <2>1. Committed(c) = c BY TransactionFields DEF Sane
  <2>2. begin_transaction(c) = {Ok(Begun(Committed(c))), Fail(c)}
    BY <1>3 DEF begin_transaction, Mysql!begin_transaction, Mysql!Begun, Mysql!Committed, Mysql!Ok, Mysql!Fail, Begun, Ok, Fail, Committed
  <2>. QED BY <2>1, <2>2
<1>4. CASE c.backend = "duckdb"
  BY <1>4 DEF begin_transaction, Duckdb!begin_transaction, Duckdb!Begun, Duckdb!Ok, Duckdb!Fail, Begun, Ok, Fail
<1>. QED BY <1>1, <1>2, <1>3, <1>4, FourBackends

\* commit() of an open transaction ends it one way or the other, or not at all.
LEMMA CommitContract ==
  ASSUME NEW R, NEW c \in Connections(R), c.tx = "open"
  PROVE  commit(c) \subseteq {Ok(Committed(c)), Fail(RolledBack(c)), Fail(c)}
<1>1. CASE c.backend = "sqlite"
  BY <1>1 DEF commit, Sqlite!commit, Sqlite!Committed, Sqlite!Ok, Sqlite!Fail, Committed, Ok, Fail
<1>2. CASE c.backend = "postgres"
  BY <1>2 DEF commit, Postgres!commit, Postgres!Committed, Postgres!RolledBack, Postgres!Ok, Postgres!Fail,
              Committed, RolledBack, Ok, Fail
<1>3. CASE c.backend = "mysql"
  BY <1>3 DEF commit, Mysql!commit, Mysql!Committed, Mysql!RolledBack, Mysql!Ok, Mysql!Fail,
              Committed, RolledBack, Ok, Fail
<1>4. CASE c.backend = "duckdb"
  BY <1>4 DEF commit, Duckdb!commit, Duckdb!Committed, Duckdb!RolledBack, Duckdb!Ok, Duckdb!Fail,
              Committed, RolledBack, Ok, Fail
<1>. QED BY <1>1, <1>2, <1>3, <1>4, FourBackends

\* rollback() leaves no transaction, whatever it returns.
LEMMA RollbackContract ==
  ASSUME NEW R, NEW c \in Connections(R), Sane(c)
  PROVE  rollback(c) \subseteq {Ok(RolledBack(c)), Fail(RolledBack(c))}
<1>0. c.tx = "none" => RolledBack(c) = c
  BY TransactionFields DEF Sane
<1>1. CASE c.backend = "sqlite"
  BY <1>0, <1>1 DEF rollback, Sqlite!rollback, Sqlite!RolledBack, Sqlite!Ok, Sqlite!Fail, RolledBack, Ok, Fail
<1>2. CASE c.backend = "postgres"
  BY <1>2 DEF rollback, Postgres!rollback, Postgres!RolledBack, Postgres!Ok, RolledBack, Ok
<1>3. CASE c.backend = "mysql"
  BY <1>3 DEF rollback, Mysql!rollback, Mysql!RolledBack, Mysql!Ok, RolledBack, Ok
<1>4. CASE c.backend = "duckdb"
  BY <1>0, <1>4 DEF rollback, Duckdb!rollback, Duckdb!RolledBack, Duckdb!Ok, Duckdb!Fail, RolledBack, Ok, Fail
<1>. QED BY <1>1, <1>2, <1>3, <1>4, FourBackends

\* CREATE TABLE outside a transaction changes no row and begins nothing.
LEMMA ExecuteContract ==
  ASSUME NEW R, NEW c \in Connections(R), Sane(c), c.tx = "none"
  PROVE  execute(c) \subseteq {Ok(c), Fail(c)}
<1>1. CASE c.backend = "sqlite"
  BY <1>1 DEF execute, Sqlite!execute, Sqlite!Ok, Sqlite!Fail, Ok, Fail
<1>2. CASE c.backend = "postgres"
  BY <1>2 DEF execute, Postgres!execute, Postgres!Aborted, Postgres!Ok, Postgres!Fail, Ok, Fail
<1>3. CASE c.backend = "mysql"
  <2>1. Committed(c) = c BY TransactionFields DEF Sane
  <2>2. execute(c) = {Ok(Committed(c)), Fail(Committed(c)), Fail(c)}
    BY <1>3 DEF execute, Mysql!execute, Mysql!Committed, Mysql!Ok, Mysql!Fail, Ok, Fail, Committed
  <2>. QED BY <2>1, <2>2
<1>4. CASE c.backend = "duckdb"
  BY <1>4 DEF execute, Duckdb!execute, Duckdb!Failures, Duckdb!Aborted, Duckdb!Ok, Duckdb!Fail, Ok, Fail
<1>. QED BY <1>1, <1>2, <1>3, <1>4, FourBackends

-----------------------------------------------------------------------------
\* The steps of a write().

\* DuckDB: outside a transaction an appender is made, or nothing changes.
LEMMA AppenderMade ==
  ASSUME NEW R, NEW c \in Connections(R), c.tx = "none"
  PROVE  Duckdb!MakeAppender(c) \subseteq {Ok([c EXCEPT !.stmt = TRUE]), Fail(c)}
<1>1. Duckdb!execute(c) = {Ok(c), Fail(c)}
  BY DEF Duckdb!execute, Duckdb!Failures, Duckdb!Aborted, Duckdb!Ok, Duckdb!Fail, Ok, Fail
<1>. SUFFICES ASSUME NEW o \in Duckdb!MakeAppender(c) PROVE o \in {Ok([c EXCEPT !.stmt = TRUE]), Fail(c)}
  OBVIOUS
<1>2. PICK q \in UNION {IF p.ok THEN Duckdb!execute(p.conn) ELSE {p} : p \in Duckdb!execute(c)} :
        o \in IF q.ok THEN {Ok([q.conn EXCEPT !.stmt = TRUE])} ELSE {q}
  BY DEF Duckdb!MakeAppender, Duckdb!AndThen, Duckdb!Ok, Ok
<1>3. q \in {Ok(c), Fail(c)}
  <2>1. PICK p \in Duckdb!execute(c) : q \in IF p.ok THEN Duckdb!execute(p.conn) ELSE {p}
    OBVIOUS
  <2>. QED BY <2>1, <1>1 DEF Ok, Fail
<1>. QED BY <1>2, <1>3 DEF Ok, Fail

\* start_write() outside a transaction starts the write or changes nothing.
LEMMA StartContract ==
  ASSUME NEW R, NEW c \in Connections(R), Sane(c), c.tx = "none", ~c.stmt
  PROVE  start_write(c) \subseteq {Ok(Started(c)), Fail(c)}
<1>0. RolledBack(c) = c /\ RolledBack(Begun(c)) = c
  BY DEF Sane, Connections, RolledBack, Begun
<1>1. CASE c.backend = "sqlite"
  <2>1. start_write(c) = Sqlite!start_write(c)
    BY <1>1, Zenon DEF start_write
  <2>2. ASSUME NEW o \in Sqlite!start_write(c) PROVE o \in {Ok(Started(c)), Fail(c)}
    <3>1. PICK p \in {Ok(c), Fail(c)} :
             o \in IF p.ok THEN Sqlite!begin_transaction([p.conn EXCEPT !.stmt = TRUE]) ELSE {p}
      BY <2>2 DEF Sqlite!start_write, Sqlite!AndThen, Sqlite!prepare_statement,
                  Sqlite!Ok, Sqlite!Fail, Ok, Fail
    <3>2. CASE p = Ok(c)
      <4>1. o = Ok([[c EXCEPT !.stmt = TRUE] EXCEPT !.tx = "open"])
        BY <3>1, <3>2 DEF Sqlite!begin_transaction, Sqlite!Begun, Sqlite!Ok, Ok, Connections
      <4>. QED BY <4>1, <1>1 DEF Started, Atomic, Connections
    <3>3. CASE p = Fail(c)
      BY <3>1, <3>3 DEF Fail
    <3>. QED BY <3>2, <3>3
  <2>. QED BY <2>1, <2>2
<1>2. CASE c.backend = "postgres"
  <2>1. start_write(c) = Postgres!start_write(c)
    BY <1>2, Zenon DEF start_write
  <2>2. ASSUME NEW o \in Postgres!start_write(c) PROVE o \in {Ok(Started(c)), Fail(c)}
    <3>1. PICK p \in {Ok(c), Fail(c)} : o \in IF p.ok THEN {Ok([p.conn EXCEPT !.stmt = TRUE])} ELSE {p}
      BY <2>2 DEF Postgres!start_write, Postgres!AndThen, Postgres!execute, Postgres!Aborted,
                  Postgres!Ok, Postgres!Fail, Ok, Fail
    <3>. QED BY <3>1, <1>2 DEF Started, Atomic, Ok, Fail
  <2>. QED BY <2>1, <2>2
<1>3. CASE c.backend = "mysql"
  <2>1. start_write(c) = Mysql!start_write(c)
    BY <1>3, Zenon DEF start_write
  <2>2. ASSUME NEW o \in Mysql!start_write(c) PROVE o \in {Ok(Started(c)), Fail(c)}
    <3> DEFINE Begin == {Ok(Begun(Committed(c))), Fail(c)}
               Prepared == UNION {IF p.ok THEN {Ok(p.conn), Fail(p.conn)} ELSE {p} : p \in Begin}
               Held == UNION {IF p.ok THEN {Ok([p.conn EXCEPT !.stmt = TRUE])} ELSE {p} : p \in Prepared}
    <3>1. PICK q \in Held : o \in IF q.ok THEN {q} ELSE {Fail(r.conn) : r \in {Ok(RolledBack(q.conn))}}
      BY <2>2 DEF Mysql!start_write, Mysql!OrElse, Mysql!AndThen, Mysql!begin_transaction,
                  Mysql!prepare_statement, Mysql!rollback, Mysql!Begun, Mysql!Committed,
                  Mysql!RolledBack, Mysql!Ok, Mysql!Fail, Ok, Fail, Begun, Committed, RolledBack
    <3>2. Committed(c) = c
      BY TransactionFields DEF Sane
    <3>3. Prepared \subseteq {Ok(Begun(c)), Fail(Begun(c)), Fail(c)}
      BY <3>2 DEF Ok, Fail
    <3>4. q \in {Ok([Begun(c) EXCEPT !.stmt = TRUE]), Fail(Begun(c)), Fail(c)}
      <4>1. PICK p \in Prepared : q \in IF p.ok THEN {Ok([p.conn EXCEPT !.stmt = TRUE])} ELSE {p}
        OBVIOUS
      <4>. QED BY <4>1, <3>3 DEF Ok, Fail
    <3>5. [Begun(c) EXCEPT !.stmt = TRUE] = Started(c)
      BY <1>3 DEF Started, Atomic, Begun, Connections
    <3>6. o = IF q.ok THEN q ELSE Fail(RolledBack(q.conn))
      BY <3>1, ResultFields
    <3>7. CASE q = Ok([Begun(c) EXCEPT !.stmt = TRUE])
      BY <3>5, <3>6, <3>7, ResultFields
    <3>8. ASSUME NEW d \in {Begun(c), c}, q = Fail(d) PROVE o = Fail(c)
      <4>1. q.conn = d /\ q.ok = FALSE
        BY <3>8, ResultFields
      <4>. QED BY <1>0, <3>6, <4>1
    <3>. QED BY <3>4, <3>7, <3>8
  <2>. QED BY <2>1, <2>2
<1>4. CASE c.backend = "duckdb"
  <2>1. start_write(c) = Duckdb!start_write(c)
    BY <1>4, Zenon DEF start_write
  <2>2. ASSUME NEW o \in Duckdb!start_write(c) PROVE o \in {Ok(Started(c)), Fail(c)}
    BY <1>4, <2>2, AppenderMade DEF Duckdb!start_write, Started, Atomic
  <2>. QED BY <2>1, <2>2
<1>. QED BY <1>1, <1>2, <1>3, <1>4, FourBackends

\* What the first step of a write() of all rows in one batch, or a row by row
\* loop, may have done when it ends.
LEMMA StoredFields ==
  ASSUME NEW R, NEW c \in Connections(R), NEW b \in SUBSET R
  PROVE  /\ Stored(c, b) \in Connections(R)
         /\ Stored(c, b).backend = c.backend
         /\ Stored(c, b).tx = c.tx
         /\ Stored(c, b).stmt = c.stmt
         /\ Stored(c, b).buffer = c.buffer
         /\ Stored(c, b).view = c.view \cup b
         /\ c.tx = "none" => Stored(c, b).db = c.db \cup b
         /\ c.tx # "none" => Stored(c, b).db = c.db
<1>1. CASE c.tx = "none"
  BY <1>1 DEF Stored, Connections
<1>2. CASE c.tx # "none"
  BY <1>2 DEF Stored, Connections
<1>. QED BY <1>1, <1>2

\* SQLite and MySQL store a batch in the transaction of the write, or roll the
\* whole write back.
AtomicallyWritten(c, b, d, ok) ==
  /\ d.backend = c.backend
  /\ d.db = c.db
  /\ d.buffer = {}
  /\ ok => d.stmt /\ d.tx = "open" /\ d.view = c.view \cup b
  /\ ~ok => d.tx = "none" /\ d.view = c.db

\* Whatever a batch has stored when it fails, rolling back undoes it.
LEMMA StoredUndone ==
  ASSUME NEW R, NEW c \in Connections(R), NEW done \in SUBSET R, c.tx = "open"
  PROVE  Stored(c, done).tx = "open" /\ RolledBack(Stored(c, done)) = RolledBack(c)
BY DEF Stored, RolledBack, Connections

\* The same for MySQL, which gives its statement up first.
LEMMA ClosedUndone ==
  ASSUME NEW R, NEW c \in Connections(R), NEW done \in SUBSET R, c.tx = "open"
  PROVE  /\ RolledBack([Stored(c, done) EXCEPT !.stmt = FALSE]) = [RolledBack(c) EXCEPT !.stmt = FALSE]
         /\ RolledBack([RolledBack(c) EXCEPT !.stmt = FALSE]) = [RolledBack(c) EXCEPT !.stmt = FALSE]
BY DEF Stored, RolledBack, Connections

\* A batch of SQLite or MySQL is stored, or the whole write rolled back.
LEMMA AtomicWriteContract ==
  ASSUME NEW R, NEW c \in Connections(R), NEW b \in SUBSET R, Sane(c),
         Atomic(c), c.tx = "open", c.stmt,
         NEW o \in write_impl(c, b)
  PROVE  o.conn \in Connections(R) /\ o.ok \in BOOLEAN /\ AtomicallyWritten(c, b, o.conn, o.ok)
<1> DEFINE Done == {Stored(c, done) : done \in (SUBSET b) \ {b}} \cup {RolledBack(c)}
           Inserted == {Ok(Stored(c, b))} \cup {Fail(d) : d \in Done}
           Closed == [RolledBack(c) EXCEPT !.stmt = FALSE]
<1>1. CASE o = Ok(Stored(c, b))
  <2>1. o.conn = Stored(c, b) /\ o.ok = TRUE
    BY <1>1, ResultFields
  <2>2. o.conn \in Connections(R)
    BY <2>1, StoredFields
  <2>3. AtomicallyWritten(c, b, Stored(c, b), TRUE)
    BY StoredFields DEF AtomicallyWritten, Sane
  <2>. QED BY <2>1, <2>2, <2>3
<1>2. CASE o = Fail(RolledBack(c))
  <2>1. o.conn = RolledBack(c) /\ o.ok = FALSE
    BY <1>2, ResultFields
  <2>2. o.conn \in Connections(R)
    BY <2>1, TransactionFields
  <2>3. AtomicallyWritten(c, b, RolledBack(c), FALSE)
    BY RolledBackFields DEF AtomicallyWritten, Sane
  <2>. QED BY <2>1, <2>2, <2>3
<1>3. CASE o = Fail(Closed)
  <2>1. RolledBack(c) \in Connections(R)
    BY TransactionFields
  <2>2. Closed \in Connections(R) /\ Closed.backend = c.backend /\ Closed.db = c.db
        /\ Closed.buffer = c.buffer /\ Closed.tx = "none" /\ Closed.view = c.db
    <3>1. /\ Closed \in Connections(R) /\ Closed.backend = RolledBack(c).backend /\ Closed.db = RolledBack(c).db
          /\ Closed.buffer = RolledBack(c).buffer /\ Closed.tx = RolledBack(c).tx /\ Closed.view = RolledBack(c).view
      BY <2>1 DEF Connections
    <3>. HIDE DEF Closed
    <3>. QED BY <3>1, RolledBackFields
  <2>. QED BY <1>3, <2>2, ResultFields DEF AtomicallyWritten, Sane
<1>4. CASE c.backend = "sqlite"
  <2>1. write_impl(c, b) = Sqlite!write_impl(c, b)
    BY <1>4, Zenon DEF write_impl
  <2>2. Sqlite!actual_insert(c, b) = Inserted
    BY DEF Sqlite!actual_insert, Sqlite!StoredPartly, Sqlite!Stored, Sqlite!RolledBack, Sqlite!Ok, Sqlite!Fail,
           Stored, RolledBack, Ok, Fail
  <2>3. PICK p \in Inserted : o \in IF p.ok THEN {p} ELSE {Fail(r.conn) : r \in Sqlite!rollback(p.conn)}
    BY <2>1, <2>2 DEF Sqlite!write_impl, Sqlite!OrElse, Sqlite!Fail, Fail
  <2>4. CASE p = Ok(Stored(c, b))
    BY <1>1, <2>3, <2>4, ResultFields
  <2>5. ASSUME NEW d \in Done, p = Fail(d) PROVE o = Fail(RolledBack(c))
    <3>1. o \in {Fail(r.conn) : r \in {IF d.tx = "none" THEN Fail(d) ELSE Ok(RolledBack(d))}}
      BY <2>3, <2>5, ResultFields DEF Sqlite!rollback, Sqlite!RolledBack, Sqlite!Ok, Sqlite!Fail, RolledBack, Ok, Fail
    <3>2. CASE d = RolledBack(c)
      BY <3>1, <3>2, RolledBackFields, ResultFields
    <3>3. ASSUME NEW done \in SUBSET R, d = Stored(c, done) PROVE o = Fail(RolledBack(c))
      <4>1. d.tx = "open" /\ RolledBack(d) = RolledBack(c)
        BY <3>3, StoredUndone
      <4>. QED BY <3>1, <4>1, ResultFields
    <3>. QED BY <3>2, <3>3
  <2>. QED BY <1>2, <2>3, <2>4, <2>5
<1>5. CASE c.backend = "mysql"
  <2>1. write_impl(c, b) = Mysql!write_impl(c, b)
    BY <1>5, Zenon DEF write_impl
  <2>2. Mysql!actual_insert(c, b) = Inserted
    BY DEF Mysql!actual_insert, Mysql!StoredPartly, Mysql!Stored, Mysql!RolledBack, Mysql!Ok, Mysql!Fail,
           Stored, RolledBack, Ok, Fail
  <2>3. PICK p \in Inserted :
          o \in IF p.ok THEN {p} ELSE {Fail(r.conn) : r \in {Ok(RolledBack([p.conn EXCEPT !.stmt = FALSE]))}}
    <3>1. write_impl(c, b) =
            UNION {IF p.ok THEN {p}
                   ELSE {Fail(r.conn) : r \in {Ok(RolledBack([p.conn EXCEPT !.stmt = FALSE]))}} : p \in Inserted}
      BY <2>1, <2>2, Zenon DEF Mysql!write_impl, Mysql!OrElse, Mysql!rollback, Mysql!RolledBack, Mysql!Ok, Mysql!Fail,
                  RolledBack, Ok, Fail
    <3>. QED BY <3>1
  <2>4. CASE p = Ok(Stored(c, b))
    BY <1>1, <2>3, <2>4, ResultFields
  <2>5. ASSUME NEW d \in Done, p = Fail(d) PROVE o = Fail(Closed)
    <3>1. o \in {Fail(r.conn) : r \in {Ok(RolledBack([d EXCEPT !.stmt = FALSE]))}}
      BY <2>3, <2>5, ResultFields
    <3>2. CASE d = RolledBack(c)
      <4>1. RolledBack([d EXCEPT !.stmt = FALSE]) = Closed
        BY <3>2, ClosedUndone
      <4>. QED BY <3>1, <4>1, ResultFields
    <3>3. ASSUME NEW done \in SUBSET R, d = Stored(c, done) PROVE o = Fail(Closed)
      <4>1. RolledBack([d EXCEPT !.stmt = FALSE]) = Closed
        BY <3>3, ClosedUndone
      <4>. QED BY <3>1, <4>1, ResultFields
    <3>. QED BY <3>2, <3>3
  <2>. QED BY <1>3, <2>3, <2>4, <2>5
<1>. QED BY <1>4, <1>5 DEF Atomic

\* PostgreSQL and DuckDB collect the rows and store them later, outside of any
\* transaction: at most w more rows, and none gone.
Grew(c, w, d) ==
  /\ d.backend = c.backend
  /\ c.view \subseteq d.view /\ d.view \subseteq c.view \cup w
  /\ c.tx = "none" => d.tx = "none" /\ d.db = d.view
  /\ c.tx # "none" => d.tx # "none" /\ d.db = c.db

Emptied(c) == [c EXCEPT !.stmt = FALSE, !.buffer = {}]

\* A write that has given its rows up or has handed them over.
LEMMA EmptiedFields ==
  ASSUME NEW R, NEW c \in Connections(R)
  PROVE  /\ Emptied(c) \in Connections(R)
         /\ Emptied(c).backend = c.backend /\ Emptied(c).tx = c.tx
         /\ Emptied(c).db = c.db /\ Emptied(c).view = c.view
         /\ Emptied(c).stmt = FALSE /\ Emptied(c).buffer = {}
BY DEF Emptied, Connections

\* A failed statement may abort the open transaction.
MayAbort(c, d) == \/ d = c
                  \/ c.tx = "open" /\ d = [c EXCEPT !.tx = "aborted"]

\* An aborted transaction keeps its rows until it is rolled back.
LEMMA AbortedFields ==
  ASSUME NEW R, NEW c \in Connections(R), NEW d, MayAbort(c, d)
  PROVE  /\ d \in Connections(R)
         /\ d.backend = c.backend /\ d.db = c.db /\ d.view = c.view
         /\ c.tx = "none" => d.tx = "none"
         /\ c.tx # "none" => d.tx # "none"
         /\ d.stmt = c.stmt /\ d.buffer = c.buffer
BY DEF Connections, MayAbort

\* A statement that may fail: all of its rows, or none.
FlushOutcome(c, o) ==
  \/ o = Ok(Stored(Emptied(c), c.buffer))
  \/ \E d : o = Fail(d) /\ MayAbort(Emptied(c), d)

\* Flushing stores some of the rows held back, and all of them if it succeeds.
LEMMA FlushFields ==
  ASSUME NEW R, NEW c \in Connections(R), Sane(c), NEW o, FlushOutcome(c, o)
  PROVE  /\ o.conn \in Connections(R) /\ o.ok \in BOOLEAN
         /\ Grew(c, c.buffer, o.conn)
         /\ o.conn.stmt = FALSE /\ o.conn.buffer = {}
         /\ o.ok => o.conn.view = c.view \cup c.buffer /\ o.conn.tx = c.tx
<1>1. c.buffer \in SUBSET R
  BY DEF Connections
<1>2. CASE o = Ok(Stored(Emptied(c), c.buffer))
  <2>1. o.conn = Stored(Emptied(c), c.buffer) /\ o.ok = TRUE
    BY <1>2, ResultFields
  <2>2. /\ Emptied(c) \in Connections(R) /\ Emptied(c).backend = c.backend /\ Emptied(c).tx = c.tx
        /\ Emptied(c).db = c.db /\ Emptied(c).view = c.view
        /\ Emptied(c).stmt = FALSE /\ Emptied(c).buffer = {}
    BY EmptiedFields
  <2>3. /\ o.conn \in Connections(R)
        /\ o.conn.backend = c.backend /\ o.conn.tx = c.tx
        /\ o.conn.stmt = FALSE /\ o.conn.buffer = {}
        /\ o.conn.view = c.view \cup c.buffer
        /\ c.tx = "none" => o.conn.db = c.db \cup c.buffer
        /\ c.tx # "none" => o.conn.db = c.db
    BY <1>1, <2>1, <2>2, StoredFields
  <2>4. Grew(c, c.buffer, o.conn)
    BY <2>3 DEF Grew, Sane
  <2>. QED BY <2>1, <2>3, <2>4
<1>3. ASSUME NEW d, o = Fail(d), MayAbort(Emptied(c), d)
      PROVE  /\ o.conn \in Connections(R) /\ o.ok = FALSE
             /\ Grew(c, c.buffer, o.conn)
             /\ o.conn.stmt = FALSE /\ o.conn.buffer = {}
  <2>1. o.conn = d /\ o.ok = FALSE
    BY <1>3, ResultFields
  <2>2. /\ Emptied(c) \in Connections(R) /\ Emptied(c).backend = c.backend /\ Emptied(c).tx = c.tx
        /\ Emptied(c).db = c.db /\ Emptied(c).view = c.view
        /\ Emptied(c).stmt = FALSE /\ Emptied(c).buffer = {}
    BY EmptiedFields
  <2>3. /\ d \in Connections(R)
        /\ d.backend = c.backend /\ d.db = c.db /\ d.view = c.view
        /\ c.tx = "none" => d.tx = "none"
        /\ c.tx # "none" => d.tx # "none"
        /\ d.stmt = FALSE /\ d.buffer = {}
    BY <1>3, <2>2, AbortedFields
  <2>4. Grew(c, c.buffer, d)
    BY <2>3 DEF Grew, Sane
  <2>. QED BY <2>1, <2>3, <2>4
<1>. QED BY <1>2, <1>3 DEF FlushOutcome

\* The end of COPY flushes what the server was sent.
LEMMA CopyFlushes ==
  ASSUME NEW c, NEW o \in Postgres!CopyDone(c) PROVE FlushOutcome(c, o)
<1>1. o \in {Ok(Stored(Emptied(c), c.buffer)),
           Fail(IF Emptied(c).tx = "open" THEN [Emptied(c) EXCEPT !.tx = "aborted"] ELSE Emptied(c))}
  BY DEF Postgres!CopyDone, Postgres!Stored, Postgres!Aborted, Postgres!Ok, Postgres!Fail,
         Emptied, Stored, Ok, Fail
<1>. QED BY <1>1 DEF FlushOutcome, MayAbort

\* duckdb_appender_close() flushes the appender.
LEMMA AppenderFlushes ==
  ASSUME NEW c, NEW o \in Duckdb!Flush(c) PROVE FlushOutcome(c, o)
<1>1. o \in {Ok(Stored(Emptied(c), c.buffer)), Fail(Emptied(c)),
           Fail(IF Emptied(c).tx = "open" THEN [Emptied(c) EXCEPT !.tx = "aborted"] ELSE Emptied(c))}
  BY DEF Duckdb!Flush, Duckdb!Failures, Duckdb!Stored, Duckdb!Aborted, Duckdb!Ok, Duckdb!Fail,
         Emptied, Stored, Ok, Fail
<1>. QED BY <1>1 DEF FlushOutcome, MayAbort

\* What DuckDB's appender does with rows, when it takes all of them or fails.
Appends(c, w, d, ok) ==
  /\ Grew(c, c.buffer \cup w, d)
  /\ d.stmt = c.stmt
  /\ d.buffer \subseteq c.buffer \cup w
  /\ ok => d.tx = c.tx /\ d.view \cup d.buffer = (c.view \cup c.buffer) \cup w

\* Rows handed to an appender are stored at once or held back.
LEMMA AppendedFields ==
  ASSUME NEW R, NEW c \in Connections(R), Sane(c), NEW w \in SUBSET R,
         NEW d \in Duckdb!Appended(c, w)
  PROVE  d \in Connections(R) /\ Appends(c, w, d, TRUE)
<1>1. PICK done \in SUBSET (c.buffer \cup w) :
        d = [Stored(c, done) EXCEPT !.buffer = (Stored(c, done).buffer \cup w) \ done]
  BY DEF Duckdb!Appended, Duckdb!Stored, Stored
<1>2. c.buffer \in SUBSET R /\ done \in SUBSET R
  BY DEF Connections
<1>3. /\ Stored(c, done) \in Connections(R)
      /\ Stored(c, done).backend = c.backend /\ Stored(c, done).tx = c.tx
      /\ Stored(c, done).stmt = c.stmt /\ Stored(c, done).buffer = c.buffer
      /\ Stored(c, done).view = c.view \cup done
      /\ c.tx = "none" => Stored(c, done).db = c.db \cup done
      /\ c.tx # "none" => Stored(c, done).db = c.db
  BY <1>2, StoredFields
<1>4. /\ d.backend = c.backend /\ d.tx = c.tx /\ d.stmt = c.stmt
      /\ d.buffer = (c.buffer \cup w) \ done
      /\ d.view = c.view \cup done
      /\ c.tx = "none" => d.db = c.db \cup done
      /\ c.tx # "none" => d.db = c.db
      /\ d \in Connections(R)
  BY <1>1, <1>2, <1>3 DEF Connections
<1>5. Grew(c, c.buffer \cup w, d)
  BY <1>4 DEF Grew, Sane
<1>. QED BY <1>4, <1>5 DEF Appends

\* The loop of write_to_appender() stops at the first row it cannot append.
LEMMA AppenderContract ==
  ASSUME NEW R, NEW c \in Connections(R), Sane(c), NEW b \in SUBSET R,
         NEW o \in Duckdb!write_to_appender(c, b)
  PROVE  o.conn \in Connections(R) /\ o.ok \in BOOLEAN /\ Appends(c, b, o.conn, o.ok)
<1>2. ASSUME NEW w \in SUBSET b, NEW d \in Duckdb!Appended(c, w),
             NEW e, MayAbort(d, e), o = Fail(e)
      PROVE  o.conn \in Connections(R) /\ o.ok = FALSE /\ Appends(c, b, o.conn, FALSE)
  <2>1. o.conn = e /\ o.ok = FALSE
    BY <1>2, ResultFields
  <2>2. d \in Connections(R) /\ Appends(c, w, d, TRUE)
    BY AppendedFields
  <2>3. /\ e \in Connections(R)
        /\ e.backend = d.backend /\ e.db = d.db /\ e.view = d.view
        /\ d.tx = "none" => e.tx = "none"
        /\ d.tx # "none" => e.tx # "none"
        /\ e.stmt = d.stmt /\ e.buffer = d.buffer
    BY <1>2, <2>2, AbortedFields
  <2>. QED BY <2>1, <2>2, <2>3 DEF Appends, Grew
<1>3. CASE \E d \in Duckdb!Appended(c, b) : o = Ok(d)
  <2>1. PICK d \in Duckdb!Appended(c, b) : o = Ok(d)
    BY <1>3
  <2>2. o.conn = d /\ o.ok = TRUE
    BY <2>1, ResultFields
  <2>3. d \in Connections(R) /\ Appends(c, b, d, TRUE)
    BY AppendedFields
  <2>. QED BY <2>2, <2>3
<1>4. CASE \E w \in (SUBSET b) \ {b} : \E d \in Duckdb!Appended(c, w) :
             o \in {Fail(d), Fail(IF d.tx = "open" THEN [d EXCEPT !.tx = "aborted"] ELSE d)}
  <2>0. PICK w \in SUBSET b : \E d \in Duckdb!Appended(c, w) :
          o \in {Fail(d), Fail(IF d.tx = "open" THEN [d EXCEPT !.tx = "aborted"] ELSE d)}
    BY <1>4
  <2>1. PICK d \in Duckdb!Appended(c, w) :
          o \in {Fail(d), Fail(IF d.tx = "open" THEN [d EXCEPT !.tx = "aborted"] ELSE d)}
    BY <2>0
  <2>2. PICK e : MayAbort(d, e) /\ o = Fail(e)
    BY <2>1 DEF MayAbort
  <2>3. o.conn \in Connections(R) /\ o.ok = FALSE /\ Appends(c, b, o.conn, FALSE)
    BY <1>2, <2>2
  <2>. QED BY <2>3
<1>. QED BY <1>3, <1>4 DEF Duckdb!write_to_appender, Duckdb!Failures, Duckdb!Aborted, Duckdb!Ok, Duckdb!Fail, Ok, Fail

\* A batch of a write() over PostgreSQL or DuckDB.
Streamed(c, b, d, ok) ==
  /\ Grew(c, c.buffer \cup b, d)
  /\ d.buffer \subseteq c.buffer \cup b
  /\ ~d.stmt => d.buffer = {}
  /\ ok => d.stmt /\ (c.backend = "postgres" => d.buffer = c.buffer \cup b)

\* A batch of PostgreSQL or DuckDB never stores rows it was not given.
LEMMA StreamContract ==
  ASSUME NEW R, NEW c \in Connections(R), NEW b \in SUBSET R, Sane(c),
         ~Atomic(c), c.tx = "none", c.stmt,
         NEW o \in write_impl(c, b)
  PROVE  o.conn \in Connections(R) /\ o.ok \in BOOLEAN /\ Streamed(c, b, o.conn, o.ok)
<1>0. c.buffer \subseteq R
  BY DEF Connections
<1>1. CASE c.backend = "postgres"
  <2> DEFINE Sent(w) == [c EXCEPT !.buffer = c.buffer \cup w]
             Lost == [RolledBack(c) EXCEPT !.stmt = FALSE, !.buffer = {}]
  <2>1. write_impl(c, b) = Postgres!write_impl(c, b)
    BY <1>1, Zenon DEF write_impl
  <2>2. \/ o = Ok(Sent(b)) \/ o = Fail(Lost)
        \/ \E w \in SUBSET b : \E p \in Postgres!CopyDone(Sent(w)) : o = Fail(p.conn)
    <3>1. write_impl(c, b) =
            IF ~c.stmt THEN {Fail(c)}
            ELSE {Ok(Sent(b)), Fail(Lost)} \cup
                 UNION {{Fail(p.conn) : p \in Postgres!CopyDone(Sent(w))} : w \in (SUBSET b) \ {b}}
      BY <2>1, Zenon DEF Postgres!write_impl, Postgres!RolledBack, Postgres!Ok, Postgres!Fail, RolledBack, Ok, Fail
    <3>. HIDE DEF Sent, Lost
    <3>. QED BY <3>1
  <2>3. ASSUME NEW w \in SUBSET b, NEW e, e = Sent(w)
        PROVE  /\ e \in Connections(R) /\ e.backend = c.backend /\ e.db = c.db /\ e.view = c.view
               /\ e.tx = c.tx /\ e.stmt = c.stmt /\ e.buffer = c.buffer \cup w
    BY <1>0, <2>3 DEF Connections
  <2>4. CASE o = Ok(Sent(b))
    <3>1. o.conn = Sent(b) /\ o.ok = TRUE
      BY <2>4, ResultFields
    <3>2. /\ o.conn \in Connections(R) /\ o.conn.backend = c.backend /\ o.conn.db = c.db
          /\ o.conn.view = c.view /\ o.conn.tx = c.tx /\ o.conn.stmt = c.stmt
          /\ o.conn.buffer = c.buffer \cup b
      <4>. b \in SUBSET b
        OBVIOUS
      <4>. HIDE DEF Sent
      <4>. QED BY <2>3, <3>1
    <3>. QED BY <3>1, <3>2 DEF Streamed, Grew, Sane
  <2>5. CASE o = Fail(Lost)
    <3>1. o.conn = Lost /\ o.ok = FALSE
      BY <2>5, ResultFields
    <3>2. RolledBack(c) = c
      BY TransactionFields DEF Sane
    <3>3. /\ o.conn \in Connections(R) /\ o.conn.backend = c.backend /\ o.conn.db = c.db
          /\ o.conn.view = c.view /\ o.conn.tx = c.tx /\ o.conn.stmt = FALSE /\ o.conn.buffer = {}
      <4>1. /\ Lost \in Connections(R) /\ Lost.backend = c.backend /\ Lost.db = c.db
            /\ Lost.view = c.view /\ Lost.tx = c.tx /\ Lost.stmt = FALSE /\ Lost.buffer = {}
        BY <3>2 DEF Connections
      <4>. QED BY <3>1, <4>1
    <3>. QED BY <3>1, <3>3 DEF Streamed, Grew, Sane
  <2>6. ASSUME NEW w \in SUBSET b, NEW e, e = Sent(w), NEW p \in Postgres!CopyDone(e), o = Fail(p.conn)
        PROVE  o.conn \in Connections(R) /\ o.ok = FALSE /\ Streamed(c, b, o.conn, FALSE)
    <3>1. o.conn = p.conn /\ o.ok = FALSE
      BY <2>6, ResultFields
    <3>2. /\ e \in Connections(R) /\ e.backend = c.backend /\ e.db = c.db /\ e.view = c.view
          /\ e.tx = c.tx /\ e.stmt = c.stmt /\ e.buffer = c.buffer \cup w
      BY <2>3, <2>6
    <3>3. Sane(e)
      BY <3>2 DEF Sane, Atomic
    <3>4. /\ p.conn \in Connections(R) /\ Grew(e, e.buffer, p.conn)
          /\ p.conn.stmt = FALSE /\ p.conn.buffer = {}
      BY <3>2, <3>3, CopyFlushes, FlushFields
    <3>. QED BY <3>1, <3>2, <3>4 DEF Streamed, Grew
  <2>7. CASE \E w \in SUBSET b : \E p \in Postgres!CopyDone(Sent(w)) : o = Fail(p.conn)
    <3>1. o.conn \in Connections(R) /\ o.ok = FALSE /\ Streamed(c, b, o.conn, FALSE)
      BY <2>6, <2>7
    <3>. QED BY <3>1
  <2>. QED BY <2>2, <2>4, <2>5, <2>7
<1>2. CASE c.backend = "duckdb"
  <2>1. write_impl(c, b) = Duckdb!write_to_appender(c, b)
    BY <1>2, Zenon DEF write_impl, Duckdb!write_impl
  <2>2. o.conn \in Connections(R) /\ o.ok \in BOOLEAN /\ Appends(c, b, o.conn, o.ok)
    BY <2>1, AppenderContract
  <2>. QED BY <1>2, <2>2 DEF Streamed, Appends
<1>. QED BY <1>1, <1>2, FourBackends DEF Atomic

\* end_write() after a write() that took all rows or failed: the write is over
\* and no transaction is left.  What was to be stored is, or an error is
\* reported; DuckDB reports none.
WriteEnded(c, d, ok) ==
  /\ d.backend = c.backend /\ d.tx = "none" /\ d.view = d.db
  /\ d.stmt = FALSE /\ d.buffer = {}
  /\ c.db \subseteq d.db /\ d.db \subseteq c.view \cup c.buffer
  /\ ~ok /\ Atomic(c) => d.db = c.db
  /\ ok /\ c.stmt /\ c.backend # "duckdb" => d.db = c.view \cup c.buffer

\* end_write() leaves no transaction and no write, whatever it returns.
LEMMA EndWriteContract ==
  ASSUME NEW R, NEW c \in Connections(R), Sane(c),
         c.tx = "none" \/ (Atomic(c) /\ c.tx = "open" /\ c.stmt),
         NEW o \in end_write(c)
  PROVE  o.conn \in Connections(R) /\ o.ok \in BOOLEAN /\ WriteEnded(c, o.conn, o.ok)
<1> DEFINE e == [c EXCEPT !.stmt = FALSE]
<1>1. /\ e \in Connections(R) /\ e.backend = c.backend /\ e.db = c.db /\ e.view = c.view
      /\ e.tx = c.tx /\ e.stmt = FALSE /\ e.buffer = c.buffer
  BY DEF Connections
<1> HIDE DEF e
<1>2. CASE o = Ok(Committed(e)) /\ Atomic(c)
  <2>1. o.conn = Committed(e) /\ o.ok = TRUE
    BY <1>2, ResultFields
  <2>2. /\ o.conn \in Connections(R) /\ o.conn.backend = c.backend
        /\ o.conn.db = c.view /\ o.conn.view = c.view /\ o.conn.tx = "none"
        /\ o.conn.stmt = FALSE /\ o.conn.buffer = c.buffer
    BY <1>1, <2>1, TransactionFields, CommittedFields
  <2>. QED BY <1>2, <2>1, <2>2 DEF WriteEnded, Sane
<1>3. CASE o = Fail(RolledBack(e)) /\ Atomic(c)
  <2>1. o.conn = RolledBack(e) /\ o.ok = FALSE
    BY <1>3, ResultFields
  <2>2. /\ o.conn \in Connections(R) /\ o.conn.backend = c.backend
        /\ o.conn.db = c.db /\ o.conn.view = c.db /\ o.conn.tx = "none"
        /\ o.conn.stmt = FALSE /\ o.conn.buffer = c.buffer
    BY <1>1, <2>1, TransactionFields, RolledBackFields
  <2>. QED BY <1>3, <2>1, <2>2 DEF WriteEnded, Sane
<1>4. CASE o = Fail(c) /\ ~c.stmt
  <2>1. o.conn = c /\ o.ok = FALSE
    BY <1>4, ResultFields
  <2>. QED BY <1>4, <2>1 DEF WriteEnded, Sane, Connections
<1>5. ASSUME NEW p, FlushOutcome(c, p), c.tx = "none"
      PROVE  /\ p.conn \in Connections(R) /\ p.ok \in BOOLEAN
             /\ p.conn.backend = c.backend /\ p.conn.tx = "none" /\ p.conn.view = p.conn.db
             /\ p.conn.stmt = FALSE /\ p.conn.buffer = {}
             /\ c.db \subseteq p.conn.db /\ p.conn.db \subseteq c.view \cup c.buffer
             /\ p.ok => p.conn.db = c.view \cup c.buffer
  <2>1. /\ p.conn \in Connections(R) /\ p.ok \in BOOLEAN
        /\ Grew(c, c.buffer, p.conn)
        /\ p.conn.stmt = FALSE /\ p.conn.buffer = {}
        /\ p.ok => p.conn.view = c.view \cup c.buffer
    BY <1>5, FlushFields
  <2>. QED BY <1>5, <2>1 DEF Grew, Sane
<1>6. CASE c.backend = "sqlite"
  <2>1. end_write(c) = IF c.stmt THEN UNION {IF p.ok THEN {p} ELSE {Fail(r.conn) : r \in Sqlite!rollback(p.conn)}
                                             : p \in Sqlite!commit(e)}
                       ELSE {Fail(c)}
    BY <1>6, Zenon DEF end_write, Sqlite!end_write, Sqlite!OrElse, Sqlite!Fail, Fail, e
  <2>2. Sqlite!commit(e) = IF e.tx = "none" THEN {Fail(e)} ELSE {Ok(Committed(e)), Fail(e)}
    BY DEF Sqlite!commit, Sqlite!Committed, Sqlite!Ok, Sqlite!Fail, Committed, Ok, Fail
  <2>3. Sqlite!rollback(e) = {IF e.tx = "none" THEN Fail(e) ELSE Ok(RolledBack(e))}
    BY DEF Sqlite!rollback, Sqlite!RolledBack, Sqlite!Ok, Sqlite!Fail, RolledBack, Ok, Fail
  <2>4. e.tx = "none" => RolledBack(e) = e
    BY <1>1, TransactionFields DEF Sane
  <2>5. CASE c.stmt
    <3>1. PICK p \in Sqlite!commit(e) : o \in IF p.ok THEN {p} ELSE {Fail(r.conn) : r \in Sqlite!rollback(p.conn)}
      BY <2>1, <2>5
    <3>2. CASE p = Ok(Committed(e))
      BY <1>2, <1>6, <3>1, <3>2, ResultFields DEF Atomic
    <3>3. CASE p = Fail(e)
      <4>1. p.conn = e /\ p.ok = FALSE
        BY <3>3, ResultFields
      <4>2. PICK r \in Sqlite!rollback(e) : o = Fail(r.conn)
        BY <3>1, <4>1
      <4>3. r.conn = RolledBack(e)
        BY <2>3, <2>4, <4>2, ResultFields
      <4>. QED BY <1>3, <1>6, <4>2, <4>3 DEF Atomic
    <3>. QED BY <2>2, <3>2, <3>3
  <2>. QED BY <1>4, <2>1, <2>5
<1>7. CASE c.backend = "mysql"
  <2>1. end_write(c) = {Ok(Committed(e)), Fail(RolledBack(e))}
    BY <1>7, Zenon DEF end_write, Mysql!end_write, Mysql!commit, Mysql!Committed, Mysql!RolledBack, Mysql!Ok,
                Mysql!Fail, Committed, RolledBack, Ok, Fail, e
  <2>. QED BY <1>2, <1>3, <1>7, <2>1 DEF Atomic
<1>8. CASE c.backend = "postgres"
  <2>1. end_write(c) = IF c.stmt THEN Postgres!CopyDone(c) ELSE {Fail(c)}
    BY <1>8, Zenon DEF end_write, Postgres!end_write, Postgres!Fail, Fail
  <2>2. CASE c.stmt
    <3>1. FlushOutcome(c, o) /\ c.tx = "none"
      BY <1>8, <2>1, <2>2, CopyFlushes DEF Atomic
    <3>. QED BY <1>5, <1>8, <3>1 DEF WriteEnded, Atomic
  <2>. QED BY <1>4, <2>1, <2>2
<1>9. CASE c.backend = "duckdb"
  <2>1. end_write(c) = IF c.stmt THEN {Ok(p.conn) : p \in Duckdb!Flush(c)} ELSE {Fail(c)}
    BY <1>9, Zenon DEF end_write, Duckdb!end_write, Duckdb!DropAppender, Duckdb!Ok, Duckdb!Fail, Ok, Fail
  <2>2. CASE c.stmt
    <3>1. PICK p \in Duckdb!Flush(c) : o = Ok(p.conn)
      BY <2>1, <2>2
    <3>2. FlushOutcome(c, p) /\ c.tx = "none"
      BY <1>9, AppenderFlushes DEF Atomic
    <3>3. o.conn = p.conn /\ o.ok = TRUE
      BY <3>1, ResultFields
    <3>. QED BY <1>5, <1>9, <3>2, <3>3 DEF WriteEnded, Atomic
  <2>. QED BY <1>4, <2>1, <2>2
<1>. QED BY <1>6, <1>7, <1>8, <1>9, FourBackends

-----------------------------------------------------------------------------
\* insert(): outside a transaction its rows are committed, all of them if it
\* succeeds; within one it commits nothing.
Inserted(c, b, d, ok) ==
  /\ d.backend = c.backend /\ d.stmt = FALSE /\ d.buffer = {}
  /\ d.db \subseteq d.view
  /\ d.tx = "none" => d.view = d.db
  /\ c.tx = "none" => /\ d.tx = "none"
                      /\ c.db \subseteq d.db /\ d.db \subseteq c.db \cup b
                      /\ ok => b \subseteq d.db
  /\ c.tx = "open" => /\ d.db = c.db
                      /\ ok => d.tx = "open" /\ d.view = c.view \cup b

\* How the row by row loops end.
LoopOutcome(c, b, o) ==
  \/ o = Ok(Stored(c, b)) \/ o = Fail(c) \/ o = Fail(RolledBack(c))
  \/ \E w \in SUBSET b : \E d : o = Fail(d) /\ MayAbort(Stored(c, w), d)

\* However the loop ends, it keeps what insert() promises.
LEMMA LoopFields ==
  ASSUME NEW R, NEW c \in Connections(R), NEW b \in SUBSET R, Sane(c), ~c.stmt, c.tx \in {"none", "open"},
         NEW o, LoopOutcome(c, b, o)
  PROVE  o.conn \in Connections(R) /\ o.ok \in BOOLEAN /\ Inserted(c, b, o.conn, o.ok)
<1>1. ASSUME NEW w \in SUBSET b
      PROVE  /\ Stored(c, w) \in Connections(R)
             /\ Stored(c, w).backend = c.backend /\ Stored(c, w).tx = c.tx
             /\ Stored(c, w).stmt = c.stmt /\ Stored(c, w).buffer = c.buffer
             /\ Stored(c, w).view = c.view \cup w
             /\ c.tx = "none" => Stored(c, w).db = c.db \cup w
             /\ c.tx # "none" => Stored(c, w).db = c.db
  <2>1. w \in SUBSET R
    OBVIOUS
  <2>. QED BY <2>1, StoredFields
<1>2. c.stmt = FALSE /\ c.buffer = {}
  BY DEF Connections, Sane
<1>3. CASE o = Ok(Stored(c, b))
  <2>1. o.conn = Stored(c, b) /\ o.ok = TRUE
    BY <1>3, ResultFields
  <2>2. b \in SUBSET b
    OBVIOUS
  <2>3. Stored(c, b) \in Connections(R) /\ Inserted(c, b, Stored(c, b), TRUE)
    BY <1>1, <1>2, <2>2 DEF Inserted, Sane
  <2>. QED BY <2>1, <2>3
<1>4. CASE o = Fail(c)
  <2>1. o.conn = c /\ o.ok = FALSE
    BY <1>4, ResultFields
  <2>. QED BY <1>2, <2>1 DEF Inserted, Sane
<1>5. CASE o = Fail(RolledBack(c))
  <2>1. o.conn = RolledBack(c) /\ o.ok = FALSE
    BY <1>5, ResultFields
  <2>2. RolledBack(c) \in Connections(R)
    BY TransactionFields
  <2>3. Inserted(c, b, RolledBack(c), FALSE)
    BY <1>2, RolledBackFields DEF Inserted
  <2>. QED BY <2>1, <2>2, <2>3
<1>6. ASSUME NEW w \in SUBSET b, NEW d, o = Fail(d), MayAbort(Stored(c, w), d)
      PROVE  o.conn \in Connections(R) /\ o.ok = FALSE /\ Inserted(c, b, o.conn, FALSE)
  <2>1. o.conn = d /\ o.ok = FALSE
    BY <1>6, ResultFields
  <2>2. /\ d \in Connections(R)
        /\ d.backend = c.backend /\ d.db = Stored(c, w).db /\ d.view = c.view \cup w
        /\ c.tx = "none" => d.tx = "none"
        /\ c.tx # "none" => d.tx # "none"
        /\ d.stmt = c.stmt /\ d.buffer = c.buffer
    BY <1>1, <1>6, AbortedFields
  <2>. QED BY <1>1, <1>2, <2>1, <2>2 DEF Inserted, Sane
<1>7. CASE \E w \in SUBSET b : \E d : o = Fail(d) /\ MayAbort(Stored(c, w), d)
  <2>1. o.conn \in Connections(R) /\ o.ok = FALSE /\ Inserted(c, b, o.conn, FALSE)
    BY <1>6, <1>7
  <2>. QED BY <2>1
<1>. QED BY <1>3, <1>4, <1>5, <1>7 DEF LoopOutcome

\* insert() of SQLite and MySQL: a failed statement may roll everything back.
AtomicLoop(c, b) ==
  UNION {IF p.ok THEN {Ok(Stored(p.conn, b))} \cup
                      {Fail(d) : d \in {Stored(p.conn, w) : w \in (SUBSET b) \ {b}} \cup {RolledBack(p.conn)}}
                 ELSE {p} : p \in {Ok(c), Fail(c)}}

LEMMA LoopEnds ==
  ASSUME NEW c, NEW b,
         NEW o \in AtomicLoop(c, b)
  PROVE  \/ o = Ok(Stored(c, b)) \/ o = Fail(c) \/ o = Fail(RolledBack(c))
         \/ \E w \in SUBSET b : o = Fail(Stored(c, w))
<1> DEFINE Loop(d) == {Ok(Stored(d, b))} \cup
                      {Fail(e) : e \in {Stored(d, w) : w \in (SUBSET b) \ {b}} \cup {RolledBack(d)}}
<1>1. PICK p \in {Ok(c), Fail(c)} : o \in IF p.ok THEN Loop(p.conn) ELSE {p}
  BY DEF AtomicLoop
<1>2. CASE p = Fail(c)
  <2>. HIDE DEF Loop
  <2>. QED BY <1>1, <1>2, ResultFields
<1>3. CASE p = Ok(c)
  <2>1. o \in Loop(c)
    <3>. HIDE DEF Loop
    <3>. QED BY <1>1, <1>3, ResultFields
  <2>. QED BY <2>1
<1>. QED BY <1>2, <1>3

LEMMA LoopCases ==
  ASSUME NEW c, NEW b,
         NEW o \in AtomicLoop(c, b)
  PROVE  LoopOutcome(c, b, o)
<1>1. \/ o = Ok(Stored(c, b)) \/ o = Fail(c) \/ o = Fail(RolledBack(c))
      \/ \E w \in SUBSET b : o = Fail(Stored(c, w))
  BY LoopEnds
<1>. QED BY <1>1 DEF LoopOutcome, MayAbort

\* The loop behind the statement that is prepared.
LEMMA AtomicLoops ==
  ASSUME NEW c, NEW b, Atomic(c), NEW o \in insert_impl(c, b)
  PROVE  o \in AtomicLoop(c, b)
<1>1. CASE c.backend = "sqlite"
  BY <1>1, Zenon DEF AtomicLoop, insert_impl, Sqlite!insert_impl, Sqlite!AndThen, Sqlite!prepare_statement,
              Sqlite!actual_insert, Sqlite!StoredPartly, Sqlite!Stored, Sqlite!RolledBack, Sqlite!Ok, Sqlite!Fail,
              Stored, RolledBack, Ok, Fail
<1>2. CASE c.backend = "mysql"
  BY <1>2, Zenon DEF AtomicLoop, insert_impl, Mysql!insert_impl, Mysql!AndThen, Mysql!prepare_statement,
              Mysql!actual_insert, Mysql!StoredPartly, Mysql!Stored, Mysql!RolledBack, Mysql!Ok, Mysql!Fail,
              Stored, RolledBack, Ok, Fail
<1>. QED BY <1>1, <1>2 DEF Atomic

\* Their transactions are rolled back or go on, but are not aborted.
LEMMA AtomicInsert ==
  ASSUME NEW R, NEW c \in Connections(R), NEW b \in SUBSET R, Atomic(c), c.tx # "aborted",
         NEW o \in insert_impl(c, b)
  PROVE  o.conn.tx # "aborted"
<1>1. \/ o = Ok(Stored(c, b)) \/ o = Fail(c) \/ o = Fail(RolledBack(c))
      \/ \E w \in SUBSET b : o = Fail(Stored(c, w))
  BY AtomicLoops, LoopEnds
<1>2. \A w \in SUBSET b : Stored(c, w).tx = c.tx
  <2>1. \A w \in SUBSET b : w \in SUBSET R
    OBVIOUS
  <2>. QED BY <2>1, StoredFields
<1>3. b \in SUBSET b
  OBVIOUS
<1>4. RolledBack(c).tx = "none"
  BY RolledBackFields
<1>5. \A d : Ok(d).conn = d /\ Fail(d).conn = d
  BY ResultFields
<1>. QED BY <1>1, <1>2, <1>3, <1>4, <1>5

\* PostgreSQL: PREPARE, a statement for each row, DEALLOCATE.
LEMMA PostgresLoop ==
  ASSUME NEW R, NEW c \in Connections(R), NEW b \in SUBSET R, c.tx \in {"none", "open"},
         NEW o \in Postgres!insert_impl(c, b)
  PROVE  LoopOutcome(c, b, o)
<1> DEFINE Rest(d) == UNION {IF p.ok THEN Postgres!execute(p.conn) ELSE {p} : p \in Postgres!Executed(d, b)}
<1>1. ASSUME NEW d, NEW x \in Postgres!execute(d) PROVE x = Ok(d) \/ \E e : x = Fail(e) /\ MayAbort(d, e)
  BY DEF Postgres!execute, Postgres!Aborted, Postgres!Ok, Postgres!Fail, Ok, Fail, MayAbort
<1>2. ASSUME NEW x \in Postgres!Executed(c, b)
      PROVE  x = Ok(Stored(c, b)) \/ \E w \in SUBSET b : \E e : x = Fail(e) /\ MayAbort(Stored(c, w), e)
  <2>1. Postgres!Executed(c, b) =
          {Ok(Stored(c, b))} \cup
          {Fail(IF d.tx = "open" THEN [d EXCEPT !.tx = "aborted"] ELSE d)
           : d \in {Stored(c, w) : w \in (SUBSET b) \ {b}}}
    BY Zenon DEF Postgres!Executed, Postgres!StoredPartly, Postgres!Stored, Postgres!Aborted, Postgres!Ok, Postgres!Fail,
           Stored, Ok, Fail
  <2>2. CASE \E w \in SUBSET b : \E d : /\ d = Stored(c, w)
                                      /\ x = Fail(IF d.tx = "open" THEN [d EXCEPT !.tx = "aborted"] ELSE d)
    <3>1. PICK w \in SUBSET b : \E d : /\ d = Stored(c, w)
                                     /\ x = Fail(IF d.tx = "open" THEN [d EXCEPT !.tx = "aborted"] ELSE d)
      BY <2>2
    <3>2. PICK d : d = Stored(c, w) /\ x = Fail(IF d.tx = "open" THEN [d EXCEPT !.tx = "aborted"] ELSE d)
      BY <3>1
    <3>3. \E e : x = Fail(e) /\ MayAbort(d, e)
      BY <3>2 DEF MayAbort
    <3>. QED BY <3>2, <3>3
  <2>. QED BY <2>1, <2>2
<1>3. PICK p \in Postgres!execute(c) : o \in IF p.ok THEN Rest(p.conn) ELSE {p}
  BY DEF Postgres!insert_impl, Postgres!AndThen
<1>4. c = Stored(c, {})
  BY DEF Stored, Connections
<1>5. CASE p = Ok(c)
  <2>1. PICK q \in Postgres!Executed(c, b) : o \in IF q.ok THEN Postgres!execute(q.conn) ELSE {q}
    BY <1>3, <1>5, ResultFields
  <2>2. CASE q = Ok(Stored(c, b))
    <3>1. o \in Postgres!execute(Stored(c, b))
      BY <2>1, <2>2, ResultFields
    <3>2. b \in SUBSET b
      OBVIOUS
    <3>. QED BY <1>1, <3>1, <3>2 DEF LoopOutcome
  <2>3. CASE \E w \in SUBSET b : \E e : q = Fail(e) /\ MayAbort(Stored(c, w), e)
    BY <2>1, <2>3, ResultFields DEF LoopOutcome
  <2>. QED BY <1>2, <2>2, <2>3
<1>6. CASE \E e : p = Fail(e) /\ MayAbort(c, e)
  <2>1. {} \in SUBSET b
    OBVIOUS
  <2>2. PICK e : p = Fail(e) /\ MayAbort(Stored(c, {}), e)
    BY <1>4, <1>6
  <2>3. o = Fail(e)
    BY <1>3, <2>2, ResultFields
  <2>. QED BY <2>1, <2>2, <2>3 DEF LoopOutcome
<1>. QED BY <1>1, <1>5, <1>6

\* DuckDB: the appender of an insert is made, filled and closed.
LEMMA DuckdbInsert ==
  ASSUME NEW R, NEW c \in Connections(R), NEW b \in SUBSET R, Sane(c), ~c.stmt, c.tx \in {"none", "open"},
         c.backend = "duckdb", NEW o \in Duckdb!insert_impl(c, b)
  PROVE  o.conn \in Connections(R) /\ o.ok \in BOOLEAN /\ Inserted(c, b, o.conn, o.ok)
<1> DEFINE m == [c EXCEPT !.stmt = TRUE]
           Made == Duckdb!MakeAppender(c)
           Kept(d) == UNION {IF a.ok THEN {a} ELSE {Fail(r.conn) : r \in {Ok(f.conn) : f \in Duckdb!Flush(a.conn)}}
                             : a \in Duckdb!write_to_appender(d, b)}
<1>0. c.stmt = FALSE /\ c.buffer = {}
  BY DEF Connections, Sane
<1>1. ASSUME NEW d, MayAbort(c, d), o = Fail(d)
      PROVE  o.conn \in Connections(R) /\ o.ok \in BOOLEAN /\ Inserted(c, b, o.conn, o.ok)
  <2>1. o.conn = d /\ o.ok = FALSE
    BY <1>1, ResultFields
  <2>2. /\ d \in Connections(R)
        /\ d.backend = c.backend /\ d.db = c.db /\ d.view = c.view
        /\ c.tx = "none" => d.tx = "none"
        /\ c.tx # "none" => d.tx # "none"
        /\ d.stmt = c.stmt /\ d.buffer = c.buffer
    BY <1>1, AbortedFields
  <2>. QED BY <1>0, <2>1, <2>2 DEF Inserted, Sane
<1>2. ASSUME NEW x, x \in Duckdb!execute(c) PROVE x = Ok(c) \/ \E d : x = Fail(d) /\ MayAbort(c, d)
  BY <1>2 DEF Duckdb!execute, Duckdb!Failures, Duckdb!Aborted, Duckdb!Ok, Duckdb!Fail, Ok, Fail, MayAbort
<1>3. ASSUME NEW x, x \in Made PROVE x = Ok(m) \/ \E d : x = Fail(d) /\ MayAbort(c, d)
  <2>1. PICK q \in UNION {IF p.ok THEN Duckdb!execute(p.conn) ELSE {p} : p \in Duckdb!execute(c)} :
          x \in IF q.ok THEN {Ok([q.conn EXCEPT !.stmt = TRUE])} ELSE {q}
    BY <1>3 DEF Duckdb!MakeAppender, Duckdb!AndThen, Duckdb!Ok, Ok
  <2>2. PICK p \in Duckdb!execute(c) : q \in IF p.ok THEN Duckdb!execute(p.conn) ELSE {p}
    OBVIOUS
  <2>3. p = Ok(c) \/ \E d : p = Fail(d) /\ MayAbort(c, d)
    BY <1>2
  <2>4. q = Ok(c) \/ \E d : q = Fail(d) /\ MayAbort(c, d)
    <3>1. CASE p = Ok(c)
      BY <1>2, <2>2, <3>1, ResultFields
    <3>2. CASE \E d : p = Fail(d) /\ MayAbort(c, d)
      BY <2>2, <3>2, ResultFields
    <3>. QED BY <2>3, <3>1, <3>2
  <2>5. CASE q = Ok(c)
    BY <2>1, <2>5, ResultFields
  <2>6. CASE \E d : q = Fail(d) /\ MayAbort(c, d)
    BY <2>1, <2>6, ResultFields
  <2>. QED BY <2>4, <2>5, <2>6
<1>4. /\ m \in Connections(R) /\ m.backend = c.backend /\ m.db = c.db /\ m.view = c.view
      /\ m.tx = c.tx /\ m.stmt = TRUE /\ m.buffer = {}
  BY <1>0 DEF Connections
<1>5. Sane(m)
  BY <1>4 DEF Sane, Atomic
<1>6. PICK q \in UNION {IF p.ok THEN Kept(p.conn) ELSE {p} : p \in Made} :
        o \in IF q.ok THEN Duckdb!Flush(q.conn) ELSE {q}
  <2>1. Duckdb!insert_impl(c, b) =
          UNION {IF q.ok THEN Duckdb!Flush(q.conn) ELSE {q}
                 : q \in UNION {IF p.ok THEN Kept(p.conn) ELSE {p} : p \in Made}}
    BY Zenon DEF Duckdb!insert_impl, Duckdb!AndThen, Duckdb!OrElse, Duckdb!DropAppender, Duckdb!Ok, Duckdb!Fail, Ok, Fail
  <2>. HIDE DEF Kept, Made
  <2>. QED BY <2>1
<1>7. PICK p \in Made : q \in IF p.ok THEN Kept(p.conn) ELSE {p}
  <2>. HIDE DEF Kept, Made
  <2>. QED OBVIOUS
<1>8. CASE \E d : p = Fail(d) /\ MayAbort(c, d)
  <2>1. PICK d : p = Fail(d) /\ MayAbort(c, d)
    BY <1>8
  <2>2. o = Fail(d)
    <3>. HIDE DEF Kept, Made
    <3>. QED BY <1>6, <1>7, <2>1, ResultFields
  <2>. QED BY <1>1, <2>1, <2>2
<1>9. CASE p = Ok(m)
  <2>1. q \in Kept(m)
    <3>. HIDE DEF Kept, Made, m
    <3>. QED BY <1>7, <1>9, ResultFields
  <2>2. PICK a \in Duckdb!write_to_appender(m, b) :
          q \in IF a.ok THEN {a} ELSE {Fail(r.conn) : r \in {Ok(f.conn) : f \in Duckdb!Flush(a.conn)}}
    <3>. HIDE DEF m
    <3>. QED BY <2>1
  <2>3. a.conn \in Connections(R) /\ a.ok \in BOOLEAN /\ Appends(m, b, a.conn, a.ok)
    BY <1>4, <1>5, AppenderContract
  <2>4. /\ a.conn.backend = c.backend /\ a.conn.stmt = TRUE /\ a.conn.buffer \subseteq b
        /\ c.view \subseteq a.conn.view /\ a.conn.view \subseteq c.view \cup b
        /\ c.tx = "none" => a.conn.tx = "none" /\ a.conn.db = a.conn.view
        /\ c.tx # "none" => a.conn.tx # "none" /\ a.conn.db = c.db
        /\ a.ok => a.conn.tx = c.tx /\ a.conn.view \cup a.conn.buffer = c.view \cup b
    <3>. HIDE DEF m
    <3>. QED BY <1>4, <2>3 DEF Appends, Grew
  <2>5. Sane(a.conn)
    BY <2>4 DEF Sane, Atomic
  <2>6. ASSUME NEW f \in Duckdb!Flush(a.conn)
        PROVE  /\ f.conn \in Connections(R) /\ f.ok \in BOOLEAN
               /\ Grew(a.conn, a.conn.buffer, f.conn)
               /\ f.conn.stmt = FALSE /\ f.conn.buffer = {}
               /\ f.ok => f.conn.view = a.conn.view \cup a.conn.buffer /\ f.conn.tx = a.conn.tx
    BY <2>3, <2>5, AppenderFlushes, FlushFields
  <2>7. CASE a.ok
    <3>1. q = a /\ o \in Duckdb!Flush(a.conn)
      BY <1>6, <2>2, <2>7
    <3>2. /\ o.conn \in Connections(R) /\ o.ok \in BOOLEAN
          /\ Grew(a.conn, a.conn.buffer, o.conn)
          /\ o.conn.stmt = FALSE /\ o.conn.buffer = {}
          /\ o.ok => o.conn.view = a.conn.view \cup a.conn.buffer /\ o.conn.tx = a.conn.tx
      BY <2>6, <3>1
    <3>. QED BY <2>4, <2>7, <3>2 DEF Inserted, Grew, Sane
  <2>8. CASE ~a.ok
    <3>1. PICK f \in Duckdb!Flush(a.conn) : q = Fail(f.conn)
      <4>1. PICK r \in {Ok(f.conn) : f \in Duckdb!Flush(a.conn)} : q = Fail(r.conn)
        BY <2>2, <2>8
      <4>2. PICK f \in Duckdb!Flush(a.conn) : r = Ok(f.conn)
        BY <4>1
      <4>3. r.conn = f.conn
        BY <4>2, ResultFields
      <4>. QED BY <4>1, <4>3
    <3>2. o.conn = f.conn /\ o.ok = FALSE
      BY <1>6, <3>1, ResultFields
    <3>. QED BY <2>4, <2>6, <3>2 DEF Inserted, Grew, Sane
  <2>. QED BY <2>7, <2>8
<1>. QED BY <1>3, <1>8, <1>9

\* insert() of any backend keeps that promise.
LEMMA InsertContract ==
  ASSUME NEW R, NEW c \in Connections(R), NEW b \in SUBSET R, Sane(c), ~c.stmt, c.tx \in {"none", "open"},
         NEW o \in insert_impl(c, b)
  PROVE  o.conn \in Connections(R) /\ o.ok \in BOOLEAN /\ Inserted(c, b, o.conn, o.ok)
<1>1. CASE Atomic(c)
  BY <1>1, AtomicLoops, LoopCases, LoopFields
<1>2. CASE c.backend = "postgres"
  <2>1. o \in Postgres!insert_impl(c, b)
    BY <1>2, Zenon DEF insert_impl
  <2>. QED BY <2>1, PostgresLoop, LoopFields
<1>3. CASE c.backend = "duckdb"
  <2>1. o \in Duckdb!insert_impl(c, b)
    BY <1>3, Zenon DEF insert_impl
  <2>. QED BY <1>3, <2>1, DuckdbInsert
<1>. QED BY <1>1, <1>2, <1>3, FourBackends DEF Atomic

-----------------------------------------------------------------------------
(* The calls of a Transaction in any state of the server's transaction: a  *)
(* range on the same connection may have begun or ended it.                *)

\* The call leaves no write behind, and no aborted transaction where the server
\* has no such thing.
Orderly(R, c, o) ==
  /\ o.conn \in Connections(R) /\ o.ok \in BOOLEAN
  /\ o.conn.backend = c.backend
  /\ Sane(o.conn) /\ ~o.conn.stmt
  /\ Atomic(c) /\ c.tx # "aborted" => o.conn.tx # "aborted"

LEMMA BegunFields ==
  ASSUME NEW R, NEW c \in Connections(R)
  PROVE  /\ Begun(c) \in Connections(R)
         /\ Begun(c).backend = c.backend /\ Begun(c).db = c.db /\ Begun(c).view = c.view
         /\ Begun(c).tx = "open" /\ Begun(c).stmt = c.stmt /\ Begun(c).buffer = c.buffer
BY DEF Begun, Connections

LEMMA BeginCall ==
  ASSUME NEW R, NEW c \in Connections(R), Sane(c), ~c.stmt,
         c.tx # "none" => c.backend \in {"postgres", "mysql"}, NEW o \in begin_transaction(c)
  PROVE  /\ Orderly(R, c, o)
         /\ IF o.ok THEN o.conn.tx = "open" ELSE o.conn = c
         /\ c.view = c.db => o.conn.view = c.db /\ o.conn.db = c.db
<1>1. \/ o = Fail(c) \/ o = Ok(Begun(c)) \/ o = Ok(Begun(Committed(c)))
  <2>1. CASE c.tx = "none"
    BY <2>1, BeginContract
  <2>2. CASE c.tx # "none" /\ c.backend = "postgres"
    BY <2>2 DEF begin_transaction, Postgres!begin_transaction, Postgres!Begun, Postgres!Ok, Postgres!Fail, Begun, Ok, Fail
  <2>3. CASE c.tx # "none" /\ c.backend = "mysql"
    BY <2>3 DEF begin_transaction, Mysql!begin_transaction, Mysql!Begun, Mysql!Committed, Mysql!Ok, Mysql!Fail,
                Begun, Ok, Fail, Committed
  <2>. QED BY <2>1, <2>2, <2>3
<1>2. ASSUME NEW d \in Connections(R), o = Ok(Begun(d)), d.backend = c.backend, d.view = c.view,
             d.db = c.db \/ d.db = c.view, d.stmt = c.stmt, d.buffer = c.buffer
      PROVE  /\ Orderly(R, c, o)
             /\ IF o.ok THEN o.conn.tx = "open" ELSE o.conn = c
             /\ c.view = c.db => o.conn.view = c.db /\ o.conn.db = c.db
  <2>1. o.conn = Begun(d) /\ o.ok = TRUE
    BY <1>2, ResultFields
  <2>2. /\ o.conn \in Connections(R) /\ o.conn.backend = c.backend /\ o.conn.db = d.db /\ o.conn.view = c.view
        /\ o.conn.tx = "open" /\ o.conn.stmt = c.stmt /\ o.conn.buffer = c.buffer
    BY <1>2, <2>1, BegunFields
  <2>. QED BY <1>2, <2>1, <2>2 DEF Orderly, Sane, Atomic
<1>3. CASE o = Fail(c)
  BY <1>3, ResultFields DEF Orderly
<1>4. CASE o = Ok(Begun(c))
  BY <1>2, <1>4
<1>5. CASE o = Ok(Begun(Committed(c)))
  <2>1. Committed(c) \in Connections(R)
    BY TransactionFields
  <2>. QED BY <1>2, <1>5, <2>1, CommittedFields
<1>. QED BY <1>1, <1>3, <1>4, <1>5

LEMMA EndedFields ==
  ASSUME NEW R, NEW c \in Connections(R), Sane(c), ~c.stmt
  PROVE  /\ Committed(c) \in Connections(R) /\ Committed(c).backend = c.backend
         /\ Sane(Committed(c)) /\ ~Committed(c).stmt
         /\ RolledBack(c) \in Connections(R) /\ RolledBack(c).backend = c.backend
         /\ Sane(RolledBack(c)) /\ ~RolledBack(c).stmt
BY TransactionFields, CommittedFields, RolledBackFields DEF Sane, Atomic

LEMMA CommitCall ==
  ASSUME NEW R, NEW c \in Connections(R), Sane(c), ~c.stmt, NEW o \in commit(c)
  PROVE  /\ Orderly(R, c, o)
         /\ o.ok => o.conn.tx = "none" /\ o.conn.view = o.conn.db
         /\ o.ok /\ c.tx = "open" => o.conn.db = c.view
         /\ o.ok /\ c.tx = "aborted" => c.backend # "duckdb"
         /\ ~o.ok => o.conn.db = c.db
         /\ c.backend = "postgres" => o.conn.tx = "none"
<1>1. \/ o = Ok(Committed(c)) /\ (c.tx = "aborted" => c.backend # "duckdb")
      \/ o = Ok(RolledBack(c)) /\ c.backend = "postgres" /\ c.tx # "open"
      \/ o = Fail(c) /\ c.backend # "postgres"
      \/ o = Fail(RolledBack(c))
  <2>1. CASE c.backend = "sqlite"
    BY <2>1 DEF commit, Sqlite!commit, Sqlite!Committed, Sqlite!Ok, Sqlite!Fail, Committed, Ok, Fail
  <2>2. CASE c.backend = "postgres"
    BY <2>2 DEF commit, Postgres!commit, Postgres!Committed, Postgres!RolledBack, Postgres!Ok, Postgres!Fail,
                Committed, RolledBack, Ok, Fail
  <2>3. CASE c.backend = "mysql"
    BY <2>3 DEF commit, Mysql!commit, Mysql!Committed, Mysql!RolledBack, Mysql!Ok, Mysql!Fail,
                Committed, RolledBack, Ok, Fail
  <2>4. CASE c.backend = "duckdb"
    <3>1. o \in Duckdb!commit(c) /\ c.tx \in {"none", "open", "aborted"}
      BY <2>4, Zenon DEF commit, Connections
    <3>. QED BY <2>4, <3>1 DEF Duckdb!commit, Duckdb!Committed, Duckdb!RolledBack, Duckdb!Ok, Duckdb!Fail,
                Committed, RolledBack, Ok, Fail
  <2>. QED BY <2>1, <2>2, <2>3, <2>4, FourBackends
<1>2. CASE o = Ok(Committed(c)) /\ (c.tx = "aborted" => c.backend # "duckdb")
  <2>1. o.conn = Committed(c) /\ o.ok = TRUE
    BY <1>2, ResultFields
  <2>2. o.conn \in Connections(R) /\ o.conn.backend = c.backend /\ Sane(o.conn) /\ ~o.conn.stmt
    BY <2>1, EndedFields
  <2>3. o.conn.tx = "none" /\ o.conn.view = o.conn.db /\ o.conn.db = c.view
    BY <2>1, CommittedFields
  <2>. QED BY <1>2, <2>1, <2>2, <2>3 DEF Orderly
<1>3. CASE o = Ok(RolledBack(c)) /\ c.backend = "postgres" /\ c.tx # "open"
  <2>1. o.conn = RolledBack(c) /\ o.ok = TRUE
    BY <1>3, ResultFields
  <2>2. o.conn \in Connections(R) /\ o.conn.backend = c.backend /\ Sane(o.conn) /\ ~o.conn.stmt
    BY <2>1, EndedFields
  <2>3. o.conn.tx = "none" /\ o.conn.view = o.conn.db /\ o.conn.db = c.db
    BY <2>1, RolledBackFields
  <2>. QED BY <1>3, <2>1, <2>2, <2>3 DEF Orderly
<1>4. CASE o = Fail(c) /\ c.backend # "postgres"
  BY <1>4, ResultFields DEF Orderly
<1>5. CASE o = Fail(RolledBack(c))
  <2>1. o.conn = RolledBack(c) /\ o.ok = FALSE
    BY <1>5, ResultFields
  <2>2. o.conn \in Connections(R) /\ o.conn.backend = c.backend /\ Sane(o.conn) /\ ~o.conn.stmt
    BY <2>1, EndedFields
  <2>3. o.conn.tx = "none" /\ o.conn.view = o.conn.db /\ o.conn.db = c.db
    BY <2>1, RolledBackFields
  <2>. QED BY <1>5, <2>1, <2>2, <2>3 DEF Orderly
<1>. QED BY <1>1, <1>2, <1>3, <1>4, <1>5

LEMMA RollbackCall ==
  ASSUME NEW R, NEW c \in Connections(R), Sane(c), ~c.stmt, NEW o \in rollback(c)
  PROVE  Orderly(R, c, o) /\ o.conn.tx = "none" /\ o.conn.db = c.db /\ o.conn.view = c.db
<1>1. o = Ok(RolledBack(c)) \/ o = Fail(RolledBack(c))
  BY RollbackContract
<1>2. o.conn = RolledBack(c) /\ o.ok \in BOOLEAN
  BY <1>1, ResultFields
<1>3. o.conn \in Connections(R) /\ o.conn.backend = c.backend /\ Sane(o.conn) /\ ~o.conn.stmt
  BY <1>2, EndedFields
<1>4. o.conn.tx = "none" /\ o.conn.view = c.db /\ o.conn.db = c.db
  BY <1>2, RolledBackFields
<1>. QED BY <1>2, <1>3, <1>4 DEF Orderly

LEMMA InsertCall ==
  ASSUME NEW R, NEW c \in Connections(R), Sane(c), ~c.stmt, c.tx = "aborted" => ~Atomic(c),
         NEW b \in SUBSET R, NEW o \in insert_impl(c, b)
  PROVE  /\ Orderly(R, c, o)
         /\ c.tx = "open" => o.conn.db = c.db /\ (o.ok => o.conn.tx = "open" /\ o.conn.view = c.view \cup b)
         /\ c.tx = "aborted" => ~o.ok /\ o.conn = c
<1>1. CASE c.tx = "aborted"
  <2>1. c.backend = "postgres" \/ c.backend = "duckdb"
    BY <1>1, FourBackends DEF Atomic
  <2>2. o = Fail(c)
    <3>1. CASE c.backend = "postgres"
      <4>1. Postgres!execute(c) = {Fail(c)}
        BY <1>1 DEF Postgres!execute, Postgres!Fail, Fail
      <4>2. o \in Postgres!insert_impl(c, b)
        BY <3>1, Zenon DEF insert_impl
      <4>. QED BY <4>1, <4>2, ResultFields DEF Postgres!insert_impl, Postgres!AndThen
    <3>2. CASE c.backend = "duckdb"
      <4>1. Duckdb!execute(c) = {Fail(c)}
        BY <1>1 DEF Duckdb!execute, Duckdb!Fail, Fail
      <4>2. \A x \in Duckdb!MakeAppender(c) : x = Fail(c)
        BY <4>1, ResultFields DEF Duckdb!MakeAppender, Duckdb!AndThen
      <4>. DEFINE Made == Duckdb!MakeAppender(c)
                  Filled(d) == UNION {IF a.ok THEN {a} ELSE {Fail(x.conn) : x \in {Ok(f.conn) : f \in Duckdb!Flush(a.conn)}}
                                      : a \in Duckdb!write_to_appender(d, b)}
      <4>3. o \in UNION {IF q.ok THEN Duckdb!Flush(q.conn) ELSE {q}
                         : q \in UNION {IF p.ok THEN Filled(p.conn) ELSE {p} : p \in Made}}
        BY <3>2, Zenon DEF insert_impl, Duckdb!insert_impl, Duckdb!AndThen, Duckdb!OrElse, Duckdb!DropAppender,
                           Duckdb!Ok, Duckdb!Fail, Ok, Fail
      <4>. HIDE DEF Made, Filled
      <4>4. PICK q \in UNION {IF p.ok THEN Filled(p.conn) ELSE {p} : p \in Made} :
              o \in IF q.ok THEN Duckdb!Flush(q.conn) ELSE {q}
        BY <4>3
      <4>5. q = Fail(c)
        <5>1. PICK p \in Made : q \in IF p.ok THEN Filled(p.conn) ELSE {p}
          OBVIOUS
        <5>. QED BY <4>2, <5>1, ResultFields DEF Made
      <4>. QED BY <4>4, <4>5, ResultFields
    <3>. QED BY <2>1, <3>1, <3>2
  <2>. QED BY <1>1, <2>2, ResultFields DEF Orderly
<1>2. CASE c.tx \in {"none", "open"}
  <2>1. o.conn \in Connections(R) /\ o.ok \in BOOLEAN /\ Inserted(c, b, o.conn, o.ok)
    BY <1>2, InsertContract
  <2>2. Atomic(c) => o.conn.tx # "aborted"
    BY <1>2, AtomicInsert
  <2>. QED BY <1>2, <2>1, <2>2 DEF Orderly, Inserted, Sane
<1>. QED BY <1>1, <1>2 DEF Connections

=============================================================================
