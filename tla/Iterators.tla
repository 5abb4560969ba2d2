----------------------------- MODULE Iterators -----------------------------
(***************************************************************************)
(* The iterators of the four backends over the answer to one query.  The   *)
(* answer is the rows 1 .. Count in this order.  A session is a connection *)
(* with the cursors of the ranges that read from it:                       *)
(*                                                                         *)
(*   conn    the connection, as the module Results has it                  *)
(*   cur     for each range its cursor:                                    *)
(*             end     end_                                                *)
(*             at      the rows the server has handed out                  *)
(*             server  PostgreSQL: the cursor exists on the server;        *)
(*                     DuckDB: the query succeeded                         *)
(*             typed   DuckDB: the columns are of the types asked for      *)
(*             lost    (history) the server or the network failed a step   *)
(*   unread  MySQL: the range whose unbuffered result is not read to its   *)
(*           end; every command but fetching from it is refused            *)
(*   stale   MySQL: mysql_error() tells of such a refusal                  *)
(*                                                                         *)
(* A batch is the rows from + 1 .. from + size, or a single error.         *)
(***************************************************************************)
EXTENDS Connection, FiniteSets, FiniteSetsExt, Integers, Sequences

CONSTANTS
  Ranges,      \* the Range objects
  None,        \* no range
  BatchSize    \* SQLGEN_BATCH_SIZE; the rows of a chunk of DuckDB

ASSUME IteratorsAssumption == BatchSize \in Nat \ {0} /\ None \notin Ranges

Batch(from, size) == [from |-> from, size |-> size, bad |-> FALSE]
NoRows == Batch(0, 0)
OneError == [from |-> 0, size |-> 1, bad |-> TRUE]

NewCursor == [end |-> FALSE, at |-> 0, server |-> TRUE, typed |-> TRUE, lost |-> FALSE]

Got(s, b) == [session |-> s, batch |-> b]

\* The cursor of r moves on by n rows.
Moved(s, r, n) == [s EXCEPT !.cur[r].at = @ + n]
Ended(s, r) == [s EXCEPT !.cur[r].end = TRUE]
Lost(s, r) == [s EXCEPT !.cur[r].lost = TRUE]

Left(s, r, count) == count - s.cur[r].at

\* Mutant: the batch is full, however few rows are left.
TakeBatch(s, r, count) == BatchSize

Take(s, r, count) == Min({BatchSize, Left(s, r, count)})

-----------------------------------------------------------------------------
\* sqlite::Iterator.  step() takes whatever is not a row for the end.

SqliteStep(s, r, count) ==
  IF Left(s, r, count) = 0 THEN {Ended(s, r)} ELSE {s, Ended(Lost(s, r), r)}

SqliteOpen(s, r, count) == SqliteStep(s, r, count)

\* Mutant: the step behind a full batch is left to the next one.
SqliteNextRepeats(s, r, count) ==
  LET n == Take(s, r, count)
      more == Left(s, r, count) > n
  IN IF s.cur[r].end THEN {Got(s, NoRows)}
     ELSE {Got(IF more THEN Moved(s, r, n - 1) ELSE Ended(s, r), Batch(s.cur[r].at, n))}

\* The k-th row is in the batch; the step after it finds a row, the end or an error.
SqliteNext(s, r, count) ==
  IF s.cur[r].end THEN {Got(s, NoRows)}
  ELSE LET from == s.cur[r].at
           Upto(k) == {Got(t, Batch(from, k)) : t \in SqliteStep(Moved(s, r, k), r, count)}
           most == Take(s, r, count)
       IN UNION {{g \in Upto(k) : k = most \/ g.session.cur[r].end} : k \in 1 .. most}

-----------------------------------------------------------------------------
\* postgres::Iterator, a cursor of the server.

\* A cursor lives as long as the transaction that declared it.
Cursors(s) ==
  IF s.conn.tx = "open" THEN s ELSE [s EXCEPT !.cur = [q \in Ranges |-> [@[q] EXCEPT !.server = FALSE]]]

With(s, c) == Cursors([s EXCEPT !.conn = c])

\* exec(): a statement that needs the cursor of r fails without it.
PostgresExec(s, r) ==
  IF s.cur[r].server THEN Postgres!execute(s.conn) ELSE {Fail(Postgres!Aborted(s.conn))}

\* BEGIN, DECLARE.  A constructor that throws runs no destructor, so nobody
\* sends the END of a transaction whose DECLARE has failed.
PostgresOpen(s, r, count) ==
  LET Declare(c) == Postgres!execute(c)
  IN {[session |-> With(s, o.conn), ok |-> o.ok] :
        o \in AndThen(Postgres!begin_transaction(s.conn), Declare)}

\* Mutant: the cursor is closed, the transaction is not ended.
ShutdownKeepsTransaction(s, r) ==
  IF s.cur[r].end THEN {s}
  ELSE {Ended(With(s, c.conn), r) : c \in PostgresExec(s, r)}

\* CLOSE and END; what they return is not looked at.
PostgresShutdown(s, r) ==
  IF s.cur[r].end THEN {s}
  ELSE {Ended(With(s, e.conn), r) : e \in UNION {Postgres!commit(c.conn) : c \in PostgresExec(s, r)}}

\* FETCH FORWARD.  Only an empty batch shuts the iterator down.
PostgresNext(s, r, count) ==
  LET Fetched(o) ==
        IF ~o.ok THEN {Got(IF s.cur[r].server THEN Lost(With(s, o.conn), r) ELSE With(s, o.conn), NoRows)}
        ELSE IF Left(s, r, count) = 0 THEN {Got(t, NoRows) : t \in PostgresShutdown(With(s, o.conn), r)}
        ELSE LET n == Take(s, r, count)
             IN {Got(Moved(With(s, o.conn), r, n), Batch(s.cur[r].at, n))}
  IN IF s.cur[r].end THEN {Got(s, NoRows)} ELSE UNION {Fetched(o) : o \in PostgresExec(s, r)}

-----------------------------------------------------------------------------
\* mysql::Iterator over mysql_use_result().

\* The commands of a connection: refused while a result is unread.
Sync(s, outcomes) ==
  IF s.unread = None
  THEN {[session |-> [s EXCEPT !.conn = o.conn, !.stale = FALSE], ok |-> o.ok] : o \in outcomes}
  ELSE {[session |-> [s EXCEPT !.stale = TRUE], ok |-> FALSE]}

MysqlOpen(s, r, count) ==
  {IF o.ok THEN [o EXCEPT !.session.unread = r] ELSE o : o \in Sync(s, {Ok(s.conn), Fail(s.conn)})}

\* The result is read to its end, or given up by the server.
MysqlDone(s, r) == IF s.unread = r THEN [s EXCEPT !.unread = None] ELSE s

\* A batch that is not full ends with a null row: the end, unless mysql_error()
\* has something to tell, be it of an earlier call; then the batch is dropped.
MysqlNext(s, r, count) ==
  LET n == Take(s, r, count)
      all == Moved(s, r, n)
      gone == Moved(s, r, Left(s, r, count))
      failed == [Lost(MysqlDone(gone, r), r) EXCEPT !.stale = TRUE]
  IN (IF s.unread = r THEN {Got(failed, NoRows)} ELSE {}) \cup
     {IF n = BatchSize THEN Got(all, Batch(s.cur[r].at, n))
      ELSE IF s.stale THEN Got(MysqlDone(all, r), NoRows)
      ELSE Got(Ended(MysqlDone(all, r), r), Batch(s.cur[r].at, n))}

-----------------------------------------------------------------------------
\* duckdb::Iterator over the chunks of a materialised result.

DuckdbOpen(s, r, count) ==
  UNION {IF o.ok THEN {[s EXCEPT !.conn = o.conn, !.cur[r].typed = typed] : typed \in BOOLEAN}
                 ELSE {[s EXCEPT !.conn = o.conn, !.cur[r].server = FALSE, !.cur[r].lost = TRUE]} :
         o \in Duckdb!execute(s.conn)}

\* Mutant: a chunk of other types than asked for is not taken from the result.
DuckdbNextStays(s, r, count) ==
  LET n == Take(s, r, count)
  IN {IF ~s.cur[r].server \/ ~s.cur[r].typed THEN Got(s, OneError)
      ELSE IF n = 0 THEN Got(s, NoRows)
      ELSE Got(Moved(s, r, n), Batch(s.cur[r].at, n))}

\* A failed query is one error, again in each batch.
DuckdbNext(s, r, count) ==
  LET n == Take(s, r, count)
  IN {IF ~s.cur[r].server THEN Got(s, OneError)
      ELSE IF n = 0 THEN Got(s, NoRows)
      ELSE Got(Moved(s, r, n), IF s.cur[r].typed THEN Batch(s.cur[r].at, n) ELSE OneError)}

=============================================================================
