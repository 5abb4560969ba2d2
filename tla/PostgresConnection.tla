------------------------- MODULE PostgresConnection -------------------------
(***************************************************************************)
(* sqlgen::postgres::Connection.  A failed statement aborts the open       *)
(* transaction: until it is ended every other statement fails, and COMMIT  *)
(* ends it as ROLLBACK does, with PGRES_COMMAND_OK.  BEGIN within and      *)
(* COMMIT or ROLLBACK without a transaction only give a warning.           *)
(***************************************************************************)
EXTENDS Results

Aborted(c) == IF c.tx = "open" THEN [c EXCEPT !.tx = "aborted"] ELSE c

execute(c) == IF c.tx = "aborted" THEN {Fail(c)} ELSE {Ok(c), Fail(Aborted(c))}

begin_transaction(c) == {IF c.tx = "aborted" THEN Fail(c) ELSE Ok(Begun(c))}

commit(c) ==
  IF c.tx = "open" THEN {Ok(Committed(c)), Fail(RolledBack(c))} ELSE {Ok(RolledBack(c))}

rollback(c) == {Ok(RolledBack(c))}

\* One PQexecPrepared for each row, then DEALLOCATE, whose result counts.
Executed(c, rows) ==
  {Ok(Stored(c, rows))} \cup {Fail(Aborted(d)) : d \in StoredPartly(c, rows)}

insert_impl(c, rows) ==
  LET Rest(d) == AndThen(Executed(d, rows), execute) IN AndThen(execute(c), Rest)

\* The COPY statement puts the connection into COPY IN state.
start_write(c) ==
  LET CopyIn(d) == {Ok([d EXCEPT !.stmt = TRUE])} IN AndThen(execute(c), CopyIn)

\* The server executes a COPY that has been ended as one statement.
CopyDone(c) ==
  LET d == [c EXCEPT !.stmt = FALSE, !.buffer = {}]
  IN {Ok(Stored(d, c.buffer)), Fail(Aborted(d))}

\* PQputCopyData fails when the connection is lost, or for want of memory: the
\* COPY is then ended without an error message, and the rows sent are stored.
write_impl(c, rows) ==
  LET Sent(done) == [c EXCEPT !.buffer = @ \cup done]
      lost == [RolledBack(c) EXCEPT !.stmt = FALSE, !.buffer = {}]
      Ended(done) == {Fail(o.conn) : o \in CopyDone(Sent(done))}
  IN IF ~c.stmt THEN {Fail(c)}
     ELSE {Ok(Sent(rows)), Fail(lost)} \cup UNION {Ended(done) : done \in (SUBSET rows) \ {rows}}

\* PQputCopyEnd fails unless a COPY is in progress.
end_write(c) == IF c.stmt THEN CopyDone(c) ELSE {Fail(c)}

=============================================================================
