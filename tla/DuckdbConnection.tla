-------------------------- MODULE DuckdbConnection --------------------------
(***************************************************************************)
(* sqlgen::duckdb::Connection.  A failed statement may abort the open      *)
(* transaction; an appender executes its statement when it is flushed,     *)
(* which closing or destroying it does, and a long append by itself.       *)
(***************************************************************************)
EXTENDS Results

Aborted(c) == IF c.tx = "open" THEN [c EXCEPT !.tx = "aborted"] ELSE c
Failures(c) == {Fail(c), Fail(Aborted(c))}

execute(c) == IF c.tx = "aborted" THEN {Fail(c)} ELSE {Ok(c)} \cup Failures(c)

begin_transaction(c) == IF c.tx = "none" THEN {Ok(Begun(c))} ELSE Failures(c)

commit(c) ==
  CASE c.tx = "none" -> {Fail(c)}
    [] c.tx = "open" -> {Ok(Committed(c)), Fail(RolledBack(c))}
    [] c.tx = "aborted" -> {Fail(c), Fail(RolledBack(c))}

rollback(c) == {IF c.tx = "none" THEN Fail(c) ELSE Ok(RolledBack(c))}

\* get_duckdb_logical_types() and DuckDBAppender::make() run queries.
MakeAppender(c) ==
  LET Create(d) == execute(d)
      Hold(d) == {Ok([d EXCEPT !.stmt = TRUE])}
  IN AndThen(AndThen(execute(c), Create), Hold)

\* Rows wait in the appender; of many, the first are flushed on the way.
Appended(c, rows) ==
  {[Stored(c, done) EXCEPT !.buffer = (@ \cup rows) \ done] : done \in SUBSET (c.buffer \cup rows)}

write_to_appender(c, rows) ==
  {Ok(d) : d \in Appended(c, rows)} \cup
  UNION {Failures(d) : d \in UNION {Appended(c, done) : done \in (SUBSET rows) \ {rows}}}

\* duckdb_appender_close: the rest is stored as a whole or not at all, and a
\* row left incomplete keeps it from being stored.
Flush(c) ==
  LET d == [c EXCEPT !.stmt = FALSE, !.buffer = {}]
  IN (IF c.tx = "aborted" THEN {} ELSE {Ok(Stored(d, c.buffer))}) \cup Failures(d)

\* ~DuckDBAppender() has nobody to report a failure to.
DropAppender(c) == {Ok(o.conn) : o \in Flush(c)}

\* The appender of an insert is a local variable.
insert_impl(c, rows) ==
  LET Write(d) == OrElse(write_to_appender(d, rows), DropAppender)
  IN AndThen(AndThen(MakeAppender(c), Write), Flush)

start_write(c) == IF c.stmt THEN {Fail(c)} ELSE MakeAppender(c)

write_impl(c, rows) == IF c.stmt THEN write_to_appender(c, rows) ELSE {Fail(c)}

end_write(c) == IF c.stmt THEN DropAppender(c) ELSE {Fail(c)}

=============================================================================
