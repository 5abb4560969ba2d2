-------------------------- MODULE SqliteConnection --------------------------
(***************************************************************************)
(* sqlgen::sqlite::Connection.  A failed statement of SQLite may roll back *)
(* the whole transaction (SQLITE_FULL, SQLITE_IOERR, ...), and COMMIT may  *)
(* fail and leave it open (SQLITE_BUSY).                                   *)
(***************************************************************************)
EXTENDS Results

begin_transaction(c) == {IF c.tx = "none" THEN Ok(Begun(c)) ELSE Fail(c)}

commit(c) == IF c.tx = "none" THEN {Fail(c)} ELSE {Ok(Committed(c)), Fail(c)}

rollback(c) == {IF c.tx = "none" THEN Fail(c) ELSE Ok(RolledBack(c))}

\* Any other statement, CREATE TABLE IF NOT EXISTS for one.
execute(c) == {Ok(c), Fail(c)}

prepare_statement(c) == {Ok(c), Fail(c)}

actual_insert(c, rows) ==
  {Ok(Stored(c, rows))} \cup
  {Fail(d) : d \in StoredPartly(c, rows) \cup {RolledBack(c)}}

insert_impl(c, rows) ==
  LET Insert(d) == actual_insert(d, rows) IN AndThen(prepare_statement(c), Insert)

start_write(c) ==
  LET Hold(d) == begin_transaction([d EXCEPT !.stmt = TRUE]) IN
  IF c.stmt THEN {Fail(c)} ELSE AndThen(prepare_statement(c), Hold)

\* Mutant: A failed batch is left to end_write().
WriteKeepsPart(c, rows) == IF c.stmt THEN actual_insert(c, rows) ELSE {Fail(c)}

write_impl(c, rows) ==
  IF c.stmt THEN OrElse(actual_insert(c, rows), rollback) ELSE {Fail(c)}

\* Mutant: The result of COMMIT is not looked at.
EndWriteUnchecked(c) ==
  IF c.stmt THEN {Ok(o.conn) : o \in OrElse(commit([c EXCEPT !.stmt = FALSE]), rollback)}
            ELSE {Fail(c)}

end_write(c) ==
  IF c.stmt THEN OrElse(commit([c EXCEPT !.stmt = FALSE]), rollback) ELSE {Fail(c)}

=============================================================================
