-------------------------- MODULE MysqlConnection --------------------------
(***************************************************************************)
(* sqlgen::mysql::Connection, with transactional tables.  START            *)
(* TRANSACTION and CREATE TABLE commit the open transaction first; a       *)
(* failed statement may roll the transaction back (a deadlock); COMMIT and *)
(* ROLLBACK do nothing outside a transaction.                              *)
(***************************************************************************)
EXTENDS Results

begin_transaction(c) == {Ok(Begun(Committed(c))), Fail(c)}

commit(c) == {Ok(Committed(c)), Fail(RolledBack(c))}

rollback(c) == {Ok(RolledBack(c))}

\* CREATE TABLE IF NOT EXISTS, the only statement that write() executes.
execute(c) == {Ok(Committed(c)), Fail(Committed(c)), Fail(c)}

prepare_statement(c) == {Ok(c), Fail(c)}

actual_insert(c, rows) ==
  {Ok(Stored(c, rows))} \cup
  {Fail(d) : d \in StoredPartly(c, rows) \cup {RolledBack(c)}}

insert_impl(c, rows) ==
  LET Insert(d) == actual_insert(d, rows) IN AndThen(prepare_statement(c), Insert)

\* Mutant: A statement that cannot be prepared leaves the transaction open.
StartWriteNoRollback(c) ==
  LET Prepared == AndThen(begin_transaction(c), prepare_statement)
      Hold(d) == {Ok([d EXCEPT !.stmt = TRUE])}
  IN IF c.stmt THEN {Fail(c)} ELSE AndThen(Prepared, Hold)

\* Mutant: Each row of a write commits by itself.
StartWriteAutocommit(c) ==
  LET Hold(d) == {Ok([d EXCEPT !.stmt = TRUE])} IN
  IF c.stmt THEN {Fail(c)} ELSE AndThen(prepare_statement(c), Hold)

start_write(c) ==
  LET Prepared == AndThen(begin_transaction(c), prepare_statement)
      Hold(d) == {Ok([d EXCEPT !.stmt = TRUE])}
  IN IF c.stmt THEN {Fail(c)} ELSE OrElse(AndThen(Prepared, Hold), rollback)

write_impl(c, rows) ==
  LET GiveUp(d) == rollback([d EXCEPT !.stmt = FALSE])
  IN IF c.stmt THEN OrElse(actual_insert(c, rows), GiveUp) ELSE {Fail(c)}

end_write(c) == commit([c EXCEPT !.stmt = FALSE])

=============================================================================
