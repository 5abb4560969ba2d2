----------------------------- MODULE Connection -----------------------------
(***************************************************************************)
(* The calls every backend provides (is_connection.hpp).  Which one runs   *)
(* is settled at compile time, by the type of the connection.              *)
(***************************************************************************)
EXTENDS Results

Sqlite == INSTANCE SqliteConnection
Postgres == INSTANCE PostgresConnection
Mysql == INSTANCE MysqlConnection
Duckdb == INSTANCE DuckdbConnection

begin_transaction(c) ==
  CASE c.backend = "sqlite" -> Sqlite!begin_transaction(c)
    [] c.backend = "postgres" -> Postgres!begin_transaction(c)
    [] c.backend = "mysql" -> Mysql!begin_transaction(c)
    [] c.backend = "duckdb" -> Duckdb!begin_transaction(c)

commit(c) ==
  CASE c.backend = "sqlite" -> Sqlite!commit(c)
    [] c.backend = "postgres" -> Postgres!commit(c)
    [] c.backend = "mysql" -> Mysql!commit(c)
    [] c.backend = "duckdb" -> Duckdb!commit(c)

rollback(c) ==
  CASE c.backend = "sqlite" -> Sqlite!rollback(c)
    [] c.backend = "postgres" -> Postgres!rollback(c)
    [] c.backend = "mysql" -> Mysql!rollback(c)
    [] c.backend = "duckdb" -> Duckdb!rollback(c)

execute(c) ==
  CASE c.backend = "sqlite" -> Sqlite!execute(c)
    [] c.backend = "postgres" -> Postgres!execute(c)
    [] c.backend = "mysql" -> Mysql!execute(c)
    [] c.backend = "duckdb" -> Duckdb!execute(c)

start_write(c) ==
  CASE c.backend = "sqlite" -> Sqlite!start_write(c)
    [] c.backend = "postgres" -> Postgres!start_write(c)
    [] c.backend = "mysql" -> Mysql!start_write(c)
    [] c.backend = "duckdb" -> Duckdb!start_write(c)

write_impl(c, rows) ==
  CASE c.backend = "sqlite" -> Sqlite!write_impl(c, rows)
    [] c.backend = "postgres" -> Postgres!write_impl(c, rows)
    [] c.backend = "mysql" -> Mysql!write_impl(c, rows)
    [] c.backend = "duckdb" -> Duckdb!write_impl(c, rows)

end_write(c) ==
  CASE c.backend = "sqlite" -> Sqlite!end_write(c)
    [] c.backend = "postgres" -> Postgres!end_write(c)
    [] c.backend = "mysql" -> Mysql!end_write(c)
    [] c.backend = "duckdb" -> Duckdb!end_write(c)

insert_impl(c, rows) ==
  CASE c.backend = "sqlite" -> Sqlite!insert_impl(c, rows)
    [] c.backend = "postgres" -> Postgres!insert_impl(c, rows)
    [] c.backend = "mysql" -> Mysql!insert_impl(c, rows)
    [] c.backend = "duckdb" -> Duckdb!insert_impl(c, rows)

=============================================================================
