------------------------------- MODULE Queries -------------------------------
(***************************************************************************)
(* A program that declares tables, changes them and reads them through one  *)
(* connection, with the calls of sqlgen/*.hpp: every call translates its    *)
(* statement (Transpilation), writes it as SQL (the module of the dialect), *)
(* has the server execute it (SqlTables) and converts the values that go    *)
(* out and come back (Values).  Next to the server's tables the             *)
(* specification keeps what the same calls mean in the query language       *)
(* itself (Reference).                                                      *)
(*                                                                          *)
(* A call is one step: another client of the server is the subject of       *)
(* module Client.                                                           *)
(***************************************************************************)
EXTENDS SqlTables, Values, Reference

CONSTANTS
  Programs,       \* name -> the calls of a program, a set for each operation
  Dialects,       \* the servers it may run on
  MaxRows,        \* rows of a table
  MaxNext         \* numbers a table counts

VARIABLES
  dialect, program,    \* chosen at the start
  server,              \* the tables of the server
  meaning,             \* the tables the calls ask for
  last                 \* the call that has just returned

vars == <<dialect, program, server, meaning, last>>

PG == INSTANCE PostgresToSql
SL == INSTANCE SqliteToSql
MY == INSTANCE MysqlToSql
DD == INSTANCE DuckdbToSql

\* Connection::to_sql, as the server understands it.
to_sql(d, s) ==
  LET understood(commands) == [i \in DOMAIN commands |-> UnderstandCommand(d, commands[i])]
  IN understood(CASE d = "postgres" -> PG!to_sql_impl(s)
                  [] d = "sqlite" -> SL!to_sql_impl(s)
                  [] d = "mysql" -> MY!to_sql_impl(s)
                  [] d = "duckdb" -> DD!to_sql_impl(s))

Idle == [call |-> "none", args |-> <<>>, ok |-> TRUE, sensible |-> TRUE, answer |-> <<>>,
         expected |-> <<>>, got |-> ""]

Outcome(call, args, ok, sensible) ==
  [Idle EXCEPT !.call = call, !.args = args, !.ok = ok, !.sensible = sensible]

Init ==
  /\ dialect \in Dialects
  /\ program \in DOMAIN Programs
  /\ server = EmptyDatabase(dialect)
  /\ meaning = [server EXCEPT !.types = <<>>]
  /\ last = Idle

\* What the language makes of a statement.
Means(command, values) == Execute("reference", meaning, command, values)

\* The server executes the statement and the same is done to the meaning of the
\* tables, unless the server refuses it.
Done(call, args, after, wanted) ==
  /\ last = Idle
  /\ server' = after.db
  /\ meaning' = IF after.ok /\ wanted # Refused THEN wanted[1] ELSE meaning
  /\ last' = Outcome(call, args, after.ok, wanted # Refused)
  /\ UNCHANGED <<dialect, program>>

Calls(operation) == Programs[program][operation]

-----------------------------------------------------------------------------
(* Statements without values of their own: one execute().                   *)

execute(s) == ExecuteAll(dialect, server, to_sql(dialect, s), <<>>)

create_table(name, if_not_exists) ==
  Done("create_table", <<name, if_not_exists>>, execute(to_create_table(name, if_not_exists)),
       Means(SenseTable(name, if_not_exists), <<>>))

create_as(name, what, query, or_replace, if_not_exists) ==
  /\ create_as_compiles(name, what, query, or_replace)
  /\ Done("create_as", <<name, what, query, or_replace, if_not_exists>>,
          execute(to_create_as(name, what, query, or_replace, if_not_exists)),
          Means(SenseCreateAs(name, what, query, or_replace, if_not_exists), <<>>))

create_index(name, table, columns, unique, if_not_exists, where) ==
  Done("create_index", <<name, table, columns, unique, if_not_exists, where>>,
       execute(to_create_index(name, table, columns, unique, if_not_exists, where)),
       Means(SenseIndex(name, table, columns, unique, if_not_exists, where), <<>>))

drop(name, what, if_exists, cascade) ==
  Done("drop", <<name, what, if_exists, cascade>>,
       execute(to_drop(name, what, if_exists, cascade)),
       Means(SenseDrop(name, what, if_exists, cascade), <<>>))

delete_from(name, where) ==
  Done("delete_from", <<name, where>>, execute(to_delete_from(name, where)),
       Means(SenseDelete(name, where), <<>>))

update(name, sets, where) ==
  /\ update_compiles(name, sets, where)
  /\ Done("update", <<name, sets, where>>, execute(to_update(name, sets, where)),
          Means(SenseUpdate(name, sets, where), <<>>))

-----------------------------------------------------------------------------
(* Rows.                                                                    *)

Room(name) ==
  IsBase(server, name) =>
    Len(server.tables[name].rows) < MaxRows /\ server.tables[name].next <= MaxNext

Columns(name) == remove_auto_incr_primary(Structs[name])
RowValues(name, row) == Each(LAMBDA c : row[c.name], Columns(name))

to_str_vec(name, row) == Each(LAMBDA c : write(c.type.kind, row[c.name]), Columns(name))

\* What the columns of the table make of a row, or Refused.
Sent(db, name, row) ==
  LET texts == to_str_vec(name, row)
      type(i) == db.tables[name].types[Columns(name)[i].name]
      stored(i) == IF dialect = "duckdb"
                   THEN Accepted(Appended(db, type(i), duckdb_write(RowValues(name, row)[i])))
                   ELSE Stored(dialect, type(i), texts[i])
      whole(values) == IF \E i \in DOMAIN values : values[i] = Refused THEN Refused
                       ELSE Accepted([i \in DOMAIN values |-> values[i][1]])
  IN IF IsBase(db, name) THEN whole([i \in DOMAIN texts |-> stored(i)]) ELSE Refused

\* Connection::insert.
inserted(db, s, name, row) ==
  LET with(sent) == IF sent = Refused THEN [ok |-> FALSE, db |-> db]
                    ELSE ExecuteAll(dialect, db, to_sql(dialect, s), sent[1])
  IN with(Sent(db, name, row))

insert(name, row, or_replace) ==
  /\ Room(name)
  /\ or_replace => has_constraint(Structs[name])
  /\ Done("insert", <<name, row, or_replace>>,
          inserted(server, to_insert_or_write(name, "insert", or_replace), name, row),
          Means(SenseInsert(name, or_replace), RowValues(name, row)))

\* Connection::start_write, write and end_write: PostgreSQL copies lines of
\* text, DuckDB does not say that the rows were refused.
written(created, name, row) ==
  LET reported(after) == [after EXCEPT !.ok = @ \/ dialect = "duckdb"]
      broken == dialect = "postgres" /\ to_buffer(to_str_vec(name, row))[2] = "broken"
  IN IF ~created.ok THEN created
     ELSE IF broken THEN [created EXCEPT !.ok = FALSE]
     ELSE reported(inserted(created.db, to_insert_or_write(name, "write", FALSE), name, row))

\* write() creates the table if it is not there and keeps it if the rows are
\* refused.
write_(name, row) ==
  LET filled(empty) ==
        IF empty = Refused THEN Refused
        ELSE Insert("reference", empty[1], SenseInsert(name, FALSE), RowValues(name, row))
      steps(created, after, empty, full) ==
        /\ server' = after.db
        /\ meaning' = IF after.ok /\ full # Refused THEN full[1]
                      ELSE IF created.ok /\ empty # Refused THEN empty[1] ELSE meaning
        /\ last' = Outcome("write", <<name, row>>, after.ok, full # Refused)
      both(created, empty) == steps(created, written(created, name, row), empty, filled(empty))
  IN /\ last = Idle
     /\ Room(name)
     /\ both(execute(to_create_table(name, TRUE)),
             CreateTable("reference", meaning, SenseTable(name, TRUE)))
     /\ UNCHANGED <<dialect, program>>

-----------------------------------------------------------------------------
(* Reading.                                                                 *)

ReadValue(d, type, v) ==
  IF d = "duckdb" THEN duckdb_read(type, Native(v)) ELSE read(type.kind, type.nullable, Shown(v))

\* The value of an expression in the type of its field.
Wanted(type, v) ==
  CASE v = Null -> Null
    [] type.kind = "Date" -> [v EXCEPT ![4] = 0]
    [] type.kind \in Integral /\ v[1] = "term" /\ v[2] = "quotient" ->
         Number(v[3][1][2] \div v[3][2][2])
    [] type.kind \in Floating /\ v[1] = "int" -> Float(v[2] * 100)
    [] type.kind \in Floating /\ v[1] = "term" /\ v[2] = "quotient" ->
         Float((v[3][1][2] * 100) \div v[3][2][2])
    [] OTHER -> v

\* The queries of the programs that the compiler accepts, each with what it is
\* called by, the statement it becomes and the types of the fields it is read
\* into.
Built(q) == FoldLeft(pipe, q.base, q.clauses)
Questions ==
  {q \in UNION {Programs[p].read : p \in DOMAIN Programs} :
     chain_compiles(q.base, q.clauses) /\ compiles(Built(q))}

First(s) == IF s.what = "union" THEN s.selects[1] ELSE s

Asked ==
  LET types(select) == [i \in DOMAIN select.fields |-> result_type(select)[NameOf(select.fields[i])]]
      about(query) ==
        [types |-> types(First(query)), sense |-> SenseQuery(query),
         to |-> IF query.what = "union" THEN <<>> ELSE query.to,
         text |-> [d \in Dialects |-> to_sql(d, to_table_or_query(query))[1]]]
  IN [q \in Questions |-> about(Built(q))]

RowsOf(d, db, query) ==
  IF RefusesQuery(d, db, query) THEN Refused ELSE Accepted(Rows(d, db, query))

\* The rows as the program reads them, or those it asks for.
Given(types, rows) ==
  IF rows = Refused THEN Refused
  ELSE Accepted([i \in DOMAIN rows[1] |-> [j \in DOMAIN types |->
                                            ReadValue(dialect, types[j], rows[1][i][j])]])
Expected(types, rows) ==
  IF rows = Refused THEN <<>>
  ELSE [i \in DOMAIN rows[1] |-> [j \in DOMAIN types |-> Wanted(types[j], rows[1][i][j])]]

Got(to, given) ==
  IF given = Refused THEN "refused"
  ELSE IF \E i \in DOMAIN given[1] : \E j \in DOMAIN given[1][i] : given[1][i][j] = Unreadable
  THEN "unreadable"
  ELSE IF extract_result(to, given[1]) = <<>> THEN "not one" ELSE "rows"

read_(q) ==
  LET report(a, given, meant) ==
        [call |-> "read", args |-> <<q>>, ok |-> given # Refused, sensible |-> meant # Refused,
         got |-> Got(a.to, given),
         answer |-> IF Got(a.to, given) = "rows"
                    THEN Each(LAMBDA r : Each(LAMBDA v : v[1], r), given[1]) ELSE <<>>,
         expected |-> Expected(a.types, meant)]
      answered(a) == report(a, Given(a.types, RowsOf(dialect, server, a.text[dialect])),
                            RowsOf("reference", meaning, a.sense))
  IN /\ last = Idle
     /\ last' = answered(Asked[q])
     /\ UNCHANGED <<dialect, program, server, meaning>>

\* The program looks at the result and goes on.
Return == /\ last # Idle
          /\ last' = Idle
          /\ UNCHANGED <<dialect, program, server, meaning>>

Next ==
  \/ \E c \in Calls("create_table") : create_table(c.name, c.if_not_exists)
  \/ \E c \in Calls("create_as") :
       create_as(c.name, c.what, c.query, c.or_replace, c.if_not_exists)
  \/ \E c \in Calls("create_index") :
       create_index(c.name, c.table, c.columns, c.unique, c.if_not_exists, c.where)
  \/ \E c \in Calls("drop") : drop(c.name, c.what, c.if_exists, c.cascade)
  \/ \E c \in Calls("delete_from") : delete_from(c.name, c.where)
  \/ \E c \in Calls("update") : update(c.name, c.sets, c.where)
  \/ \E c \in Calls("insert") : insert(c.name, c.row, c.or_replace)
  \/ \E c \in Calls("write") : write_(c.name, c.row)
  \/ \E q \in Calls("read") \cap Questions : read_(q)
  \/ Return

Spec == Init /\ [][Next]_vars
=============================================================================
