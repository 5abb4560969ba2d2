----------------------------- MODULE SqliteToSql -----------------------------
(***************************************************************************)
(* src/sqlgen/sqlite/to_sql.cpp: the SQL a SQLite connection sends for a    *)
(* statement.                                                               *)
(***************************************************************************)
EXTENDS SqlText, Dynamic, TLC

TypeName ==
  [t \in {"Boolean", "Int8", "Int16", "Int32", "Int64",
          "UInt8", "UInt16", "UInt32", "UInt64"} |-> "INTEGER"] @@
  [t \in {"Float32", "Float64"} |-> "REAL"] @@ [JSON |-> "JSONB"] @@
  [t \in {"Text", "VarChar", "Enum", "Date", "Timestamp",
          "TimestampWithTZ"} |-> "TEXT"]

type_to_sql(t) == TypeName[t.kind]

\* A duration is a modifier of datetime(): milliseconds as +HH:MM:SS.SSS, any
\* other unit as +n unit.
duration_to_sql(val, unit) ==
  LET sign == IF val >= 0 THEN 1 ELSE -1
      n == IF val >= 0 THEN val ELSE -val
  IN CASE unit = "milliseconds" ->
            << <<"clock", sign, n \div 3600000, (n \div 60000) % 60,
                 (n \div 1000) % 60, n % 1000>> >>
       [] unit = "weeks" -> << <<"interval", sign * n * 7, "days">> >>
       [] OTHER -> << <<"interval", sign * n, unit>> >>

column_or_value_to_sql(o) ==
  IF o.op = "column" THEN Name(o.alias, o.name)
  ELSE IF o.val[1] = "duration" THEN duration_to_sql(o.val[2], o.val[3])
  ELSE Lit(o.val)

\* COUNT takes a column or nothing, the others an operation.
aggregation_to_sql(o, a) ==
  IF o.op # "count" THEN Call(o.op, a)
  ELSE IF a = <<>> THEN Call("count", <<Word("*")>>)
  ELSE Call("count", <<(IF o.distinct THEN Word("DISTINCT") ELSE <<>>) \o a[1]>>)

Infix == [plus |-> "+", minus |-> "-", multiplies |-> "*", divides |-> "/"]

Format == [day |-> "%d", hour |-> "%H", minute |-> "%M", month |-> "%m",
           second |-> "%S", weekday |-> "%w", year |-> "%Y"]

operation_text(o, a) ==
  LET duration(d) == column_or_value_to_sql(Val(d))
  IN CASE o.op \in {"column", "value"} -> column_or_value_to_sql(o)
       [] o.op \in Aggregations -> aggregation_to_sql(o, a)
       [] o.op \in DOMAIN Infix ->
            Group(a[1]) \o Sym(Infix[o.op]) \o Group(a[2])
       [] o.op = "cast" -> Call("cast", <<a[1], Word(type_to_sql(o.type))>>)
       [] o.op = "concat" -> Group(join(Sym("||"), a))
       [] o.op = "date_plus_duration" ->
            Call("datetime", a \o Each(duration, o.durations))
       [] o.op \in DateParts ->
            Call("cast", <<Call("strftime", <<Word(Format[o.op]), a[1]>>),
                           Word("INT")>>)
       [] o.op = "days_between" ->
            Call("julianday", <<a[2]>>) \o Sym("-") \o Call("julianday", <<a[1]>>)
       [] o.op = "unixepoch" -> Call("unixepoch", <<a[1], Word("subsec")>>)
       [] OTHER -> Call(o.op, a)

Comparison ==
  [equal |-> "=", not_equal |-> "!=", lesser_than |-> "<",
   lesser_equal |-> "<=", greater_than |-> ">", greater_equal |-> ">=",
   like |-> "LIKE", not_like |-> "NOT LIKE"]

condition_text(c, a) ==
  CASE c.op = "and" -> Group(a[1]) \o Sym("AND") \o Group(a[2])
    [] c.op = "or" -> Group(a[1]) \o Sym("OR") \o Group(a[2])
    [] c.op = "not" -> Sym("NOT") \o Group(a[1])
    [] c.op = "in" -> a[1] \o Sym("IN") \o List(Tail(a))
    [] c.op = "not_in" -> a[1] \o Sym("NOT IN") \o List(Tail(a))
    [] c.op = "is_null" -> a[1] \o Sym("IS NULL")
    [] c.op = "is_not_null" -> a[1] \o Sym("IS NOT NULL")
    [] c.op = "boolean" -> a[1]
    [] OTHER -> a[1] \o Sym(Comparison[c.op]) \o a[2]

RECURSIVE operation_to_sql(_), condition_to_sql(_), select_from_to_sql(_),
          union_to_sql(_)

operation_to_sql(o) ==
  operation_text(o, [i \in DOMAIN o.args |-> operation_to_sql(o.args[i])])

condition_to_sql(c) ==
  condition_text(c, [i \in DOMAIN c.args |->
                       IF c.op \in Junctions THEN condition_to_sql(c.args[i])
                                             ELSE operation_to_sql(c.args[i])])

field_to_str(f) == [text |-> operation_to_sql(f.val), as |-> f.as]

table_or_query_to_sql(source) ==
  CASE source.what = "table" -> [in |-> "table", name |-> source.name]
    [] source.what = "union" -> [in |-> "query", query |-> union_to_sql(source)]
    [] OTHER -> [in |-> "query", query |-> select_from_to_sql(source)]

join_to_sql(j) ==
  [how |-> j.how, from |-> table_or_query_to_sql(j.table_or_query),
   alias |-> j.alias,
   on |-> IF j.on # <<>> THEN condition_to_sql(j.on[1])
          ELSE Lit(Number(1)) \o Sym("=") \o Lit(Number(1))]

select_from_to_sql(s) ==
  LET order_by_to_str(w) == [text |-> column_or_value_to_sql(w.column),
                             desc |-> w.desc]
  IN [cmd |-> "select", fields |-> Each(field_to_str, s.fields),
      from |-> table_or_query_to_sql(s.table_or_query), alias |-> s.alias,
      joins |-> Each(join_to_sql, s.joins),
      where |-> Each(condition_to_sql, s.where),
      group_by |-> Each(column_or_value_to_sql, s.group_by),
      order_by |-> Each(order_by_to_str, s.order_by),
      limit |-> s.limit, offset |-> s.offset]

union_to_sql(s) ==
  LET to_str(select) == [columns |-> s.columns, alias |-> "",
                         query |-> select_from_to_sql(select)]
  IN [cmd |-> "union", all |-> s.all, selects |-> Each(to_str, s.selects)]

properties_to_sql(p) ==
  UNION {Clause(p.primary, <<"PRIMARY KEY">>),
         Clause(p.auto_incr, <<"AUTOINCREMENT">>),
         Clause(~p.nullable, <<"NOT NULL">>),
         Clause(p.unique, <<"UNIQUE">>),
         Clause(p.ref # <<>>, <<"REFERENCES">> \o p.ref)}

column_to_sql_definition(c) ==
  [name |-> c.name, type |-> type_to_sql(c.type),
   properties |-> properties_to_sql(c.type)]

create_table_to_sql(s) ==
  << [cmd |-> "create_table", if_not_exists |-> s.if_not_exists,
      table |-> s.table,
      columns |-> Each(column_to_sql_definition, s.columns),
      primary_keys |-> <<>>, foreign_keys |-> {}] >>

create_as_to_sql(s) ==
  << [cmd |-> "create_as", or_replace |-> FALSE, what |-> s.what,
      if_not_exists |-> s.if_not_exists, name |-> s.table_or_view,
      query |-> select_from_to_sql(s.query)] >>

create_index_to_sql(s) ==
  << [cmd |-> "create_index", unique |-> s.unique,
      if_not_exists |-> s.if_not_exists, name |-> s.name, table |-> s.table,
      columns |-> s.columns, where |-> Each(condition_to_sql, s.where)] >>

drop_to_sql(s) ==
  << [cmd |-> "drop", what |-> s.what, if_exists |-> s.if_exists,
      table |-> s.table, cascade |-> FALSE] >>

\* Mutant: the condition is dropped.
DeleteAll(s) == << [cmd |-> "delete", table |-> s.table, where |-> <<>>] >>

delete_from_to_sql(s) ==
  << [cmd |-> "delete", table |-> s.table,
      where |-> Each(condition_to_sql, s.where)] >>

update_to_sql(s) ==
  LET to_str(set) == [name |-> set.col, text |-> column_or_value_to_sql(set.to)]
  IN << [cmd |-> "update", table |-> s.table, sets |-> Each(to_str, s.sets),
         where |-> Each(condition_to_sql, s.where)] >>

insert_or_write_to_sql(s) ==
  << [cmd |-> "insert", table |-> s.table, columns |-> s.columns,
      values |-> [i \in DOMAIN s.columns |-> i],
      on_conflict |->
        IF s.stmt = "insert" /\ s.or_replace
        THEN << <<"ON CONFLICT", s.constraints, s.columns>> >>
        ELSE <<>>] >>

to_sql_impl(s) ==
  CASE s.stmt = "create_index" -> create_index_to_sql(s)
    [] s.stmt = "create_table" -> create_table_to_sql(s)
    [] s.stmt = "create_as" -> create_as_to_sql(s)
    [] s.stmt = "delete_from" -> delete_from_to_sql(s)
    [] s.stmt = "drop" -> drop_to_sql(s)
    [] s.stmt \in {"insert", "write"} -> insert_or_write_to_sql(s)
    [] s.stmt = "select_from" -> <<select_from_to_sql(s)>>
    [] s.stmt = "update" -> update_to_sql(s)
    [] s.stmt = "union" -> <<union_to_sql(s)>>
=============================================================================
