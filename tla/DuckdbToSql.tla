----------------------------- MODULE DuckdbToSql -----------------------------
(***************************************************************************)
(* src/sqlgen/duckdb/to_sql.cpp: the SQL a DuckDB connection runs for a     *)
(* statement.                                                               *)
(***************************************************************************)
EXTENDS SqlText, Dynamic

TypeName ==
  [Boolean |-> "BOOLEAN", Int8 |-> "TINYINT", UInt8 |-> "UTINYINT",
   Int16 |-> "SMALLINT", UInt16 |-> "USMALLINT", Int32 |-> "INTEGER",
   UInt32 |-> "UINTEGER", Int64 |-> "BIGINT", UInt64 |-> "UBIGINT",
   Float32 |-> "FLOAT", Float64 |-> "DOUBLE", Text |-> "TEXT",
   VarChar |-> "VARCHAR", JSON |-> "JSON", Date |-> "DATE",
   Timestamp |-> "TIMESTAMP", TimestampWithTZ |-> "TIMESTAMP WITH TIME ZONE"]

type_to_sql(t) == IF t.kind = "Enum" THEN t.type_name ELSE TypeName[t.kind]

column_or_value_to_sql(o) ==
  IF o.op = "column" THEN Name(o.alias, o.name)
  ELSE IF o.val[1] = "duration" THEN << <<"interval", o.val[2], o.val[3]>> >>
  ELSE Lit(o.val)

\* COUNT takes a column or nothing, the others an operation.
aggregation_to_sql(o, a) ==
  IF o.op # "count" THEN Call(o.op, a)
  ELSE IF a = <<>> THEN Call("count", <<Word("*")>>)
  ELSE Call("count", <<(IF o.distinct THEN Word("DISTINCT") ELSE <<>>) \o a[1]>>)

Infix == [plus |-> "+", minus |-> "-", multiplies |-> "*", divides |-> "/"]

operation_text(o, a) ==
  LET duration(d) == column_or_value_to_sql(Val(d))
      as_date(text) == Call("cast", <<text, Word("DATE")>>)
  IN CASE o.op \in {"column", "value"} -> column_or_value_to_sql(o)
       [] o.op \in Aggregations -> aggregation_to_sql(o, a)
       [] o.op \in DOMAIN Infix ->
            Group(a[1]) \o Sym(Infix[o.op]) \o Group(a[2])
       [] o.op = "cast" -> Call("cast", <<a[1], Word(type_to_sql(o.type))>>)
       [] o.op = "concat" -> Group(join(Sym("||"), a))
       [] o.op = "date_plus_duration" ->
            join(Sym("+"), a \o Each(duration, o.durations))
       [] o.op \in DateParts -> Call("extract", <<Word(o.op), a[1]>>)
       [] o.op = "days_between" -> as_date(a[2]) \o Sym("-") \o as_date(a[1])
       [] o.op = "log2" -> Call("log", <<Lit(Number(2)), a[1]>>)
       [] o.op = "unixepoch" -> Call("extract", <<Word("EPOCH"), a[1]>>)
       [] OTHER -> Call(o.op, a)

Comparison ==
  [equal |-> "=", not_equal |-> "!=", lesser_than |-> "<",
   lesser_equal |-> "<=", greater_than |-> ">", greater_equal |-> ">=",
   like |-> "LIKE", not_like |-> "NOT LIKE"]

condition_text(c, a) ==
  CASE c.op = "and" -> Group(a[1]) \o Sym("AND") \o Group(a[2])
    [] c.op = "or" -> Group(a[1]) \o Sym("OR") \o Group(a[2])
    [] c.op = "not" -> Sym("NOT") \o Group(a[1])
    [] c.op = "in" -> a[1] \o Sym("IN") \o List(Tail(a))
    [] c.op = "not_in" -> a[1] \o Sym("NOT IN") \o List(Tail(a))
    [] c.op = "is_null" -> a[1] \o Sym("IS NULL")
    [] c.op = "is_not_null" -> a[1] \o Sym("IS NOT NULL")
    [] c.op = "boolean" -> a[1]
    [] OTHER -> a[1] \o Sym(Comparison[c.op]) \o a[2]

RECURSIVE operation_to_sql(_), condition_to_sql(_), select_from_to_sql(_),
          union_to_sql(_)

operation_to_sql(o) ==
  operation_text(o, [i \in DOMAIN o.args |-> operation_to_sql(o.args[i])])

condition_to_sql(c) ==
  condition_text(c, [i \in DOMAIN c.args |->
                       IF c.op \in Junctions THEN condition_to_sql(c.args[i])
                                             ELSE operation_to_sql(c.args[i])])

field_to_str(f) == [text |-> operation_to_sql(f.val), as |-> f.as]

table_or_query_to_sql(source) ==
  CASE source.what = "table" -> [in |-> "table", name |-> source.name]
    [] source.what = "union" -> [in |-> "query", query |-> union_to_sql(source)]
    [] OTHER -> [in |-> "query", query |-> select_from_to_sql(source)]

join_to_sql(j) ==
  [how |-> j.how, from |-> table_or_query_to_sql(j.table_or_query),
   alias |-> j.alias,
   on |-> IF j.on # <<>> THEN condition_to_sql(j.on[1])
          ELSE Lit(Number(1)) \o Sym("=") \o Lit(Number(1))]

select_from_to_sql(s) ==
  LET order_by_to_str(w) == [text |-> column_or_value_to_sql(w.column),
                             desc |-> w.desc]
  IN [cmd |-> "select", fields |-> Each(field_to_str, s.fields),
      from |-> table_or_query_to_sql(s.table_or_query), alias |-> s.alias,
      joins |-> Each(join_to_sql, s.joins),
      where |-> Each(condition_to_sql, s.where),
      group_by |-> Each(column_or_value_to_sql, s.group_by),
      order_by |-> Each(order_by_to_str, s.order_by),
      limit |-> s.limit, offset |-> s.offset]

union_to_sql(s) ==
  LET to_str(select) == [columns |-> s.columns, alias |-> "",
                         query |-> select_from_to_sql(select)]
  IN [cmd |-> "union", all |-> s.all, selects |-> Each(to_str, s.selects)]

\* The name has neither the schema nor anything else of the table's own.
make_sequence_name(table, c) == <<"sqlgen_seq", table, c.name>>

properties_to_sql(table, c) ==
  LET p == c.type
  IN UNION {Clause(~p.nullable, <<"NOT NULL">>),
            Clause(p.auto_incr, <<"DEFAULT nextval", make_sequence_name(table, c)>>),
            Clause(p.unique, <<"UNIQUE">>),
            Clause(p.ref # <<>>, <<"REFERENCES">> \o p.ref)}

column_to_sql_definition(table, c) ==
  [name |-> c.name, type |-> type_to_sql(c.type),
   properties |-> properties_to_sql(table, c)]

get_primary_keys(s) ==
  LET is_primary_key(c) == c.type.primary
      get_name(c) == c.name
  IN Each(get_name, SelectSeq(s.columns, is_primary_key))

get_enum_mapping(c) == [type |-> type_to_sql(c.type), values |-> c.type.values]

get_enum_types(s) ==
  LET is_enum(c) == c.type.kind = "Enum"
  IN Each(get_enum_mapping, SelectSeq(s.columns, is_enum))

\* Mutant: the types are always created.
EnumsAlways(s) ==
  LET create_type(e) == [cmd |-> "create_type", name |-> e.type, values |-> e.values,
                         if_not_exists |-> FALSE]
  IN Each(create_type, get_enum_types(s))

create_enums(s) ==
  LET create_type(e) == [cmd |-> "create_type", name |-> e.type, values |-> e.values,
                         if_not_exists |-> s.if_not_exists]
  IN Each(create_type, get_enum_types(s))

create_sequences_for_auto_incr(s) ==
  LET is_auto_incr(c) == c.type.auto_incr
      create_one_sequence(c) ==
        [cmd |-> "create_sequence", name |-> make_sequence_name(s.table, c),
         if_not_exists |-> s.if_not_exists]
  IN Each(create_one_sequence, SelectSeq(s.columns, is_auto_incr))

create_table_to_sql(s) ==
  LET col_to_sql(c) == column_to_sql_definition(s.table, c)
  IN create_enums(s) \o create_sequences_for_auto_incr(s) \o
     << [cmd |-> "create_table", if_not_exists |-> s.if_not_exists,
         table |-> s.table, columns |-> Each(col_to_sql, s.columns),
         primary_keys |-> get_primary_keys(s), foreign_keys |-> {}] >>

\* Mutant: a view is dropped to be replaced.
DropsToReplace(s) ==
  (IF s.or_replace
   THEN << [cmd |-> "drop", what |-> s.what, if_exists |-> TRUE, table |-> s.table_or_view,
            cascade |-> FALSE] >> ELSE <<>>) \o
  << [cmd |-> "create_as", or_replace |-> FALSE, what |-> s.what,
      if_not_exists |-> s.if_not_exists, name |-> s.table_or_view,
      query |-> select_from_to_sql(s.query)] >>

create_as_to_sql(s) ==
  << [cmd |-> "create_as", or_replace |-> s.or_replace, what |-> s.what,
      if_not_exists |-> s.if_not_exists, name |-> s.table_or_view,
      query |-> select_from_to_sql(s.query)] >>

create_index_to_sql(s) ==
  << [cmd |-> "create_index", unique |-> s.unique,
      if_not_exists |-> s.if_not_exists, name |-> s.name, table |-> s.table,
      columns |-> s.columns, where |-> Each(condition_to_sql, s.where)] >>

drop_to_sql(s) ==
  << [cmd |-> "drop", what |-> s.what, if_exists |-> s.if_exists,
      table |-> s.table, cascade |-> s.cascade] >>

delete_from_to_sql(s) ==
  << [cmd |-> "delete", table |-> s.table,
      where |-> Each(condition_to_sql, s.where)] >>

update_to_sql(s) ==
  LET to_str(set) == [name |-> set.col, text |-> column_or_value_to_sql(set.to)]
  IN << [cmd |-> "update", table |-> s.table, sets |-> Each(to_str, s.sets),
         where |-> Each(condition_to_sql, s.where)] >>

\* The rows are in sqlgen_appended_data, which has a column for each name.
insert_to_sql(s) ==
  << [cmd |-> "insert", table |-> s.table, columns |-> s.columns,
      values |-> [i \in DOMAIN s.columns |-> i],
      on_conflict |->
        IF s.or_replace THEN << <<"OR REPLACE", <<>>, s.columns>> >>
                        ELSE <<>>] >>

write_to_sql(s) ==
  << [cmd |-> "insert", table |-> s.table, columns |-> s.columns,
      values |-> [i \in DOMAIN s.columns |-> i], on_conflict |-> <<>>] >>

to_sql_impl(s) ==
  CASE s.stmt = "create_index" -> create_index_to_sql(s)
    [] s.stmt = "create_table" -> create_table_to_sql(s)
    [] s.stmt = "create_as" -> create_as_to_sql(s)
    [] s.stmt = "delete_from" -> delete_from_to_sql(s)
    [] s.stmt = "drop" -> drop_to_sql(s)
    [] s.stmt = "insert" -> insert_to_sql(s)
    [] s.stmt = "select_from" -> <<select_from_to_sql(s)>>
    [] s.stmt = "update" -> update_to_sql(s)
    [] s.stmt = "write" -> write_to_sql(s)
    [] s.stmt = "union" -> <<union_to_sql(s)>>
=============================================================================
