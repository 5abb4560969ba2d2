---------------------------- MODULE Transpilation ----------------------------
(***************************************************************************)
(* src/include/sqlgen/transpilation: which queries the compiler lets        *)
(* through, the types of their results, and the dynamic statement they      *)
(* become.  A query of the program is written with the constructors of      *)
(* module Dynamic; its constants carry the C++ type they are written in.    *)
(* Structs gives the columns of every struct the program declares.          *)
(***************************************************************************)
EXTENDS Dynamic, SequencesExt, TLC

CONSTANT Structs

Each(F(_), s) == [i \in DOMAIN s |-> F(s[i])]
All(P(_), s) == \A i \in DOMAIN s : P(s[i])

\* A constant of the program: a C++ type and a value.
Value(kind, v) == [op |-> "value", kind |-> kind, val |-> v, args |-> <<>>]

\* trim, ltrim and rtrim with one operand strip blanks, round keeps no digits.
trim(f, o) == Op(f, <<o, Value("Text", Text(" "))>>)
round(o) == Op("round", <<o, Value("Int32", Number(0))>>)

-----------------------------------------------------------------------------
(* Types.                                                                   *)

T(kind, nullable) == [kind |-> kind, nullable |-> nullable]
Ill == T("ill", FALSE)               \* a static_assert fails

Integral == {"Boolean", "Int8", "Int16", "Int32", "Int64",
             "UInt8", "UInt16", "UInt32", "UInt64"}
Numerical == Integral \union {"Float32", "Float64"}
Timestamps == {"Date", "Timestamp", "TimestampWithTZ"}

\* The width of the integers and of int64, scaled down: 8 bits stand for 64.
Bits == [Boolean |-> 1, Int8 |-> 2, UInt8 |-> 2, Int16 |-> 4, UInt16 |-> 4,
         Int32 |-> 6, UInt32 |-> 6, Int64 |-> 8, UInt64 |-> 8]
Unsigned == {"Boolean", "UInt8", "UInt16", "UInt32", "UInt64"}
IsInteger(kind) == kind \in Integral

\* Mutant: a negative number is read as a large one.
CastUnsigned(kind, n) == n % 2 ^ Bits[kind]

\* static_cast to an integer type.
static_cast(kind, n) ==
  LET range == 2 ^ Bits[kind]
      low == n % range
  IN IF kind \in Unsigned \/ low < range \div 2 THEN low ELSE low - range

\* The type of op1 + op2; int is the smallest type arithmetic is done in.
SumKind(a, b) ==
  LET floating == {a, b} \ Integral
      rank(k) == Bits[k] * 2 + (IF k \in Unsigned THEN 1 ELSE 0)
  IN IF "Float64" \in floating THEN "Float64"
     ELSE IF floating # {} THEN "Float32"
     ELSE CHOOSE k \in {a, b, "Int32"} : \A l \in {a, b, "Int32"} : rank(k) >= rank(l)

OperatorCategory ==
  [numerical |-> {"abs", "ceil", "cos", "divides", "exp", "floor", "ln", "log2", "minus",
                  "mod", "multiplies", "plus", "sin", "sqrt", "tan"},
   string |-> {"concat", "length", "lower", "ltrim", "rtrim", "trim", "upper"},
   date_part |-> DateParts]

\* table_tuple_t gives every alias the columns of its table; a column is there
\* or the program does not compile.
column_type(tables, o) ==
  IF o.alias \in DOMAIN tables /\ o.name \in DOMAIN tables[o.alias]
  THEN tables[o.alias][o.name] ELSE Ill

RECURSIVE underlying(_, _)

underlying(tables, o) ==
  LET of(x) == underlying(tables, x)
      u == Each(of, o.args)
      nullable == \E i \in DOMAIN u : u[i].nullable
      are(kinds) == \A i \in DOMAIN u : u[i].kind \in kinds
      if(ok, t) == IF ok THEN t ELSE Ill
  IN CASE o.op = "value" -> T(o.kind, o.val = Null)
       [] o.op = "column" -> column_type(tables, o)
       [] o.op = "count" /\ o.args = <<>> -> Ill
       [] o.op \in Aggregations -> u[1]
       [] o.op = "cast" -> if(u[1] # Ill, T(o.type.kind, nullable))
       [] o.op = "coalesce" ->
            if(u[1] # Ill /\ are({u[1].kind}), T(u[1].kind, \A i \in DOMAIN u : u[i].nullable))
       [] o.op = "date_plus_duration" -> if(are(Timestamps), u[1])
       [] o.op = "days_between" -> if(are(Timestamps), T("Float64", nullable))
       [] o.op = "replace" -> if(are({"Text"}), T("Text", nullable))
       [] o.op = "round" ->
            if(u[1].kind \in Numerical /\ u[2].kind \in Integral /\ ~u[2].nullable, u[1])
       [] o.op = "unixepoch" -> if(are(Timestamps), T("Int64", nullable))
       [] o.op \in OperatorCategory.date_part -> if(are(Timestamps), T("Int32", nullable))
       [] o.op = "length" -> if(are({"Text"}), T("UInt64", nullable))
       [] o.op \in OperatorCategory.string -> if(are({"Text"}), T("Text", nullable))
       [] o.op \in OperatorCategory.numerical /\ Len(u) = 1 -> if(are(Numerical), u[1])
       [] OTHER -> if(are(Numerical), T(SumKind(u[1].kind, u[2].kind), nullable))

\* The type a field is read into: the one of its operation, but a count is a
\* size_t, an aggregation has the type of what it aggregates and a cast the type
\* that was asked for, NULL or not.
RECURSIVE field_type(_, _)

field_type(tables, o) ==
  CASE o.op = "count" -> T("UInt64", FALSE)
    [] o.op \in Aggregations -> field_type(tables, o.args[1])
    [] o.op = "cast" -> T(o.type.kind, FALSE)
    [] OTHER -> underlying(tables, o)

-----------------------------------------------------------------------------
(* Fields.                                                                  *)

is_aggregation(o) == o.op \in Aggregations
is_column(o) == o.op \in {"column", "count"}
is_operation(o) == o.op # "value" /\ ~is_aggregation(o) /\ ~is_column(o)

RECURSIVE HasAggregations(_), well_formed(_, _), flatten(_)

HasAggregations(o) ==
  is_aggregation(o) \/ (is_operation(o) /\ ~All(LAMBDA a : ~HasAggregations(a), o.args))

\* Nothing that MakeField asserts fails in the operation or below it.
well_formed(tables, o) ==
  /\ All(LAMBDA a : well_formed(tables, a), o.args)
  /\ is_operation(o) => underlying(tables, o) # Ill
  /\ o.op = "column" => column_type(tables, o) # Ill
  /\ o.op \in Aggregations \ {"count"} =>
       underlying(tables, o.args[1]).kind \in Numerical /\ ~HasAggregations(o.args[1])

\* flatten_fields_t: the operands of an operation stand for it.
flatten(o) == IF is_operation(o) THEN FlattenSeq(Each(flatten, o.args)) ELSE <<o>>
flatten_fields(fields) == FlattenSeq(Each(LAMBDA f : flatten(f.val), fields))

\* Mutant: only a query with GROUP BY is checked.
ChecksGroupsOnly(operations, group_by) ==
  group_by # <<>> =>
    All(LAMBDA o : is_aggregation(o) \/ ~is_column(o) \/ o \in ToSet(group_by), operations)

check_aggregations(operations, group_by) ==
  IF group_by = <<>>
  THEN All(LAMBDA o : ~is_aggregation(o), operations) \/
       All(LAMBDA o : is_aggregation(o) \/ ~is_column(o), operations)
  ELSE All(LAMBDA o : \/ is_aggregation(o)
                      \/ ~is_column(o) /\ ~is_operation(o)
                      \/ o \in ToSet(group_by), operations)

HasName(f) == f.as # <<>> \/ f.val.op = "column" \/ (f.val.op = "count" /\ f.val.args # <<>>)
NameOf(f) == IF f.as # <<>> THEN f.as[1]
             ELSE IF f.val.op = "column" THEN f.val.name ELSE f.val.args[1].name

to_value(kind, v) ==
  IF IsInteger(kind) /\ v # Null THEN Number(static_cast("Int64", v[2])) ELSE v

RECURSIVE to_operation(_)

to_operation(o) ==
  IF o.op = "value" THEN Val(to_value(o.kind, o.val))
  ELSE [o EXCEPT !.args = Each(to_operation, @)]

make_field(f) == Field(to_operation(f.val), f.as)

-----------------------------------------------------------------------------
(* Conditions.                                                              *)

Comparable(a, b) == \/ {a.kind, b.kind} \subseteq Numerical
                    \/ {a.kind, b.kind} \subseteq Timestamps
                    \/ a.kind = b.kind /\ a # Ill

\* The static_asserts of ToCondition.
RECURSIVE condition_compiles(_, _), to_condition(_)

condition_compiles(tables, c) ==
  LET compare(u) == /\ c.op \in {"like", "not_like"} => u[1].kind = "Text"
                    /\ c.op \notin {"is_null", "is_not_null"} =>
                         \A i \in DOMAIN u : Comparable(u[1], u[i])
  IN IF c.op \in Junctions THEN \A i \in DOMAIN c.args : condition_compiles(tables, c.args[i])
     ELSE /\ \A i \in DOMAIN c.args : well_formed(tables, c.args[i])
          /\ compare([i \in DOMAIN c.args |-> underlying(tables, c.args[i])])

to_condition(c) ==
  [c EXCEPT !.args = IF c.op \in Junctions THEN Each(to_condition, @) ELSE Each(to_operation, @)]

-----------------------------------------------------------------------------
(* SELECT FROM.                                                             *)

select_from(fields, source, alias) == SelectFrom(fields, source, alias) @@ [to |-> <<>>]

\* What must not have been called before a clause is added with operator|.
TooLate ==
  LET after_order == {"order_by", "limit", "offset", "to"}
  IN [joins |-> {"where", "group_by"} \union after_order,
      where |-> {"where", "group_by"} \union after_order,
      group_by |-> {"group_by"} \union after_order, order_by |-> after_order,
      limit |-> {"limit"}, offset |-> {"offset"}, to |-> {"to"}]

\* A clause is the name of a field of the query and its value.
pipe_compiles(s, clause) == \A f \in TooLate[clause[1]] : s[f] = <<>>
pipe(s, clause) == [s EXCEPT ![clause[1]] = IF clause[1] = "joins" THEN @ \o clause[2] ELSE clause[2]]

RECURSIVE chain_compiles(_, _)
chain_compiles(s, clauses) ==
  clauses = <<>> \/ (/\ pipe_compiles(s, Head(clauses))
                     /\ chain_compiles(pipe(s, Head(clauses)), Tail(clauses)))

\* Mutant: a join leaves the types as they are.
NeverOptional(columns, wrap) == columns

wrap_in_optional(columns, wrap) ==
  [n \in DOMAIN columns |-> T(columns[n].kind, columns[n].nullable \/ wrap)]

struct_type(name) ==
  LET columns == ToSet(Structs[name])
  IN [n \in {c.name : c \in columns} |->
        LET c == CHOOSE c \in columns : c.name = n
        IN T(c.type.kind, c.type.nullable)]

RECURSIVE source_type(_), result_type(_), compiles(_), to_select_from(_)

source_type(source) ==
  IF source.what = "table" THEN struct_type(source.name)
  ELSE IF source.what = "union" THEN result_type(source.selects[1])
  ELSE result_type(source)

\* A table is read as optional when its own join, or a later one, can leave it
\* without a row.
table_tuple(s) ==
  LET from == [how |-> "from", table_or_query |-> s.table_or_query,
               alias |-> IF s.joins = <<>> THEN "" ELSE s.alias[1]]
      sources == <<from>> \o s.joins
      optional(i) == \/ sources[i].how \in {"left_join", "full_join"}
                     \/ \E j \in (i + 1)..Len(sources) : sources[j].how \in {"right_join", "full_join"}
      columns(i) == wrap_in_optional(source_type(sources[i].table_or_query), optional(i))
  IN [a \in {sources[i].alias : i \in DOMAIN sources} |->
        columns(CHOOSE i \in DOMAIN sources :
                  /\ sources[i].alias = a
                  /\ \A j \in DOMAIN sources : sources[j].alias = a => j <= i)]

\* fields_to_named_tuple_t.
result_type(s) ==
  LET types(tables) == [n \in {NameOf(s.fields[i]) : i \in DOMAIN s.fields} |->
                          field_type(tables, (CHOOSE f \in ToSet(s.fields) : NameOf(f) = n).val)]
  IN types(table_tuple(s))

order_by_compiles(s, tables) ==
  LET columns == Each(LAMBDA w : w.column, s.order_by)
  IN /\ All(LAMBDA c : column_type(tables, c) # Ill, columns)
     /\ check_aggregations(columns, s.group_by)

same_columns(selects) ==
  LET same(types) == \A i \in DOMAIN types : types[i] = types[1]
  IN /\ same([i \in DOMAIN selects |-> result_type(selects[i])])
     /\ \A i \in DOMAIN selects : Each(NameOf, selects[i].fields) = Each(NameOf, selects[1].fields)

clauses_compile(s, tables) ==
  LET conditions == s.where \o FlattenSeq([i \in DOMAIN s.joins |-> s.joins[i].on])
  IN /\ \A i \in DOMAIN s.fields : well_formed(tables, s.fields[i].val) /\ HasName(s.fields[i])
     /\ check_aggregations(flatten_fields(s.fields), s.group_by)
     /\ \A i \in DOMAIN conditions : condition_compiles(tables, conditions[i])
     /\ \A i \in DOMAIN s.group_by : column_type(tables, s.group_by[i]) # Ill
     /\ order_by_compiles(s, tables)

compiles(s) ==
  LET sources == IF s.what = "union" THEN s.selects
                 ELSE <<s.table_or_query>> \o Each(LAMBDA j : j.table_or_query, s.joins)
  IN /\ \A i \in DOMAIN sources : sources[i].what # "table" => compiles(sources[i])
     /\ s.what = "union" => same_columns(s.selects)
     /\ s.what # "union" =>
          /\ Cardinality({s.joins[i].alias : i \in DOMAIN s.joins}) = Len(s.joins)
          /\ clauses_compile(s, table_tuple(s))

to_union(u) ==
  [u EXCEPT !.columns = Each(NameOf, u.selects[1].fields), !.selects = Each(to_select_from, @)]

to_table_or_query(source) ==
  CASE source.what = "table" -> source
    [] source.what = "union" -> to_union(source)
    [] OTHER -> to_select_from(source)

to_join(j) == [j EXCEPT !.table_or_query = to_table_or_query(@), !.on = Each(to_condition, @)]

to_select_from(s) ==
  [s EXCEPT !.table_or_query = to_table_or_query(@), !.fields = Each(make_field, @),
            !.joins = Each(to_join, @), !.where = Each(to_condition, @)]

\* sqlgen::read<...>: all columns of a struct.
read_to_select_from(name) ==
  select_from(Each(LAMBDA c : Field(Col("", c.name), <<>>), Structs[name]), Table(name), <<>>)

\* to<...> of something that is not a container wants exactly one row.
extract_result(to, rows) == IF to = <<"one">> /\ Len(rows) # 1 THEN <<>> ELSE <<rows>>

-----------------------------------------------------------------------------
(* The other statements.                                                    *)

to_create_table(name, if_not_exists) ==
  [stmt |-> "create_table", table |-> name, columns |-> Structs[name],
   if_not_exists |-> if_not_exists]

to_create_as(name, what, query, or_replace, if_not_exists) ==
  [stmt |-> "create_as", what |-> what, table_or_view |-> name,
   query |-> to_select_from(query), or_replace |-> or_replace, if_not_exists |-> if_not_exists]

\* The struct has the columns of the query; only a view can be replaced.
create_as_compiles(name, what, query, or_replace) ==
  compiles(query) /\ result_type(query) = struct_type(name) /\ (or_replace => what = "view")

to_create_index(name, table, columns, unique, if_not_exists, where) ==
  [stmt |-> "create_index", name |-> name, table |-> table, columns |-> columns,
   unique |-> unique, if_not_exists |-> if_not_exists, where |-> Each(to_condition, where)]

to_drop(name, what, if_exists, cascade) ==
  [stmt |-> "drop", what |-> what, if_exists |-> if_exists, cascade |-> cascade, table |-> name]

to_delete_from(name, where) ==
  [stmt |-> "delete_from", table |-> name, where |-> Each(to_condition, where)]

\* A set is a column and the value or the column it takes.
to_set(s) == [col |-> s.col, to |-> to_operation(s.to)]

to_update(name, sets, where) ==
  [stmt |-> "update", table |-> name, sets |-> Each(to_set, sets),
   where |-> Each(to_condition, where)]

\* What a column is set to converts to the type of the column.
set_compiles(tables, s) ==
  LET column == column_type(tables, Col("", s.col))
      to == underlying(tables, s.to)
  IN column # Ill /\ Comparable(column, to) /\ (to.nullable => column.nullable)

update_compiles(name, sets, where) ==
  LET tables == "" :> struct_type(name)
  IN All(LAMBDA s : set_compiles(tables, s), sets) /\ All(LAMBDA c : condition_compiles(tables, c), where)

\* A primary key the server counts is left to it.
remove_auto_incr_primary(columns) ==
  SelectSeq(columns, LAMBDA c : ~(c.type.primary /\ c.type.auto_incr))

has_constraint(columns) == ~All(LAMBDA c : ~c.type.primary /\ ~c.type.unique, columns)

to_insert_or_write(name, stmt, or_replace) ==
  LET columns == remove_auto_incr_primary(Structs[name])
      is_constraint(c) == c.type.primary \/ c.type.unique
      get_name(c) == c.name
  IN [stmt |-> stmt, table |-> name, columns |-> Each(get_name, columns),
      or_replace |-> or_replace,
      constraints |-> IF or_replace THEN Each(get_name, SelectSeq(columns, is_constraint))
                                    ELSE <<>>]
=============================================================================
