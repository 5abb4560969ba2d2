------------------------------ MODULE SqlServer ------------------------------
(***************************************************************************)
(* The four database systems, as far as the library relies on them: how the *)
(* text of a statement is understood (operator precedence, the meaning of a *)
(* function), what a query answers and what a statement does to the tables. *)
(* None of it is in the repository; it follows how its tests use the        *)
(* systems.  The server "reference" stands for the query language itself:   *)
(* it takes the statement before any text is made of it (module Reference). *)
(*                                                                          *)
(* A function whose value no property depends on (lower, sqrt, ...) is a    *)
(* term: it is known by its name and its arguments.                         *)
(***************************************************************************)
EXTENDS Dynamic, FiniteSetsExt, SequencesExt, TLC

SqlDialects == {"postgres", "sqlite", "mysql", "duckdb"}

-----------------------------------------------------------------------------
(* Reading text.                                                            *)

Equalities == {"=", "!="}
Orderings == {"<", "<=", ">", ">="}
Tests == {"IS NULL", "IS NOT NULL", "LIKE", "NOT LIKE", "IN", "NOT IN"}

\* The operators of a dialect, the loosest first.
Precedence ==
  [d \in SqlDialects |->
     << {"OR"}, {"AND"}, {"NOT"} >> \o
     CASE d = "sqlite" -> << Equalities \union Tests, Orderings, {"+", "-"},
                             {"*", "/"}, {"||"} >>
       [] d = "mysql" -> << Equalities \union Orderings \union Tests,
                            {"+", "-"}, {"*", "/"} >>
       [] OTHER -> << {"IS NULL", "IS NOT NULL"}, Equalities \union Orderings,
                      Tests, {"||"}, {"+", "-"}, {"*", "/"} >>]

OperatorOf ==
  "OR" :> "or" @@ "AND" :> "and" @@ "NOT" :> "not" @@ "=" :> "equal" @@
  "!=" :> "not_equal" @@ "<" :> "lesser_than" @@ "<=" :> "lesser_equal" @@
  ">" :> "greater_than" @@ ">=" :> "greater_equal" @@ "IS NULL" :> "is_null" @@
  "IS NOT NULL" :> "is_not_null" @@ "LIKE" :> "like" @@ "IN" :> "in" @@
  "NOT LIKE" :> "not_like" @@ "NOT IN" :> "not_in" @@ "+" :> "plus" @@
  "-" :> "minus" @@ "*" :> "multiplies" @@ "/" :> "divides" @@ "||" :> "concat"

Apply(f, trees) == <<"apply", f, trees>>

RECURSIVE Parse(_, _, _)

\* Splits the text at the last of its loosest operators: they associate to the
\* left.  One token is a name, a constant, a call or a parenthesis.
Parse(d, level, text) ==
  LET whole(t) == Parse(d, 1, t)
      all(texts) == [i \in DOMAIN texts |-> Parse(d, 1, texts[i])]
      token == text[1]
      here == {i \in DOMAIN text : text[i][1] = "sym"
                                   /\ text[i][2] \in Precedence[d][level]}
      at == Max(here)
      sides == SelectSeq(<<SubSeq(text, 1, at - 1), SubSeq(text, at + 1, Len(text))>>,
                         LAMBDA t : t # <<>>)
      last == sides[Len(sides)]
  IN IF Len(text) = 1 THEN
       CASE token[1] = "group" -> whole(token[2])
         [] token[1] = "call" -> Apply(token[2], all(token[3]))
         [] token[1] = "interval" -> <<"lit", <<"duration", token[2], token[3]>> >>
         [] token[1] = "clock" -> <<"lit", token>>
         [] OTHER -> token
     ELSE IF token = <<"word", "DISTINCT">> THEN Apply("distinct", <<whole(Tail(text))>>)
     ELSE IF here = {} THEN Parse(d, level + 1, text)
     ELSE Apply(OperatorOf[text[at][2]],
                IF last[1][1] = "list"
                THEN <<whole(sides[1])>> \o all(last[1][2])
                ELSE [i \in DOMAIN sides |-> Parse(d, level, sides[i])])

\* What the server understands in place of a text.
Understand(d, text) == Parse(d, 1, text)

RECURSIVE UnderstandQuery(_, _)

UnderstandSource(d, s) ==
  IF s.in = "table" THEN s ELSE [s EXCEPT !.query = UnderstandQuery(d, @)]

UnderstandQuery(d, q) ==
  IF q.cmd = "union"
  THEN [q EXCEPT !.selects =
          [i \in DOMAIN @ |-> [@[i] EXCEPT !.query = UnderstandQuery(d, @)]]]
  ELSE [q EXCEPT
          !.fields = [i \in DOMAIN @ |-> [tree |-> Understand(d, @[i].text), as |-> @[i].as]],
          !.from = UnderstandSource(d, @),
          !.joins = [i \in DOMAIN @ |->
                       [how |-> @[i].how, from |-> UnderstandSource(d, @[i].from),
                        alias |-> @[i].alias, on |-> Understand(d, @[i].on)]],
          !.where = [i \in DOMAIN @ |-> Understand(d, @[i])],
          !.group_by = [i \in DOMAIN @ |-> Understand(d, @[i])],
          !.order_by = [i \in DOMAIN @ |-> [tree |-> Understand(d, @[i].text), desc |-> @[i].desc]]]

UnderstandCommand(d, c) ==
  LET trees(texts) == [i \in DOMAIN texts |-> Understand(d, texts[i])]
  IN CASE c.cmd \in {"select", "union"} -> UnderstandQuery(d, c)
       [] c.cmd = "create_as" -> [c EXCEPT !.query = UnderstandQuery(d, @)]
       [] c.cmd \in {"create_index", "delete"} -> [c EXCEPT !.where = trees(@)]
       [] c.cmd = "update" ->
            [c EXCEPT !.where = trees(@),
                      !.sets = [i \in DOMAIN @ |-> [name |-> @[i].name,
                                                    tree |-> Understand(d, @[i].text)]]]
       [] OTHER -> c

-----------------------------------------------------------------------------
(* Values of expressions.                                                   *)

IsInt(v) == v[1] = "int"
IsDate(v) == v[1] \in {"date", "datetime"}
Term(f, v) == <<"term", f, v>>

UnitDays == [days |-> 1, weeks |-> 7]
UnitMonths == [months |-> 1, years |-> 12]
UnitMs == [milliseconds |-> 1, seconds |-> 1000, minutes |-> 60000, hours |-> 3600000]

\* A duration added to a date.  SQLite writes milliseconds as a clock time,
\* which it does not accept beyond 24 hours.
AddDuration(date, u) ==
  CASE date = Null -> Null
    [] u[1] = "clock" /\ u[3] > 24 -> Null
    [] u[1] = "clock" ->
         [date EXCEPT ![4] = @ + u[2] * (((u[3] * 60 + u[4]) * 60 + u[5]) * 1000 + u[6])]
    [] u[3] \in DOMAIN UnitDays -> [date EXCEPT ![3] = @ + u[2] * UnitDays[u[3]]]
    [] u[3] \in DOMAIN UnitMonths -> [date EXCEPT ![2] = @ + u[2] * UnitMonths[u[3]]]
    [] u[3] = "* 1000 microsecond" -> [date EXCEPT ![4] = @ + u[2]]
    [] OTHER -> [date EXCEPT ![4] = @ + u[2] * UnitMs[u[3]]]

\* datetime() of SQLite answers a text of whole seconds, and a text with a time
\* of day equals no text without one.
ToDatetime(v) == IF v = Null THEN Null
                 ELSE <<"datetime", v[2], v[3], (v[4] \div 1000) * 1000>>

DaysFrom(v, w) == Number(w[3] - v[3])

\* The quotient of two integers: PostgreSQL and SQLite drop the remainder.
Divide(d, a, b) ==
  LET quotient == (IF a[2] < 0 THEN -((-a[2]) \div b[2]) ELSE a[2] \div b[2])
  IN IF d \in {"postgres", "sqlite", "reference"} \/ a[2] % b[2] = 0
     THEN Number(quotient) ELSE Term("quotient", <<a, b>>)

TypeClass(type) ==
  CASE type \in {"SMALLINT", "INTEGER", "BIGINT", "TINYINT", "SIGNED", "INT",
                 "UNSIGNED", "DECIMAL", "Int32", "Int64"} -> "integer"
    [] type \in {"NUMERIC", "REAL", "FLOAT", "DOUBLE", "Float64"} -> "real"
    [] type \in {"TEXT", "CHAR", "VARCHAR", "Text"} -> "text"
    [] type \in {"DATE", "Date"} -> "date"
    [] OTHER -> type

CastTo(v, type) ==
  LET class == TypeClass(type)
  IN IF class = "integer" /\ (IsInt(v) \/ (v[1] = "term" /\ v[2] \in DateParts)) THEN v
     ELSE IF class = "date" /\ IsDate(v) THEN <<"date", v[2], v[3], 0>>
     ELSE IF class = "text" /\ v[1] = "text" THEN v
     ELSE Term(<<"cast", class>>, <<v>>)

Concat(v) ==
  Term("concat", FoldLeft(LAMBDA parts, x :
                            parts \o (IF x[1] = "term" /\ x[2] = "concat" THEN x[3] ELSE <<x>>),
                          <<>>, v))

\* Texts and dates are compared by their place in these orders.
Place(v) == CASE v[1] = "int" -> v[2]
              [] IsDate(v) -> v[2] * 31 + v[3]
              [] v[1] = "text" -> CHOOSE i \in 1..3 : <<"Ann", "Bob", "ann">>[i] = v[2]

StrftimeParts == "%d" :> "day" @@ "%H" :> "hour" @@ "%M" :> "minute" @@ "%m" :> "month"
                 @@ "%S" :> "second" @@ "%w" :> "weekday" @@ "%Y" :> "year"

\* The value of a function on values; anything but a test for NULL, coalesce
\* and the junctions answers NULL as soon as one operand is NULL.
ValueOf(d, f, v) ==
  LET some(x) == \E i \in DOMAIN v : v[i] = x
      rest == Tail(v)
  IN CASE f = "is_null" -> Bool(v[1] = Null)
       [] f = "is_not_null" -> Bool(v[1] # Null)
       [] f = "coalesce" -> IF \A i \in DOMAIN v : v[i] = Null THEN Null
                            ELSE SelectSeq(v, LAMBDA x : x # Null)[1]
       [] f = "and" -> IF some(Bool(FALSE)) THEN Bool(FALSE)
                       ELSE IF some(Null) THEN Null ELSE Bool(TRUE)
       [] f = "or" -> IF some(Bool(TRUE)) THEN Bool(TRUE)
                      ELSE IF some(Null) THEN Null ELSE Bool(FALSE)
       [] f \in {"in", "not_in"} ->
            IF v[1] # Null /\ \E i \in DOMAIN rest : rest[i] = v[1] THEN Bool(f = "in")
            ELSE IF some(Null) THEN Null ELSE Bool(f = "not_in")
       [] f \notin {"is_null", "in"} /\ some(Null) -> Null
       [] f = "not" -> Bool(~v[1][2])
       [] f = "equal" -> Bool(v[1] = v[2])
       [] f = "not_equal" -> Bool(v[1] # v[2])
       [] f = "lesser_than" -> Bool(Place(v[1]) < Place(v[2]))
       [] f = "lesser_equal" -> Bool(Place(v[1]) <= Place(v[2]))
       [] f = "greater_than" -> Bool(Place(v[1]) > Place(v[2]))
       [] f = "greater_equal" -> Bool(Place(v[1]) >= Place(v[2]))
       [] f = "like" -> Bool(<<v[1][2], v[2][2]>> \in {<<"ann", "a%">>, <<"Bob", "B%">>})
       [] f = "not_like" -> Bool(<<v[1][2], v[2][2]>> \notin {<<"ann", "a%">>, <<"Bob", "B%">>})
       [] f \in {"plus", "date_add", "date_plus_duration"} /\ IsDate(v[1]) ->
            FoldLeft(AddDuration, v[1], rest)
       [] f = "datetime" -> ToDatetime(FoldLeft(AddDuration, v[1], rest))
       [] f = "plus" /\ IsInt(v[1]) -> Number(v[1][2] + v[2][2])
       [] f \in {"minus", "datediff"} /\ IsDate(v[1]) -> DaysFrom(v[2], v[1])
       [] f = "days_between" -> DaysFrom(v[1], v[2])
       [] f = "minus" -> Number(v[1][2] - v[2][2])
       [] f = "multiplies" -> Number(v[1][2] * v[2][2])
       [] f = "divides" -> Divide(d, v[1], v[2])
       [] f = "abs" -> IF v[1][2] < 0 THEN Number(-v[1][2]) ELSE v[1]
       [] f = "julianday" -> v[1]
       [] f = "cast" -> CastTo(v[1], v[2][2])
       [] f = "extract" -> Term(IF v[1][2] = "EPOCH" THEN "unixepoch" ELSE v[1][2], <<v[2]>>)
       [] f = "strftime" -> Term(StrftimeParts[v[1][2]], <<v[2]>>)
       [] f = "dayofweek" -> Term("plus", <<Term("weekday", v), Number(1)>>)
       [] f \in {"unixepoch", "unix_timestamp"} -> Term("unixepoch", <<v[1]>>)
       [] f = "log" -> Term("log2", <<v[2]>>)
       [] f = "concat" -> Concat(v)
       [] f = "trim" /\ v[1][1] = "word" ->
            Term([both |-> "trim", leading |-> "ltrim", trailing |-> "rtrim"][v[1][2]],
                 <<v[4], v[2]>>)
       [] OTHER -> Term(f, v)

\* An aggregate skips NULLs; without a value it is NULL, except COUNT.
Aggregate(f, known) ==
  LET numbers == {known[i][2] : i \in DOMAIN known}
      total == FoldLeft(LAMBDA sum, x : sum + x[2], 0, known)
      quotient(a, n) == IF a % n = 0 THEN Number(a \div n)
                        ELSE Term("quotient", <<Number(a), Number(n)>>)
  IN CASE f = "count" -> Number(Len(known))
       [] f = "count_distinct" -> Number(Cardinality(ToSet(known)))
       [] known = <<>> -> Null
       [] f = "sum" -> Number(total)
       [] f = "avg" -> quotient(total, Len(known))
       [] f = "min" -> Number(Min(numbers))
       [] f = "max" -> Number(Max(numbers))

RECURSIVE Eval(_, _, _)

IsDistinct(arg) == arg[1] = "apply" /\ arg[2] = "distinct"
Aggregated(arg) == IF IsDistinct(arg) THEN arg[3][1] ELSE arg

\* The value of a tree over a group of rows: a plain row is a group of one.
Eval(d, tree, rows) ==
  CASE tree[1] = "name" -> IF rows = <<>> THEN Null ELSE rows[1][<<tree[2], tree[3]>>]
    [] tree[1] = "lit" -> tree[2]
    [] tree[1] = "word" -> tree
    [] tree[2] = "count" /\ (tree[3] = <<>> \/ tree[3][1] = <<"word", "*">>) ->
         Number(Len(rows))
    [] tree[2] \in Aggregations ->
         Aggregate(IF IsDistinct(tree[3][1]) THEN "count_distinct" ELSE tree[2],
                   SelectSeq([i \in DOMAIN rows |-> Eval(d, Aggregated(tree[3][1]), <<rows[i]>>)],
                             LAMBDA v : v # Null))
    [] OTHER -> ValueOf(d, tree[2], [i \in DOMAIN tree[3] |-> Eval(d, tree[3][i], rows)])

Holds(d, trees, row) == \A i \in DOMAIN trees : Eval(d, trees[i], <<row>>) = Bool(TRUE)

-----------------------------------------------------------------------------
(* Queries.                                                                 *)

RECURSIVE HasAggregate(_), Ungrouped(_)

HasAggregate(t) == t[1] = "apply" /\ (\/ t[2] \in Aggregations
                                      \/ \E i \in DOMAIN t[3] : HasAggregate(t[3][i]))

Ungrouped(t) == CASE t[1] = "name" -> {t}
                  [] t[1] = "apply" /\ t[2] \notin Aggregations ->
                       UNION {Ungrouped(t[3][i]) : i \in DOMAIN t[3]}
                  [] OTHER -> {}

IsGrouped(q) == q.group_by # <<>> \/ \E i \in DOMAIN q.fields : HasAggregate(q.fields[i].tree)

FieldName(f) == IF f.as # <<>> THEN f.as[1] ELSE f.tree[3]

RECURSIVE RefusesQuery(_, _, _), Rows(_, _, _), JoinedRows(_, _, _)

\* The query a source stands for: its own or the one of a view.
QueryOf(db, s) ==
  CASE s.in = "query" -> <<s.query>>
    [] s.name \in DOMAIN db.tables /\ db.tables[s.name].what = "view" -> <<db.tables[s.name].query>>
    [] OTHER -> <<>>

\* The names a table or a query gives its columns.
Names(db, s) ==
  IF QueryOf(db, s) = <<>> THEN db.tables[s.name].names
  ELSE LET q == QueryOf(db, s)[1]
       IN IF q.cmd = "union" THEN q.selects[1].columns
          ELSE [i \in DOMAIN q.fields |-> FieldName(q.fields[i])]

RefusesSource(d, db, s, alias) ==
  IF QueryOf(db, s) = <<>> THEN s.name \notin DOMAIN db.tables
  ELSE RefusesQuery(d, db, QueryOf(db, s)[1]) \/ (d = "mysql" /\ s.in = "query" /\ alias = "")

\* A query is refused for a table that is not there, an aggregate in WHERE, a
\* column that is neither grouped nor aggregated (SQLite picks a row), FULL JOIN
\* and a derived table without a name on MySQL, OFFSET without LIMIT on SQLite
\* and MySQL.
RefusesQuery(d, db, q) ==
  IF q.cmd = "union"
  THEN \E i \in DOMAIN q.selects :
         RefusesSource(d, db, [in |-> "query", query |-> q.selects[i].query], q.selects[i].alias)
  ELSE \/ RefusesSource(d, db, q.from, IF q.alias = <<>> THEN "" ELSE q.alias[1])
       \/ \E i \in DOMAIN q.joins : \/ RefusesSource(d, db, q.joins[i].from, q.joins[i].alias)
                                    \/ d = "mysql" /\ q.joins[i].how = "full_join"
       \/ \E i \in DOMAIN q.where : HasAggregate(q.where[i])
       \/ d # "sqlite" /\ IsGrouped(q) /\
            \E t \in {q.fields[i].tree : i \in DOMAIN q.fields} \union
                    {q.order_by[i].tree : i \in DOMAIN q.order_by} :
              ~(Ungrouped(t) \subseteq {q.group_by[j] : j \in DOMAIN q.group_by})
       \/ d \in {"sqlite", "mysql"} /\ q.offset # <<>> /\ q.limit = <<>>

Row(alias, names, values) ==
  [k \in {<<alias, names[i]>> : i \in DOMAIN names} |->
     values[CHOOSE i \in DOMAIN names : names[i] = k[2]]]

\* The rows of a source and the row that stands for none of them.
AsRows(alias, names, values) ==
  [rows |-> [i \in DOMAIN values |-> Row(alias, names, values[i])],
   absent |-> Row(alias, names, [i \in DOMAIN names |-> Null])]

Source(d, db, s, names, alias) ==
  AsRows(alias, names,
         IF QueryOf(db, s) # <<>> THEN Rows(d, db, QueryOf(db, s)[1])
         ELSE [i \in DOMAIN db.tables[s.name].rows |->
                 [j \in DOMAIN names |-> db.tables[s.name].rows[i][names[j]]]])

\* FROM as the first of the joins.
Sources(q) ==
  << [how |-> "inner_join", from |-> q.from, on |-> <<"lit", Bool(TRUE)>>,
      alias |-> IF q.alias = <<>> THEN "" ELSE q.alias[1]] >> \o q.joins

\* The pairs that match, then the rows of either side that match none.
WithUnmatched(how, met, left, right) ==
  met \union
  {<<i, 0>> : i \in {i \in left : how \in {"left_join", "full_join"} /\ \A j \in right : <<i, j>> \notin met}} \union
  {<<0, j>> : j \in {j \in right : how \in {"right_join", "full_join"} /\ \A i \in left : <<i, j>> \notin met}}

Matching(d, left, right, on) ==
  {p \in (DOMAIN left) \X (DOMAIN right) : Eval(d, on, <<left[p[1]] @@ right[p[2]]>>) = Bool(TRUE)}

Joined(left, right, pairs) ==
  LET row(side, i) == IF i = 0 THEN side.absent ELSE side.rows[i]
  IN [rows |-> [k \in DOMAIN pairs |-> row(left, pairs[k][1]) @@ row(right, pairs[k][2])],
      absent |-> left.absent @@ right.absent]

JoinTwo(d, left, right, j) ==
  Joined(left, right, SetToSeq(WithUnmatched(j.how, Matching(d, left.rows, right.rows, j.on),
                                             DOMAIN left.rows, DOMAIN right.rows)))

\* Each of the joins in turn meets the rows of those before it.
JoinedRows(d, db, joins) ==
  IF joins = <<>> THEN [rows |-> << <<>> >>, absent |-> <<>>]
  ELSE JoinTwo(d, JoinedRows(d, db, Front(joins)),
               Source(d, db, Last(joins).from, Names(db, Last(joins).from), Last(joins).alias),
               Last(joins))

\* NULLs come last on PostgreSQL and DuckDB, first on SQLite and MySQL; the
\* language does not say, so the reference follows the server it is compared
\* with (the field nulls_last of its tables).
Before(db, order_by, key, other) ==
  \E i \in DOMAIN order_by :
    /\ \A j \in 1..(i - 1) : key[j] = other[j]
    /\ key[i] # other[i]
    /\ order_by[i].desc # IF key[i] = Null THEN ~db.nulls_last
                         ELSE IF other[i] = Null THEN db.nulls_last
                         ELSE Place(key[i]) < Place(other[i])

Filtered(d, q, rows) == SelectSeq(rows, LAMBDA r : Holds(d, q.where, r))

Seconds(pairs) == [i \in DOMAIN pairs |-> pairs[i][2]]

Evaluated(d, trees, rows) == [i \in DOMAIN trees |-> Eval(d, trees[i], rows)]

\* One group for each key, one for all rows, or one for each row.
GroupsOf(keyed, keys) ==
  [i \in DOMAIN keys |-> Seconds(SelectSeq(keyed, LAMBDA p : p[1] = keys[i]))]
ByKey(keyed) == GroupsOf(keyed, SetToSeq({keyed[i][1] : i \in DOMAIN keyed}))

Grouped(d, q, rows) ==
  IF q.group_by # <<>>
  THEN ByKey([i \in DOMAIN rows |-> <<Evaluated(d, q.group_by, <<rows[i]>>), rows[i]>>])
  ELSE IF IsGrouped(q) THEN <<rows>> ELSE [i \in DOMAIN rows |-> <<rows[i]>>]

Ordered(d, db, q, groups) ==
  Seconds(SortSeq([i \in DOMAIN groups |->
                     <<Evaluated(d, [j \in DOMAIN q.order_by |-> q.order_by[j].tree], groups[i]), groups[i]>>],
                  LAMBDA g, h : Before(db, q.order_by, g[1], h[1])))

Cut(q, groups) ==
  LET from == IF q.offset = <<>> THEN 1 ELSE q.offset[1] + 1
  IN SubSeq(groups, from, IF q.limit = <<>> THEN Len(groups)
                          ELSE Min({from + q.limit[1] - 1, Len(groups)}))

Fields(d, q, groups) ==
  [i \in DOMAIN groups |-> Evaluated(d, [j \in DOMAIN q.fields |-> q.fields[j].tree], groups[i])]

\* The columns of a row, in the order another SELECT of the union has them.
Rearranged(columns, names, rows) ==
  [i \in DOMAIN rows |-> [k \in DOMAIN columns |->
                            rows[i][CHOOSE j \in DOMAIN names : names[j] = columns[k]]]]

Distinct(distinct, rows) == IF distinct THEN SetToSeq(ToSet(rows)) ELSE rows

Rows(d, db, q) ==
  IF q.cmd = "union"
  THEN Distinct(~q.all, FlattenSeq([i \in DOMAIN q.selects |->
         Rearranged(q.selects[i].columns, Names(db, [in |-> "query", query |-> q.selects[i].query]),
                    Rows(d, db, q.selects[i].query))]))
  ELSE Fields(d, q, Cut(q, Ordered(d, db, q, Grouped(d, q,
         Filtered(d, q, JoinedRows(d, db, Sources(q)).rows)))))
=============================================================================
