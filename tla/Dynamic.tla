------------------------------- MODULE Dynamic -------------------------------
(***************************************************************************)
(* The statements a program builds with the query language of the library,  *)
(* in the dynamic form every connection receives (sqlgen::dynamic), and the *)
(* few operators of the language that do more than wrap their operands.     *)
(*                                                                          *)
(* A std::optional is a sequence of at most one element.  An operation and  *)
(* a condition are records whose field op names the alternative of the      *)
(* variant and whose field args holds the operands in order.                *)
(***************************************************************************)
EXTENDS Integers, Sequences

Null == <<"null">>
Number(n) == <<"int", n>>
Text(s) == <<"text", s>>
Bool(b) == <<"bool", b>>
Date(d) == <<"date", 0, d, 0>>          \* months, days and milliseconds
Duration(n, unit) == <<"duration", n, unit>>

Col(alias, name) == [op |-> "column", alias |-> alias, name |-> name,
                     args |-> <<>>]
Val(v) == [op |-> "value", val |-> v, args |-> <<>>]
Op(f, args) == [op |-> f, args |-> args]
Cast(o, type) == [op |-> "cast", args |-> <<o>>, type |-> type]
Count(args, distinct) == [op |-> "count", args |-> args, distinct |-> distinct]

Aggregations == {"avg", "count", "max", "min", "sum"}
DateParts == {"day", "hour", "minute", "month", "second", "weekday", "year"}
Junctions == {"and", "or", "not"}

\* operator+ with a duration: a second duration joins those already there.
add_duration(o, d) ==
  IF o.op = "date_plus_duration"
  THEN [o EXCEPT !.durations = Append(@, d)]
  ELSE [op |-> "date_plus_duration", args |-> <<o>>, durations |-> <<d>>]

\* operator- with a duration adds the negated duration.
subtract_duration(o, d) == add_duration(o, Duration(-d[2], d[3]))

Condition(f, args) == [op |-> f, args |-> args]

Field(o, as) == [val |-> o, as |-> as]

JoinWith(how, source, alias, on) ==
  [how |-> how, table_or_query |-> source, alias |-> alias, on |-> on]

Table(name) == [what |-> "table", name |-> name]

SelectFrom(fields, source, alias) ==
  [stmt |-> "select_from", what |-> "query", fields |-> fields,
   table_or_query |-> source, alias |-> alias, joins |-> <<>>, where |-> <<>>,
   group_by |-> <<>>, order_by |-> <<>>, limit |-> <<>>, offset |-> <<>>]

Union(columns, selects, all) ==
  [stmt |-> "union", what |-> "union", columns |-> columns,
   selects |-> selects, all |-> all]

\* The type of a column with its properties; ref is the column a foreign key
\* names, type_name and values belong to an enumeration.
Type(kind) == [kind |-> kind, nullable |-> FALSE, primary |-> FALSE,
               auto_incr |-> FALSE, unique |-> FALSE, ref |-> <<>>,
               type_name |-> "", values |-> <<>>]
Column(name, type) == [name |-> name, type |-> type]
=============================================================================
