------------------------------ MODULE Reference ------------------------------
(***************************************************************************)
(* What the statements of the query language mean: the tree of the          *)
(* program's own expression, before it is translated and written as text.   *)
(* SqlServer evaluates it as the server "reference", which has exactly the  *)
(* semantics the documentation gives the language.                          *)
(***************************************************************************)
EXTENDS SqlServer, Transpilation

RECURSIVE Sense(_), SenseQuery(_)

\* The tree of an operation or of a condition.
Sense(o) ==
  LET a == Each(Sense, o.args)
  IN CASE o.op = "value" -> <<"lit", o.val>>
       [] o.op = "column" -> <<"name", o.alias, o.name>>
       [] o.op = "count" /\ a # <<>> /\ o.distinct -> Apply("count", <<Apply("distinct", a)>>)
       [] o.op = "cast" -> Apply("cast", a \o << <<"word", o.type.kind>> >>)
       [] o.op = "date_plus_duration" ->
            Apply(o.op, a \o Each(LAMBDA d : <<"lit", d>>, o.durations))
       [] OTHER -> Apply(o.op, a)

SenseSource(source) ==
  IF source.what = "table" THEN [in |-> "table", name |-> source.name]
  ELSE [in |-> "query", query |-> SenseQuery(source)]

SenseJoin(j) == [how |-> j.how, from |-> SenseSource(j.table_or_query), alias |-> j.alias,
                 on |-> IF j.on = <<>> THEN <<"lit", Bool(TRUE)>> ELSE Sense(j.on[1])]

SenseQuery(s) ==
  IF s.what = "union"
  THEN [cmd |-> "union", all |-> s.all,
        selects |-> Each(LAMBDA q : [columns |-> Each(NameOf, q.fields), alias |-> "t",
                                     query |-> SenseQuery(q)], s.selects)]
  ELSE [cmd |-> "select", from |-> SenseSource(s.table_or_query), alias |-> s.alias,
        fields |-> Each(LAMBDA f : [tree |-> Sense(f.val), as |-> f.as], s.fields),
        joins |-> Each(SenseJoin, s.joins), where |-> Each(Sense, s.where),
        group_by |-> Each(Sense, s.group_by),
        order_by |-> Each(LAMBDA w : [tree |-> Sense(w.column), desc |-> w.desc], s.order_by),
        limit |-> s.limit, offset |-> s.offset]

SenseTable(name, if_not_exists) ==
  LET clause(flag, p) == IF flag THEN {p} ELSE {}
      column(c) ==
        [name |-> c.name, type |-> "TEXT",
         properties |-> clause(c.type.auto_incr, <<"AUTOINCREMENT">>) \union
                        clause(c.type.unique, <<"UNIQUE">>) \union
                        clause(~c.type.nullable, <<"NOT NULL">>) \union
                        clause(c.type.ref # <<>>, <<"REFERENCES">> \o c.type.ref)]
      primary == SelectSeq(Structs[name], LAMBDA c : c.type.primary)
  IN [cmd |-> "create_table", table |-> name, if_not_exists |-> if_not_exists,
      columns |-> Each(column, Structs[name]), foreign_keys |-> {},
      primary_keys |-> Each(LAMBDA c : c.name, primary)]

\* A row takes the place of the one it collides with, whatever the key.
SenseInsert(name, or_replace) ==
  LET names == Each(LAMBDA c : c.name, remove_auto_incr_primary(Structs[name]))
  IN [cmd |-> "insert", table |-> name, columns |-> names,
      values |-> [i \in DOMAIN names |-> i],
      on_conflict |-> IF or_replace THEN << <<"ANY", <<>>, names>> >> ELSE <<>>]

SenseCreateAs(name, what, query, or_replace, if_not_exists) ==
  [cmd |-> "create_as", name |-> name, what |-> what, query |-> SenseQuery(query),
   or_replace |-> or_replace, if_not_exists |-> if_not_exists]

SenseIndex(name, table, columns, unique, if_not_exists, where) ==
  [cmd |-> "create_index", name |-> name, table |-> table, columns |-> columns,
   unique |-> unique, if_not_exists |-> if_not_exists, where |-> Each(Sense, where)]

SenseDrop(name, what, if_exists, cascade) ==
  [cmd |-> "drop", what |-> what, if_exists |-> if_exists, table |-> name,
   cascade |-> cascade]

SenseDelete(name, where) == [cmd |-> "delete", table |-> name, where |-> Each(Sense, where)]

SenseUpdate(name, sets, where) ==
  [cmd |-> "update", table |-> name, where |-> Each(Sense, where),
   sets |-> Each(LAMBDA s : [name |-> s.col, tree |-> Sense(s.to)], sets)]
=============================================================================
