------------------------------ MODULE SqlTables ------------------------------
(***************************************************************************)
(* The four database systems again: what a statement does to the tables.    *)
(* A database is a record                                                   *)
(*   tables      name -> a table (names, types, keys, not_null, refs, auto, *)
(*               next, rows) or a view (query)                              *)
(*   types       name -> the enumerators of an ENUM type                    *)
(*   sequences   name -> the number a sequence gives next                   *)
(*   indexes     the indexes, each with its table                           *)
(*   nulls_last  where ORDER BY puts NULL                                   *)
(* Execute answers <<>> when the statement is refused, otherwise the        *)
(* database after it.                                                       *)
(***************************************************************************)
EXTENDS SqlServer

EmptyDatabase(d) ==
  [tables |-> <<>>, types |-> <<>>, sequences |-> <<>>, indexes |-> {},
   nulls_last |-> d \in {"postgres", "duckdb"}]

Refused == <<>>
Accepted(db) == <<db>>

Tagged(column, tag) == {p \in column.properties : p[1] = tag}

-----------------------------------------------------------------------------
(* Values in columns.                                                       *)

BitsOfType ==
  [BOOLEAN |-> 1, TINYINT |-> 2, SMALLINT |-> 4, INT |-> 6, INTEGER |-> 6, BIGINT |-> 8]

Fits(n, bits) == -(2 ^ (bits - 1)) <= n /\ n < 2 ^ (bits - 1)

\* What a column of a type makes of a text.  SQLite keeps what is no 64 bit
\* integer as a real number, DECIMAL has no digits after the point.
Stored(d, type, text) ==
  CASE text = Null -> Accepted(Null)
    [] text[1] = "chars" -> Accepted(text[2])
    [] text[1] = "decimal" /\ type = "DECIMAL" ->
         Accepted(<<"decimal", ((text[2] + 50) \div 100) * 100>>)
    [] text[1] = "decimal" -> Accepted(text)
    [] type = "BOOLEAN" -> Accepted(IF d = "postgres" THEN Bool(text[2] # 0) ELSE Number(text[2]))
    [] d = "sqlite" -> Accepted(IF Fits(text[2], 8) THEN Number(text[2]) ELSE <<"real", text[2]>>)
    [] OTHER -> IF Fits(text[2], BitsOfType[type]) THEN Accepted(Number(text[2])) ELSE Refused

\* The appender of DuckDB gets values; an ENUM is kept as a place in its type.
Appended(db, type, v) ==
  IF type \in DOMAIN db.types /\ v # Null
  THEN <<"place", type, (CHOOSE i \in DOMAIN db.types[type] : db.types[type][i] = v[2]) - 1>>
  ELSE v

\* What the client library hands out for a value.
Shown(v) == CASE v = Null -> Null
              [] v[1] = "int" -> <<"digits", v[2]>>
              [] v[1] = "bool" -> <<"letter", v[2]>>
              [] v[1] = "real" -> <<"exponent", v[2]>>
              [] v[1] = "term" /\ v[2] = "quotient" -> <<"decimal", (v[3][1][2] * 100) \div v[3][2][2]>>
              [] v[1] = "decimal" -> v
              [] OTHER -> <<"chars", v>>

\* DuckDB hands out the value itself; a quotient is a double.
Native(v) == IF v[1] = "term" /\ v[2] = "quotient"
             THEN <<"float", (v[3][1][2] * 100) \div v[3][2][2]>> ELSE v

-----------------------------------------------------------------------------
(* Rows.                                                                    *)

\* A row without NULL in a key that agrees with another row on it.
Collides(row, other, key) == \A c \in key : row[c] = other[c] /\ row[c] # Null

Conflicts(t, row, keys) ==
  {i \in DOMAIN t.rows : \E key \in keys : Collides(row, t.rows[i], key)}

KeysHold(t) ==
  \A i, j \in DOMAIN t.rows : i < j =>
     ~\E key \in t.keys : Collides(t.rows[i], t.rows[j], key)

\* SQLite keeps foreign keys only where it is told to, which nobody does.
ReferencesHold(d, db) ==
  d = "sqlite" \/
  \A name \in DOMAIN db.tables : db.tables[name].what = "view" \/
    \A ref \in db.tables[name].refs : \A i \in DOMAIN db.tables[name].rows :
      \/ db.tables[name].rows[i][ref[1]] = Null
      \/ \E row \in ToSet(db.tables[ref[2]].rows) :
           row[ref[3]] = db.tables[name].rows[i][ref[1]]

Sound(d, db, name) ==
  LET t == db.tables[name]
  IN /\ KeysHold(t)
     /\ \A i \in DOMAIN t.rows : \A c \in t.not_null : t.rows[i][c] # Null
     /\ ReferencesHold(d, db)

With(db, name, t) == [db EXCEPT !.tables = (name :> t) @@ @]

\* A statement that leaves a table unsound is refused as a whole.
Checked(d, db, name, t) ==
  LET after == With(db, name, t)
  IN IF Sound(d, after, name) THEN Accepted(after) ELSE Refused

IsBase(db, name) == name \in DOMAIN db.tables /\ db.tables[name].what = "table"

-----------------------------------------------------------------------------
(* INSERT, UPDATE and DELETE.                                               *)

\* The keys an upsert looks at: ON CONFLICT has to name one of them exactly,
\* INSERT OR REPLACE wants a table with one key.
UpsertKeys(t, conflict) ==
  CASE conflict[1] = "ON CONFLICT" -> t.keys \cap {ToSet(conflict[2])}
    [] conflict[1] = "OR REPLACE" -> IF Cardinality(t.keys) = 1 THEN t.keys ELSE {}
    [] OTHER -> t.keys

Insert(d, db, c, values) ==
  LET t == db.tables[c.table]
      given == [k \in ToSet(c.columns) |->
                  values[c.values[CHOOSE i \in DOMAIN c.columns : c.columns[i] = k]]]
      row == [k \in ToSet(t.names) |->
                IF k \in DOMAIN given THEN given[k]
                ELSE IF k = t.auto THEN Number(t.next) ELSE Null]
      added == [t EXCEPT !.rows = Append(@, row),
                         !.next = IF t.auto # "" THEN @ + 1 ELSE @]
      keys == UpsertKeys(t, c.on_conflict[1])
      old == Conflicts(t, row, keys)
      replaced == [t EXCEPT !.rows[Min(old)] =
                     [k \in DOMAIN @ |-> IF k \in ToSet(c.on_conflict[1][3]) THEN row[k] ELSE @[k]]]
  IN IF ~IsBase(db, c.table) THEN Refused
     ELSE IF c.on_conflict = <<>> THEN Checked(d, db, c.table, added)
     ELSE IF keys = {} THEN Refused
     ELSE Checked(d, db, c.table, IF old = {} THEN added ELSE replaced)

TableRow(name, row) == [k \in {<<alias, n>> : alias \in {"", name}, n \in DOMAIN row} |-> row[k[2]]]

\* MySQL assigns from left to right: a later assignment reads what an earlier
\* one wrote.
RECURSIVE Assigned(_, _, _, _)

Assign(new, s, value) == [new EXCEPT ![s.name] = value]

Assigned(d, c, row, sets) ==
  IF sets = <<>> THEN row
  ELSE Assign(Assigned(d, c, row, Front(sets)), Last(sets),
              Eval(d, Last(sets).tree,
                   <<TableRow(c.table, IF d = "mysql" THEN Assigned(d, c, row, Front(sets)) ELSE row)>>))

Updated(d, c, row) ==
  IF Holds(d, c.where, TableRow(c.table, row)) THEN Assigned(d, c, row, c.sets) ELSE row

Update(d, db, c) ==
  IF ~IsBase(db, c.table) THEN Refused
  ELSE Checked(d, db, c.table, [db.tables[c.table] EXCEPT !.rows = [i \in DOMAIN @ |-> Updated(d, c, @[i])]])

Delete(d, db, c) ==
  IF ~IsBase(db, c.table) THEN Refused
  ELSE Checked(d, db, c.table,
         [db.tables[c.table] EXCEPT
            !.rows = SelectSeq(@, LAMBDA row : ~Holds(d, c.where, TableRow(c.table, row)))])

-----------------------------------------------------------------------------
(* CREATE and DROP.                                                         *)

NewTable(c) ==
  LET columns == ToSet(c.columns)
      with(tag) == {k.name : k \in {k \in columns : Tagged(k, tag) # {}}}
      counted == with("AUTOINCREMENT") \union with("AUTO_INCREMENT") \union
                 with("GENERATED ALWAYS AS IDENTITY") \union with("DEFAULT nextval")
  IN [what |-> "table", names |-> [i \in DOMAIN c.columns |-> c.columns[i].name],
      types |-> [n \in {k.name : k \in columns} |->
                   (CHOOSE k \in columns : k.name = n).type],
      keys |-> (IF c.primary_keys = <<>> THEN {} ELSE {ToSet(c.primary_keys)}) \union
               {{n} : n \in with("UNIQUE") \union with("PRIMARY KEY")},
      not_null |-> (with("NOT NULL") \union with("PRIMARY KEY") \union ToSet(c.primary_keys)) \ counted,
      refs |-> c.foreign_keys \union
               UNION {{<<k.name, p[2], p[3]>> : p \in Tagged(k, "REFERENCES")} : k \in columns},
      auto |-> IF counted = {} THEN "" ELSE CHOOSE n \in counted : TRUE,
      sequence |-> {p[2] : p \in UNION {Tagged(k, "DEFAULT nextval") : k \in columns}},
      next |-> 1, rows |-> <<>>]

BuiltinTypes ==
  {"BOOLEAN", "TINYINT", "SMALLINT", "INT", "INTEGER", "BIGINT", "UTINYINT", "USMALLINT",
   "UINTEGER", "UBIGINT", "NUMERIC", "DECIMAL", "REAL", "FLOAT", "DOUBLE", "TEXT", "VARCHAR",
   "ENUM", "JSON", "JSONB", "DATE", "DATETIME", "TIMESTAMP", "TIMESTAMP WITH TIME ZONE"}

\* A table is refused for an unknown type, sequence or table, on SQLite for a second
\* column with PRIMARY KEY, on MySQL for a key of type TEXT.
BadTable(d, db, t, c) ==
  \/ \E n \in DOMAIN t.types : t.types[n] \notin BuiltinTypes \union DOMAIN db.types
  \/ ~(t.sequence \subseteq DOMAIN db.sequences)
  \/ d # "sqlite" /\ \E ref \in t.refs : ref[2] # c.table /\ ~IsBase(db, ref[2])
  \/ d = "sqlite" /\ Cardinality({k \in ToSet(c.columns) : Tagged(k, "PRIMARY KEY") # {}}) > 1
  \/ d = "mysql" /\ \E key \in t.keys : \E n \in key : t.types[n] = "TEXT"

CreateTable(d, db, c) ==
  IF c.table \in DOMAIN db.tables
  THEN IF c.if_not_exists THEN Accepted(db) ELSE Refused
  ELSE IF BadTable(d, db, NewTable(c), c) THEN Refused
  ELSE Accepted(With(db, c.table,
         [NewTable(c) EXCEPT !.next = IF NewTable(c).sequence = {} THEN 1
                                      ELSE Max({db.sequences[q] : q \in NewTable(c).sequence})]))

CreateType(db, c) ==
  IF c.name \notin DOMAIN db.types
  THEN Accepted([db EXCEPT !.types = (c.name :> c.values) @@ @])
  ELSE IF c.if_not_exists THEN Accepted(db) ELSE Refused

CreateSequence(db, c) ==
  IF c.name \notin DOMAIN db.sequences
  THEN Accepted([db EXCEPT !.sequences = (c.name :> 1) @@ @])
  ELSE IF c.if_not_exists THEN Accepted(db) ELSE Refused

TableOf(names, rows) ==
  [what |-> "table", names |-> names, types |-> [n \in ToSet(names) |-> "any"],
   keys |-> {}, not_null |-> {}, refs |-> {}, auto |-> "", sequence |-> {}, next |-> 1,
   rows |-> [i \in DOMAIN rows |->
               [n \in ToSet(names) |-> rows[i][CHOOSE j \in DOMAIN names : names[j] = n]]]]

\* PostgreSQL has no CREATE VIEW IF NOT EXISTS.
CreateAs(d, db, c) ==
  IF d = "postgres" /\ c.what = "view" /\ c.if_not_exists THEN Refused
  ELSE IF c.name \in DOMAIN db.tables /\ ~c.or_replace
  THEN IF c.if_not_exists THEN Accepted(db) ELSE Refused
  ELSE IF IsBase(db, c.name) \/ RefusesQuery(d, db, c.query) THEN Refused
  ELSE Accepted(With(db, c.name,
         IF c.what = "view" THEN [what |-> "view", query |-> c.query]
         ELSE TableOf(Names(db, [in |-> "query", query |-> c.query]), Rows(d, db, c.query))))

\* MySQL has no CREATE INDEX IF NOT EXISTS; MySQL and DuckDB have no partial
\* index.
CreateIndex(d, db, c) ==
  LET t == db.tables[c.table]
      unique == [t EXCEPT !.keys = @ \union {ToSet(c.columns)}]
      after == IF c.unique /\ c.where = <<>> THEN unique ELSE t
  IN IF \/ ~IsBase(db, c.table)
        \/ d = "mysql" /\ c.if_not_exists
        \/ d \in {"mysql", "duckdb"} /\ c.where # <<>>
     THEN Refused
     ELSE IF <<c.table, c.name>> \in db.indexes
     THEN IF c.if_not_exists THEN Accepted(db) ELSE Refused
     ELSE Checked(d, [db EXCEPT !.indexes = @ \union {<<c.table, c.name>>}], c.table, after)

\* The views that read a table and the tables that refer to it.
ViewsOn(db, name) ==
  {v \in DOMAIN db.tables : db.tables[v].what = "view" /\ db.tables[v].query.from.in = "table"
                            /\ db.tables[v].query.from.name = name}
ChildrenOf(db, name) ==
  {t \in DOMAIN db.tables \ {name} :
     db.tables[t].what = "table" /\ \E ref \in db.tables[t].refs : ref[2] = name}

\* PostgreSQL minds the views and the children of a table, MySQL and DuckDB the
\* children, SQLite neither; only PostgreSQL has a CASCADE that takes them along.
\* A type stays, and so does a sequence with the number it has reached.
Drop(d, db, c) ==
  LET t == db.tables[c.table]
      views == IF d = "postgres" \/ (d = "reference" /\ c.cascade) THEN ViewsOn(db, c.table) ELSE {}
      children == IF d = "sqlite" THEN {} ELSE ChildrenOf(db, c.table)
      cascades == c.cascade /\ d \in {"postgres", "reference"}
      gone == {c.table} \union (IF cascades THEN views ELSE {})
      left == [n \in DOMAIN db.tables \ gone |->
                 IF n \in children
                 THEN [db.tables[n] EXCEPT !.refs = {r \in @ : r[2] # c.table}]
                 ELSE db.tables[n]]
  IN IF c.table \notin DOMAIN db.tables
     THEN IF c.if_exists THEN Accepted(db) ELSE Refused
     ELSE IF t.what # c.what THEN Refused
     ELSE IF views \union children # {} /\ ~cascades THEN Refused
     ELSE Accepted([db EXCEPT !.tables = left, !.indexes = {i \in @ : i[1] # c.table},
                              !.sequences = [q \in DOMAIN @ |-> IF t.what = "table" /\ q \in t.sequence
                                                                THEN t.next ELSE @[q]]])

Execute(d, db, c, values) ==
  CASE c.cmd = "insert" -> Insert(d, db, c, values)
    [] c.cmd = "update" -> Update(d, db, c)
    [] c.cmd = "delete" -> Delete(d, db, c)
    [] c.cmd = "create_table" -> CreateTable(d, db, c)
    [] c.cmd = "create_type" -> CreateType(db, c)
    [] c.cmd = "create_sequence" -> CreateSequence(db, c)
    [] c.cmd = "create_as" -> CreateAs(d, db, c)
    [] c.cmd = "create_index" -> CreateIndex(d, db, c)
    [] c.cmd = "drop" -> Drop(d, db, c)

\* Several commands in one text: PostgreSQL runs them as one transaction, the
\* others keep what came before the command that is refused.
RECURSIVE ExecuteAll(_, _, _, _), GoOn(_, _, _, _, _)

Undone(d, db, after) == IF d = "postgres" /\ ~after.ok THEN [after EXCEPT !.db = db] ELSE after

GoOn(d, db, after, rest, values) ==
  IF after = Refused THEN [ok |-> FALSE, db |-> db]
  ELSE Undone(d, db, ExecuteAll(d, after[1], rest, values))

ExecuteAll(d, db, commands, values) ==
  IF commands = <<>> THEN [ok |-> TRUE, db |-> db]
  ELSE GoOn(d, db, Execute(d, db, Head(commands), values), Tail(commands), values)
=============================================================================
