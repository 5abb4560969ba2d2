-------------------------- MODULE QueriesProperties --------------------------
(***************************************************************************)
(* What a program relies on when it is moved from one server to another or  *)
(* trusts the query language, with the exceptions the code has.             *)
(***************************************************************************)
EXTENDS Queries

-----------------------------------------------------------------------------
(* The tables as the program would read them.                               *)

TypesOf(name) == [n \in {c.name : c \in ToSet(Structs[name])} |->
                    (CHOOSE c \in ToSet(Structs[name]) : c.name = n).type]

\* What the program reads from a stored row, each value or Unreadable.
SeenRow(name, row) == [n \in DOMAIN row |-> ReadValue(dialect, TypesOf(name)[n], row[n])]

\* The server has the tables, rows and indexes that the calls ask for.
InStep ==
  /\ DOMAIN server.tables = DOMAIN meaning.tables
  /\ server.indexes = meaning.indexes
  /\ \A name \in DOMAIN server.tables :
       LET s == server.tables[name]
           m == meaning.tables[name]
       IN /\ s.what = m.what
          /\ s.what = "table" =>
               /\ s.next = m.next
               /\ Len(s.rows) = Len(m.rows)
               /\ \A i \in DOMAIN s.rows : \A n \in DOMAIN s.rows[i] :
                    SeenRow(name, s.rows[i])[n] = Read(m.rows[i][n])

\* A value of the type a field of the program has.
HasType(type, v) ==
  IF v = Null THEN type.nullable
  ELSE v[1] = "term" \/
       v[1] = CASE type.kind = "Boolean" -> "bool"
                [] type.kind \in Integral -> "int"
                [] type.kind \in Floating -> "float"
                [] type.kind = "Date" -> "date"
                [] type.kind = "Enum" -> "enum"
                [] OTHER -> "text"

\* Tables stay within the bounds and what a read hands to the program has the
\* types of the fields it is read into (read.hpp, parsing/).
TypeOK ==
  /\ dialect \in Dialects
  /\ program \in DOMAIN Programs
  /\ \A db \in {server, meaning} : \A name \in DOMAIN db.tables :
       LET t == db.tables[name]
       IN t.what = "table" =>
            /\ Len(t.rows) <= MaxRows
            /\ t.next \in 1..(MaxNext + 1)
            /\ \A i \in DOMAIN t.rows : DOMAIN t.rows[i] = ToSet(t.names)
  /\ \A i \in DOMAIN last.answer : \A j \in DOMAIN last.answer[i] :
       HasType(Asked[last.args[1]].types[j], last.answer[i][j])

Same(a, b) == Len(a) = Len(b) /\ \A i \in DOMAIN a :
                Cardinality({j \in DOMAIN a : a[j] = a[i]}) = Cardinality({j \in DOMAIN b : b[j] = a[i]})

-----------------------------------------------------------------------------
(* Answers.                                                                 *)

RECURSIVE OperationsOf(_)
OperationsOf(o) == {o.op} \union UNION {OperationsOf(o.args[i]) : i \in DOMAIN o.args}

\* Where the dialects do not mean the same: the number of a weekday, the
\* quotient of integers within an expression, a date that datetime() has made
\* a text with a time; on DuckDB, which stores it, a number beyond int64 that a
\* condition turns negative.
Unportable(d, q) ==
  LET s == First(Built(q))
      fields == UNION {OperationsOf(s.fields[i].val) : i \in DOMAIN s.fields}
      where == UNION {OperationsOf(s.where[i]) : i \in DOMAIN s.where}
  IN \/ d = "mysql" /\ "weekday" \in fields
     \/ d \in {"mysql", "duckdb"} /\ "divides" \in where
     \/ d = "sqlite" /\ {"date_plus_duration", "equal"} \subseteq where
     \/ d = "duckdb" /\ \E i \in DOMAIN s.where : \E v \in ToSet(s.where[i].args) :
          v.op = "value" /\ v.kind = "UInt64" /\ v.val # Null /\ v.val[2] >= 128

\* A query the program can read gives the rows it asks for: what the operators
\* and functions mean, which operand is which, where the parentheses are, what
\* NULL does and which rows a clause or a join keeps survive the translation
\* into each of the dialects (transpilation/*.hpp, */to_sql.cpp).
SameAnswer ==
  last.call = "read" /\ last.got = "rows" /\ last.sensible /\ InStep =>
    \/ Unportable(dialect, last.args[1])
    \/ IF First(Built(last.args[1])).order_by # <<>> THEN last.answer = last.expected
       ELSE Same(last.answer, last.expected)

\* NULL in a field that is not an optional: a value that was cast, a sum over
\* no rows or over NULL alone, a clock of more than 24 hours on SQLite.
MayBeNull(d, q) ==
  LET s == First(Built(q))
      fields == {s.fields[i].val : i \in DOMAIN s.fields}
      long(u) == u[3] = "milliseconds" /\ u[2] \notin -86400000..86400000
  IN \E o \in fields :
       \/ o.op = "cast" /\ underlying(table_tuple(s), o).nullable
       \/ o.op \in Aggregations \ {"count"} /\ s.group_by = <<>>
       \/ d = "sqlite" /\ o.op = "date_plus_duration" /\ \E i \in DOMAIN o.durations : long(o.durations[i])

\* NULL comes back only where the types of the result allow it: outer joins,
\* operations on optionals and coalesce are typed as the server computes them
\* (table_tuple_t.hpp, underlying_t.hpp, fields_to_named_tuple_t.hpp).
NullFits == last.got = "unreadable" => MayBeNull(dialect, last.args[1])

-----------------------------------------------------------------------------
(* Verdicts.  A call is refused exactly when what it asks for cannot be     *)
(* done, but for what the dialects lack and what the code leaves behind.    *)

\* The types and sequences of a table that was dropped, or that another table
\* has, are in the way of CREATE TABLE without IF NOT EXISTS.
Leftover(name) ==
  \E c \in ToSet(Structs[name]) :
    \/ dialect \in {"postgres", "duckdb"} /\ c.type.type_name \in DOMAIN server.types
    \/ dialect = "duckdb" /\ c.type.auto_incr /\ DD!make_sequence_name(name, c) \in DOMAIN server.sequences

\* An upsert names all keys of the struct at once.
UpsertFails(name) ==
  LET keys == {c.name : c \in {c \in ToSet(Columns(name)) : c.type.primary \/ c.type.unique}}
      separate == {c \in ToSet(Structs[name]) : c.type.primary \/ c.type.unique}
  IN \/ dialect \in {"postgres", "sqlite"} /\ Cardinality(keys) # 1
     \/ dialect = "duckdb" /\ Cardinality(separate) # 1

\* The unsigned types are given the signed type of the same size.
TooLarge(name, row) ==
  LET narrow == CASE dialect = "postgres" -> {"UInt16", "UInt32", "UInt64"}
                  [] dialect = "mysql" -> {"UInt64"}
                  [] OTHER -> {}
  IN \E c \in ToSet(Columns(name)) :
       c.type.kind \in narrow /\ row[c.name][2] >= 2 ^ (Bits[c.type.kind] - 1)

\* FULL JOIN, a derived table without a name and OFFSET without LIMIT.
LacksClause(q) ==
  LET s == Built(q)
  IN s.what = "query" /\
     (\/ dialect = "mysql" /\ \E i \in DOMAIN s.joins : s.joins[i].how = "full_join"
      \/ dialect = "mysql" /\ s.table_or_query.what # "table" /\ s.alias = <<>>
      \/ dialect \in {"sqlite", "mysql"} /\ s.offset # <<>> /\ s.limit = <<>>)

Unsupported(l) ==
  LET a == l.args
  IN \/ l.call = "create_table" /\ ~a[2] /\ Leftover(a[1])
     \/ l.call = "create_as" /\ dialect = "postgres" /\ a[2] = "view" /\ a[5]
     \/ l.call = "create_as" /\ dialect = "sqlite" /\ a[1] \in DOMAIN server.tables /\ ~a[5]
     \/ l.call = "create_index" /\ dialect = "mysql" /\ a[5]
     \/ l.call = "create_index" /\ dialect \in {"mysql", "duckdb"} /\ a[6] # <<>>
     \/ l.call = "drop" /\ dialect = "postgres" /\ ViewsOn(server, a[1]) # {} /\ ~a[4]
     \/ l.call = "drop" /\ dialect \in {"mysql", "duckdb"} /\ ChildrenOf(server, a[1]) # {}
     \/ l.call = "insert" /\ a[3] /\ UpsertFails(a[1])
     \/ l.call \in {"insert", "write"} /\ TooLarge(a[1], a[2])
     \/ l.call = "write" /\ dialect = "postgres" /\ to_buffer(to_str_vec(a[1], a[2]))[2] = "broken"
     \/ l.call = "read" /\ LacksClause(a[1])

\* SQLite keeps no foreign keys and picks a row where it should refuse to; an
\* appender of DuckDB does not report rows that are refused.
Lenient(l) ==
  \/ dialect = "sqlite" /\ \E name \in {"House", "Room"} : l.call # "read" /\ name = l.args[1]
  \/ dialect = "sqlite" /\ l.call = "read" /\ First(Built(l.args[1])).order_by # <<>>
  \/ dialect = "duckdb" /\ l.call = "write"

\* Called with the same tables, every dialect accepts and refuses what the
\* language says, but for the calls above: a query that compiles is not refused,
\* and keys, NULL and foreign keys are declared as the struct has them
\* (transpilation/*.hpp, */to_sql.cpp).
SameVerdict ==
  [][InStep /\ last'.call # "none" =>
       \/ last'.ok = (last'.sensible /\ ~Unsupported(last'))
       \/ last'.ok /\ Lenient(last')]_vars

\* A call that is refused leaves tables, rows and indexes as they were, whatever
\* number of commands it is made of; write() may have created the table.
RefusedChangesNothing ==
  [][~last'.ok =>
       /\ server'.indexes = server.indexes
       /\ \A name \in DOMAIN server.tables :
            name \in DOMAIN server'.tables /\ server'.tables[name] = server.tables[name]
       /\ DOMAIN server'.tables \ DOMAIN server.tables \subseteq
            (IF last'.call = "write" THEN {last'.args[1]} ELSE {})]_vars

\* docs/insert.md:73: insert_or_replace "inserts rows and updates existing rows
\* when a primary key or unique constraint would be violated by the insert".
UpsertReplaces ==
  [][InStep /\ last'.call = "insert" /\ last'.args[3] /\ last'.sensible => last'.ok]_vars

\* CREATE TABLE IF NOT EXISTS can be repeated at any time, whatever other calls
\* have left behind: it is accepted when the tables it refers to are there, and
\* a table that is already there keeps its rows (create_table.hpp, write.hpp).
SafeToRepeat ==
  LET repeated(name, after) ==
        /\ after.ok
        /\ name \in DOMAIN server.tables => after.db.tables = server.tables
      parents(name) == {c.type.ref[1] : c \in {c \in ToSet(Structs[name]) : c.type.ref # <<>>}}
  IN \A c \in Calls("create_table") :
       parents(c.name) \subseteq DOMAIN server.tables =>
         repeated(c.name, execute(to_create_table(c.name, TRUE)))

-----------------------------------------------------------------------------
(* Data.                                                                    *)

RoundedTo(unit, n) == ((n + unit \div 2) \div unit) * unit

\* What a value is when it is read again: text keeps six digits of a float
\* (here: tenths), DECIMAL of MySQL none; beyond int64 SQLite makes an integer
\* a real, of which the first digit is read; DuckDB knows the place of an
\* enumerator, not its number.
ComesBack(type, v) ==
  IF v = Null THEN Null
  ELSE CASE type.kind \in Floating /\ dialect = "mysql" -> Float(RoundedTo(100, RoundedTo(10, v[2])))
         [] type.kind \in Floating /\ dialect # "duckdb" -> Float(RoundedTo(10, v[2]))
         [] type.kind = "UInt64" /\ dialect = "sqlite" -> IF v[2] > 127 THEN Number(1) ELSE v
         [] type.kind = "Enum" /\ dialect = "duckdb" ->
              LET place == (CHOOSE i \in DOMAIN type.values : type.values[i] = v[2]) - 1
                  numbered == {n \in DOMAIN Enumerators[type.type_name] :
                                 Enumerators[type.type_name][n] = place}
              IN Enumerator(IF numbered = {} THEN "none" ELSE CHOOSE n \in numbered : TRUE)
         [] OTHER -> v

\* A row that insert() or write() has stored is read as it was given, but for
\* the losses above (to_str_vec.hpp, from_str_vec.hpp, parsing/, duckdb/parsing/,
\* the COPY lines of postgres/Connection.cpp).
WrittenReadsBack ==
  [][last'.call \in {"insert", "write"} =>
       LET name == last'.args[1]
           row == last'.args[2]
           before == IF IsBase(server, name) THEN server.tables[name].rows ELSE <<>>
           after == server'.tables[name].rows
       IN IsBase(server', name) /\ Len(after) > Len(before) =>
            \A n \in DOMAIN row :
              SeenRow(name, Last(after))[n] = Read(ComesBack(TypesOf(name)[n], row[n]))]_vars

\* MySQL assigns from left to right, so a column that was set is read as set.
ReadsAssigned(sets) ==
  \E i, j \in DOMAIN sets : i < j /\ sets[j].to.op = "column" /\ sets[j].to.name = sets[i].col

Diverges(l) ==
  \/ l.ok # l.sensible
  \/ l.call = "update" /\ dialect = "mysql" /\ ReadsAssigned(l.args[2])
  \/ l.call = "create_table" /\ dialect = "duckdb" /\ Leftover(l.args[1])
  \/ l.call = "drop" /\ dialect # "postgres" /\ l.args[4] /\ ViewsOn(server, l.args[1]) # {}
  \/ l.call \in {"insert", "write"} /\ \E n \in DOMAIN l.args[2] :
       ComesBack(TypesOf(l.args[1])[n], l.args[2][n]) # l.args[2][n]

\* Every call does to the tables of the server what it does to the tables it is
\* about: which rows an UPDATE or a DELETE meets, what it makes of them, what a
\* key makes of an upsert, what DROP takes along.  But for a server that does
\* less than it should (SQLite), assignments that read one another on MySQL, and
\* a sequence that goes on where the dropped table stopped on DuckDB.
StaysInStep == [][InStep => (InStep' \/ Diverges(last'))]_vars
=============================================================================
