------------------------------ MODULE Readers ------------------------------
(***************************************************************************)
(* read() into a Range or a container on a connection of any backend, with *)
(* several ranges and several loops over a range at once, within and       *)
(* outside a Transaction.  Every step of the server may fail.              *)
(*                                                                         *)
(* A loop is a `for` over a range, or the one to_container() runs: begin() *)
(* copies the iterator of the range, which shares the cursor and, until    *)
(* either goes on to the next, the batch.                                  *)
(***************************************************************************)
EXTENDS Iterators

CONSTANTS
  Backends,     \* the connection is of one of these
  Loops,        \* places for the loops of the program
  MaxRows,      \* the answer to the query has at most as many rows
  Marks         \* what the program stores, each at most once

ASSUME ReadersAssumption == MaxRows \in Nat /\ Backends \subseteq AllBackends

VARIABLES
  count,        \* the rows of the answer
  session,      \* the connection with its cursors (module Iterators)
  range,        \* for each Range: its state and the batch of its iterator
  loop,         \* for each loop: its state, range, batch and index ix_
  trans,        \* the Transaction object: "none", "open", or "spoilt" by an
                \* error, after which the program gives it up
  seen,         \* (history) the rows each running loop was given
  loops,        \* (history) how many loops each range has had
  shared,       \* (history) ranges that are not alone on the connection
  mixed,        \* (history) a range lived together with a transaction
  stored,       \* (history) marks stored in the transaction that is open
  kept          \* (history) marks of the transactions commit() has ended

vars == <<count, session, range, loop, trans, seen, loops, shared, mixed, stored, kept>>

NoRange == [state |-> "none", first |-> NoRows]
NoLoop == [state |-> "none", over |-> None, batch |-> NoRows, ix |-> 0]

Backend == session.conn.backend
Running(l) == loop[l].state = "running"
AtEnd(l) == loop[l].state = "over"
Holders(r) == {l \in Loops : loop[l].over = r}

\* Ranges whose underlying iterator exists.
Live == {r \in Ranges : range[r].state = "alive" \/ Holders(r) # {}}

Init ==
  /\ count \in 0 .. MaxRows
  /\ \E b \in Backends :
       session = [conn |-> Fresh(b), cur |-> [r \in Ranges |-> NewCursor],
                  unread |-> None, stale |-> FALSE]
  /\ range = [r \in Ranges |-> NoRange]
  /\ loop = [l \in Loops |-> NoLoop]
  /\ trans = "none"
  /\ seen = [l \in Loops |-> <<>>]
  /\ loops = [r \in Ranges |-> 0]
  /\ shared = {} /\ mixed = FALSE /\ stored = {} /\ kept = {}

-----------------------------------------------------------------------------
\* What the iterator of the backend does, by the type of the connection.

\* Connection::read up to the underlying iterator.
Opened(r) ==
  LET s == [session EXCEPT !.cur[r] = NewCursor] IN
  CASE Backend = "sqlite" ->
         {[session |-> s, ok |-> FALSE]} \cup
         {[session |-> t, ok |-> TRUE] : t \in SqliteOpen(s, r, count)}
    [] Backend = "postgres" -> PostgresOpen(s, r, count)
    [] Backend = "mysql" -> MysqlOpen(s, r, count)
    [] Backend = "duckdb" -> {[session |-> t, ok |-> TRUE] : t \in DuckdbOpen(s, r, count)}

\* get_next_batch(): an error becomes an empty batch.
NextBatch(s, r) ==
  CASE Backend = "sqlite" -> SqliteNext(s, r, count)
    [] Backend = "postgres" -> PostgresNext(s, r, count)
    [] Backend = "mysql" -> MysqlNext(s, r, count)
    [] Backend = "duckdb" -> DuckdbNext(s, r, count)

\* Mutant: the iterator of SQLite ends a transaction, too.
ClosedCommits(r) ==
  IF Backend = "sqlite" THEN {[session EXCEPT !.conn = Committed(@)]} ELSE {MysqlDone(session, r)}

\* The destructor of the underlying iterator.
Closed(r) ==
  CASE Backend = "sqlite" -> {session}
    [] Backend = "postgres" -> PostgresShutdown(session, r)
    [] Backend = "mysql" -> {MysqlDone(session, r)}
    [] Backend = "duckdb" -> {session}

\* duckdb::Iterator fetches until a batch is empty, sqlgen::Iterator until end_.
HasMore(r) == Backend = "duckdb" \/ ~session.cur[r].end

\* After an error the transaction is given up.
Spoilt == IF trans = "open" THEN "spoilt" ELSE trans

-----------------------------------------------------------------------------
\* read<Range<...>>: the query, the cursor and the first batch.

Read(r) ==
  /\ r \notin Live
  /\ \E o \in Opened(r) :
       \/ /\ ~o.ok
          /\ session' = o.session
          /\ trans' = Spoilt
          /\ UNCHANGED range
       \/ /\ o.ok
          /\ \E g \in NextBatch(o.session, r) :
               /\ session' = g.session
               /\ range' = [range EXCEPT ![r] = [state |-> "alive", first |-> g.batch]]
          /\ UNCHANGED trans
  /\ shared' = shared \cup (IF Live = {} /\ trans = "none" THEN {} ELSE Live \cup {r})
  /\ mixed' = (mixed \/ trans # "none")
  /\ UNCHANGED <<count, loop, seen, loops, stored, kept>>

\* *it, unless the loop is at its end; an error is a 0.
Given(b, ix) == IF b.bad THEN 0 ELSE b.from + ix + 1

Show(l, r, b, ix) ==
  LET more == IF Backend = "duckdb" THEN b.size > 0 ELSE ix < b.size
  IN /\ loop' = [loop EXCEPT ![l] = [state |-> IF more THEN "running" ELSE "over",
                                     over |-> r, batch |-> b, ix |-> ix]]
     /\ seen' = IF more THEN [seen EXCEPT ![l] = Append(@, Given(b, ix))] ELSE seen

\* begin()
BeginLoop(l, r) ==
  /\ range[r].state = "alive"
  /\ loop[l].state = "none" /\ loops[r] < Cardinality(Loops)
  /\ Show(l, r, range[r].first, 0)
  /\ loops' = [loops EXCEPT ![r] = @ + 1]
  /\ UNCHANGED <<count, session, range, trans, shared, mixed, stored, kept>>

\* Mutant: the index is not set back for the next batch.
AdvanceKeepsIndex(l) ==
  LET r == loop[l].over
      ix == loop[l].ix + 1
  IN /\ Running(l)
     /\ IF ix >= loop[l].batch.size /\ HasMore(r)
          THEN \E g \in NextBatch(session, r) : session' = g.session /\ Show(l, r, g.batch, ix)
          ELSE UNCHANGED session /\ Show(l, r, loop[l].batch, ix)
     /\ UNCHANGED <<count, range, trans, loops, shared, mixed, stored, kept>>

\* Mutant: each loop has a copy of the underlying iterator.
AdvanceCopies(l) ==
  LET r == loop[l].over
      ix == loop[l].ix + 1
  IN /\ Running(l) /\ Len(seen[l]) <= MaxRows
     /\ IF ix >= loop[l].batch.size /\ HasMore(r)
          THEN \E g \in NextBatch(session, r) : Show(l, r, g.batch, 0)
          ELSE Show(l, r, loop[l].batch, ix)
     /\ UNCHANGED <<count, session, range, trans, loops, shared, mixed, stored, kept>>

\* ++ and the comparison with End.
Advance(l) ==
  LET r == loop[l].over
      b == loop[l].batch
      ix == loop[l].ix + 1
  IN /\ Running(l)
     /\ Len(seen[l]) <= MaxRows
     /\ IF ix >= b.size /\ HasMore(r)
          THEN \E g \in NextBatch(session, r) :
                 session' = g.session /\ Show(l, r, g.batch, 0)
          ELSE UNCHANGED session /\ Show(l, r, b, ix)
     /\ UNCHANGED <<count, range, trans, loops, shared, mixed, stored, kept>>

\* A range or a loop goes out of scope; the last one takes the cursor with it.
Release(r, last) ==
  IF last
  THEN /\ \E s \in Closed(r) : session' = [s EXCEPT !.cur[r] = NewCursor]
       /\ loops' = [loops EXCEPT ![r] = 0]
       /\ shared' = shared \ {r}
  ELSE UNCHANGED <<session, loops, shared>>

LeaveLoop(l) ==
  /\ loop[l].state # "none"
  /\ loop' = [loop EXCEPT ![l] = NoLoop]
  /\ seen' = [seen EXCEPT ![l] = <<>>]
  /\ LET r == loop[l].over
     IN Release(r, range[r].state = "none" /\ Holders(r) = {l})
  /\ UNCHANGED <<count, range, trans, mixed, stored, kept>>

DropRange(r) ==
  /\ range[r].state = "alive"
  /\ range' = [range EXCEPT ![r] = NoRange]
  /\ Release(r, Holders(r) = {})
  /\ UNCHANGED <<count, loop, trans, seen, mixed, stored, kept>>

-----------------------------------------------------------------------------
\* The Transaction around it (module Client has all of it).

\* A call on the connection: MySQL refuses it while a result is unread,
\* PostgreSQL drops the cursors of a transaction that has ended; the answers of
\* SQLite and DuckDB stay.
Called(outcomes) ==
  CASE Backend = "postgres" -> {[session |-> With(session, o.conn), ok |-> o.ok] : o \in outcomes}
    [] Backend = "mysql" -> Sync(session, outcomes)
    [] OTHER -> {[session |-> [session EXCEPT !.conn = o.conn], ok |-> o.ok] : o \in outcomes}

Calls(o) ==
  /\ session' = o.session
  /\ shared' = shared \cup Live
  /\ mixed' = (mixed \/ Live # {})
  /\ UNCHANGED <<count, range, loop, seen, loops>>

BeginTransaction ==
  /\ trans = "none"
  /\ \E o \in Called(begin_transaction(session.conn)) :
       Calls(o) /\ trans' = IF o.ok THEN "open" ELSE "none"
  /\ UNCHANGED <<stored, kept>>

Insert(m) ==
  /\ trans = "open" /\ m \notin stored \cup kept
  /\ \E o \in Called(insert_impl(session.conn, {m})) :
       /\ Calls(o)
       /\ stored' = IF o.ok THEN stored \cup {m} ELSE stored
       /\ trans' = IF o.ok THEN trans ELSE Spoilt
  /\ UNCHANGED kept

Commit ==
  /\ trans = "open"
  /\ \E o \in Called(commit(session.conn)) :
       /\ Calls(o)
       /\ trans' = IF o.ok THEN "none" ELSE Spoilt
       /\ kept' = IF o.ok THEN kept \cup stored ELSE kept
       /\ stored' = IF o.ok THEN {} ELSE stored

\* Mutant: the object forgets its transaction and the server goes on with it.
RollbackForgets ==
  /\ trans \in {"open", "spoilt"}
  /\ trans' = "none" /\ stored' = {}
  /\ UNCHANGED <<count, session, range, loop, seen, loops, shared, mixed, kept>>

\* The destructor of the Transaction, or rollback().
Rollback ==
  /\ trans \in {"open", "spoilt"}
  /\ \E o \in Called(rollback(session.conn)) : Calls(o)
  /\ trans' = "none" /\ stored' = {}
  /\ UNCHANGED kept

-----------------------------------------------------------------------------
Next ==
  \/ \E r \in Ranges : Read(r) \/ DropRange(r)
  \/ \E l \in Loops : (\E r \in Ranges : BeginLoop(l, r)) \/ Advance(l) \/ LeaveLoop(l)
  \/ BeginTransaction \/ (\E m \in Marks : Insert(m)) \/ Commit \/ Rollback

Spec == Init /\ [][Next]_vars

-----------------------------------------------------------------------------
TypeOK ==
  /\ count \in 0 .. MaxRows
  /\ session.conn \in Connections(Marks)
  /\ \A r \in Ranges : session.cur[r].at \in 0 .. count
  /\ session.unread \in Ranges \cup {None}
  /\ trans \in {"none", "open", "spoilt"}
  /\ stored \subseteq Marks /\ kept \subseteq Marks

\* The rows that were no errors.
Rows(l) == {seen[l][i] : i \in DOMAIN seen[l]} \ {0}

\* Whatever else happens on the connection and whichever batches two loops
\* share, a loop is given rows in the order of the answer, none twice.
InOrder ==
  \A l \in Loops : \A i, j \in DOMAIN seen[l] :
    i < j /\ seen[l][i] # 0 /\ seen[l][j] # 0 => seen[l][i] < seen[l][j]

\* The only loop over a range that nothing disturbed and no failure reached has
\* had all rows when it ends, also if there are none or their number is a
\* multiple of the batch size.  With SQLite and DuckDB the other ranges and
\* transactions of the connection may do what they like meanwhile.
Complete ==
  \A l \in Loops :
    LET r == loop[l].over
        alone == Backend \in {"sqlite", "duckdb"} \/ r \notin shared
    IN AtEnd(l) /\ loops[r] = 1 /\ ~session.cur[r].lost /\ session.cur[r].typed /\ alone
         => Rows(l) = 1 .. count

\* Two loops over one range share the cursor: a row behind the first batch goes
\* to one of them only, whichever asks first.
SharedCursor ==
  \A k, l \in Loops :
    k # l /\ loop[k].over = loop[l].over /\ loop[k].over # None => Rows(k) \cap Rows(l) \subseteq 1 .. BatchSize

\* "If a transaction is not explicitly committed, it will be automatically
\* rolled back": whatever is committed was written in a transaction that
\* commit() has ended.  PostgreSQL and MySQL break this with a range that lives
\* within the transaction (run readers_commit).
OnlyCommitted ==
  Backend \in {"sqlite", "duckdb"} \/ ~mixed => session.conn.db \subseteq kept

\* When all ranges and the Transaction are gone, so are the results nobody has
\* read and the server's transaction: the next session on this connection starts
\* afresh.  Two things may stay: on PostgreSQL the aborted transaction of a
\* read() that failed (DECLARE), on MySQL the transaction of an object whose
\* ROLLBACK was refused because a range was unread.
CleanWhenReleased ==
  Live = {} /\ trans = "none" =>
    /\ session.unread = None
    /\ \/ session.conn.tx = "none"
       \/ Backend = "postgres" /\ session.conn.tx = "aborted"
       \/ Backend = "mysql" /\ mixed

\* The rollback of a Transaction object, stated for any backend: what is not
\* committed explicitly is rolled back.
RolledBackUnlessCommitted == session.conn.db \subseteq kept

\* A loop that goes on ends: it is given no more results than there are rows,
\* errors included.  Only a query that DuckDB could not run is an error without
\* end, whatever the loop does about it.
NoEndlessErrors ==
  \A l \in Loops :
    Running(l) => Len(seen[l]) <= count \/ ~session.cur[loop[l].over].server

=============================================================================
