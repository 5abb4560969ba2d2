------------------------------ MODULE Results ------------------------------
(***************************************************************************)
(* rfl::Result as the connections use it.  A call on a connection is an    *)
(* operator from the connection it finds to the set of its possible        *)
(* outcomes: the connection it leaves behind and whether it reports        *)
(* success.  A connection is a record of what a call can tell apart:       *)
(*                                                                         *)
(*   backend whose connection it is                                        *)
(*   db      the committed rows                                            *)
(*   view    the rows this connection reads                                *)
(*   tx      the transaction of the server: "none", "open" or "aborted"    *)
(*   stmt    a write has been started: stmt_, the COPY stream, appender_   *)
(*   buffer  the rows handed to the write and not yet executed             *)
(***************************************************************************)
AllBackends == {"sqlite", "postgres", "mysql", "duckdb"}

Connections(Rows) ==
  [backend : AllBackends, db : SUBSET Rows, view : SUBSET Rows,
   tx : {"none", "open", "aborted"}, stmt : BOOLEAN, buffer : SUBSET Rows]

Fresh(b) ==
  [backend |-> b, db |-> {}, view |-> {}, tx |-> "none", stmt |-> FALSE, buffer |-> {}]

Ok(c) == [conn |-> c, ok |-> TRUE]
Fail(c) == [conn |-> c, ok |-> FALSE]

AndThen(outcomes, F(_)) ==
  UNION {IF o.ok THEN F(o.conn) ELSE {o} : o \in outcomes}

\* The handlers of this code run a clean-up and return the first error.
OrElse(outcomes, F(_)) ==
  UNION {IF o.ok THEN {o} ELSE {Fail(p.conn) : p \in F(o.conn)} : o \in outcomes}

-----------------------------------------------------------------------------
\* What the servers have in common.

Begun(c) == [c EXCEPT !.tx = "open"]
Committed(c) == [c EXCEPT !.db = c.view, !.tx = "none"]
RolledBack(c) == [c EXCEPT !.view = c.db, !.tx = "none"]

\* Outside a transaction every statement commits by itself.
Stored(c, rows) ==
  IF c.tx = "none" THEN [c EXCEPT !.db = @ \cup rows, !.view = @ \cup rows]
                   ELSE [c EXCEPT !.view = @ \cup rows]

\* A loop over rows that stops at the first failure has stored some of them.
StoredPartly(c, rows) == {Stored(c, done) : done \in (SUBSET rows) \ {rows}}

=============================================================================
