---------------------------- MODULE ReadersProofs ----------------------------
(***************************************************************************)
(* What Readers promises on every backend, for any number of ranges, loops *)
(* and rows, any batch size and any failures of the server.  The invariant *)
(* comes in three parts, each of which is inductive with those before it:  *)
(* the connection and its transaction, the rows the loops are given, and   *)
(* the only loop over an undisturbed range.                                *)
(***************************************************************************)
EXTENDS Readers, IteratorsProofs

\* TypeOK with the rest of the state.
Types ==
  /\ count \in 0 .. MaxRows
  /\ session \in Sessions(Marks, count)
  /\ range \in [Ranges -> [state : {"none", "alive"}, first : Batches(count)]]
  /\ loop \in [Loops -> [state : {"none", "running", "over"}, over : Ranges \cup {None},
                         batch : Batches(count), ix : Nat]]
  /\ \A l \in Loops : loop[l].state = "none" <=> loop[l].over = None
  /\ trans \in {"none", "open", "spoilt"}
  /\ seen \in [Loops -> Seq(Nat)]
  /\ loops \in [Ranges -> Nat]
  /\ shared \subseteq Ranges /\ mixed \in BOOLEAN
  /\ stored \subseteq Marks /\ kept \subseteq Marks

-----------------------------------------------------------------------------
(* The connection and its transaction.                                     *)

\* Whose transaction it is that the server has open.
TxInv ==
  /\ Sane(session.conn) /\ ~session.conn.stmt
  /\ Backend = "postgres" /\ session.conn.tx = "open" =>
       trans # "none" \/ \E r \in Live : ~session.cur[r].end
  /\ Backend # "postgres" /\ trans = "none" => session.conn.tx = "none" \/ (Backend = "mysql" /\ mixed)
  /\ Backend \in {"sqlite", "mysql"} => session.conn.tx # "aborted"
  /\ session.unread # None => Backend = "mysql" /\ session.unread \in Live

\* What is committed, what is stored and what the program knows of it.
KeptInv ==
  /\ ~mixed /\ trans # "none" => Live = {}
  /\ Backend \in {"sqlite", "duckdb"} \/ ~mixed =>
       /\ session.conn.db \subseteq kept
       /\ trans = "none" => session.conn.view = session.conn.db
       /\ trans = "open" => /\ session.conn.tx = "open" \/ (Backend = "duckdb" /\ session.conn.tx = "aborted")
                            /\ session.conn.view \subseteq session.conn.db \cup stored

ConnectionInv == Types /\ TxInv /\ KeptInv

-----------------------------------------------------------------------------
(* What the calls of the iterators do, whatever the backend.               *)

LEMMA CountIsNat == ASSUME Types PROVE count \in Nat
BY ReadersAssumption DEF Types

LEMMA SessionTyped ==
  ASSUME Types
  PROVE  /\ session \in Sessions(Marks, count) /\ session.conn \in Connections(Marks)
         /\ Backend \in AllBackends
         /\ session.unread \in Ranges \cup {None}
         /\ \A q \in Ranges : session.cur[q] \in CursorsOf(count)
<1>1. session \in Sessions(Marks, count) /\ count \in Nat
  BY CountIsNat DEF Types
<1>2. session.conn \in Connections(Marks) /\ session.unread \in Ranges \cup {None}
      /\ \A q \in Ranges : session.cur[q] \in CursorsOf(count)
  BY <1>1, SessionFields
<1>. QED BY <1>1, <1>2 DEF Backend, Connections

LEMMA BackendIsOneOf ==
  ASSUME Types
  PROVE  Backend = "sqlite" \/ Backend = "postgres" \/ Backend = "mysql" \/ Backend = "duckdb"
BY SessionTyped DEF AllBackends

\* A new cursor in the place of r changes nothing else.
LEMMA CursorRenewed ==
  ASSUME NEW n \in Nat, NEW s \in Sessions(Marks, n), NEW r \in Ranges,
         NEW t, t = [s EXCEPT !.cur[r] = NewCursor]
  PROVE  t \in Sessions(Marks, n) /\ OnlyCursor(s, t, r, NewCursor)
BY NewCursorFields, CursorSet

LEMMA OpenedContract ==
  ASSUME Types, NEW r \in Ranges, NEW o \in Opened(r)
  PROVE  Opens(Marks, session, r, count, o.session, o.ok)
<1> DEFINE s == [session EXCEPT !.cur[r] = NewCursor]
<1>1. session \in Sessions(Marks, count) /\ count \in Nat
  BY SessionTyped, CountIsNat
<1>2. s \in Sessions(Marks, count) /\ OnlyCursor(session, s, r, NewCursor)
  BY <1>1, CursorRenewed
<1>3. o \in CASE Backend = "sqlite" ->
                  {[session |-> s, ok |-> FALSE]} \cup {[session |-> t, ok |-> TRUE] : t \in SqliteOpen(s, r, count)}
              [] Backend = "postgres" -> PostgresOpen(s, r, count)
              [] Backend = "mysql" -> MysqlOpen(s, r, count)
              [] Backend = "duckdb" -> {[session |-> t, ok |-> TRUE] : t \in DuckdbOpen(s, r, count)}
  BY DEF Opened
<1>. HIDE DEF s
<1>4. /\ s.cur[r] = NewCursor /\ s.conn = session.conn /\ s.unread = session.unread
      /\ \A q \in Ranges \ {r} : s.cur[q] = session.cur[q]
  BY <1>2 DEF OnlyCursor
<1>5. Opens(Marks, s, r, count, o.session, o.ok)
  <2>1. CASE Backend = "sqlite"
    <3>1. s.conn.backend = "sqlite"
      BY <1>4, <2>1 DEF Backend
    <3>2. CASE o = [session |-> s, ok |-> FALSE]
      <4>1. o.session = s /\ o.ok = FALSE
        BY <3>2
      <4>2. \A q \in Ranges \ {r} : SameCursor(s, s, q)
        BY DEF SameCursor
      <4>. QED BY <1>2, <1>4, <3>1, <4>1, <4>2, NewCursorFields, CountIsNat DEF Opens, ReadOnly
    <3>3. CASE o # [session |-> s, ok |-> FALSE]
      <4>1. PICK t \in SqliteOpen(s, r, count) : o = [session |-> t, ok |-> TRUE]
        BY <1>3, <2>1, <3>3
      <4>. QED BY <1>1, <1>2, <1>4, <3>1, <4>1, SqliteOpens
    <3>. QED BY <3>2, <3>3
  <2>2. CASE Backend = "postgres"
    <3>1. s.conn.backend = "postgres" /\ o \in PostgresOpen(s, r, count)
      BY <1>3, <1>4, <2>2 DEF Backend
    <3>. QED BY <1>1, <1>2, <1>4, <3>1, PostgresOpens
  <2>3. CASE Backend = "mysql"
    <3>1. s.conn.backend = "mysql" /\ o \in MysqlOpen(s, r, count)
      BY <1>3, <1>4, <2>3 DEF Backend
    <3>. QED BY <1>1, <1>2, <1>4, <3>1, MysqlOpens
  <2>4. CASE Backend = "duckdb"
    <3>1. s.conn.backend = "duckdb" /\ o \in {[session |-> t, ok |-> TRUE] : t \in DuckdbOpen(s, r, count)}
      BY <1>3, <1>4, <2>4 DEF Backend
    <3>2. PICK t \in DuckdbOpen(s, r, count) : o = [session |-> t, ok |-> TRUE]
      BY <3>1
    <3>. QED BY <1>1, <1>2, <1>4, <3>1, <3>2, DuckdbOpens
  <2>. QED BY <2>1, <2>2, <2>3, <2>4, BackendIsOneOf
<1>6. \A t : \A q \in Ranges \ {r} : SameCursor(s, t, q) => SameCursor(session, t, q)
  BY <1>4 DEF SameCursor
<1>. QED BY <1>4, <1>5, <1>6 DEF Opens

LEMMA NextContract ==
  ASSUME Types, NEW s \in Sessions(Marks, count), s.conn.backend = Backend, NEW r \in Ranges,
         NEW g \in NextBatch(s, r)
  PROVE  Fetched(Marks, s, r, count, g)
<1>1. count \in Nat
  BY CountIsNat
<1>2. CASE Backend = "sqlite"
  BY <1>1, <1>2, SqliteFetches DEF NextBatch
<1>3. CASE Backend = "postgres"
  BY <1>1, <1>3, PostgresFetches DEF NextBatch
<1>4. CASE Backend = "mysql"
  BY <1>1, <1>4, MysqlFetches DEF NextBatch
<1>5. CASE Backend = "duckdb"
  BY <1>1, <1>5, DuckdbFetches DEF NextBatch
<1>. QED BY <1>2, <1>3, <1>4, <1>5, BackendIsOneOf

LEMMA ClosedContract ==
  ASSUME Types, NEW r \in Ranges, NEW t \in Closed(r)
  PROVE  Closes(Marks, session, r, count, t)
<1>1. session \in Sessions(Marks, count) /\ count \in Nat
  BY SessionTyped, CountIsNat
<1>2. CASE Backend \in {"sqlite", "duckdb"}
  BY <1>1, <1>2, ClientCloses DEF Closed, Backend
<1>3. CASE Backend = "postgres"
  BY <1>1, <1>3, PostgresCloses DEF Closed, Backend
<1>4. CASE Backend = "mysql"
  BY <1>1, <1>4, MysqlCloses DEF Closed, Backend
<1>. QED BY <1>2, <1>3, <1>4, BackendIsOneOf

\* A call on the connection reaches the server, unless MySQL refuses it because
\* a result is unread; the cursors keep their place in the answer.
LEMMA CalledContract ==
  ASSUME Types, NEW P, \A p \in P : p.conn \in Connections(Marks) /\ p.conn.backend = Backend,
         NEW o \in Called(P)
  PROVE  /\ o.session \in Sessions(Marks, count)
         /\ \A q \in Ranges : SameCursor(session, o.session, q)
         /\ o.session.unread = session.unread
         /\ \/ \E p \in P : o.session.conn = p.conn /\ o.ok = p.ok
            \/ Backend = "mysql" /\ session.unread # None /\ o.session.conn = session.conn /\ o.ok = FALSE
<1>1. session \in Sessions(Marks, count) /\ count \in Nat
  BY SessionTyped, CountIsNat
<1>2. \A t : t.cur = session.cur => \A q \in Ranges : SameCursor(session, t, q)
  BY DEF SameCursor
<1>3. CASE Backend = "postgres"
  <2>1. PICK p \in P : o = [session |-> With(session, p.conn), ok |-> p.ok]
    BY <1>3 DEF Called
  <2>. DEFINE t == With(session, p.conn)
  <2>2. /\ t \in Sessions(Marks, count) /\ t.conn = p.conn /\ t.unread = session.unread
        /\ \A q \in Ranges : /\ t.cur[q] = session.cur[q] \/ t.cur[q] = [session.cur[q] EXCEPT !.server = FALSE]
                             /\ p.conn.tx = "open" => t.cur[q] = session.cur[q]
    BY <1>1, WithFields
  <2>. HIDE DEF t
  <2>3. t \in Sessions(Marks, count) /\ \A q \in Ranges :
          t.cur[q] = session.cur[q] \/ t.cur[q] = [session.cur[q] EXCEPT !.server = FALSE]
    BY <2>2
  <2>4. \A q \in Ranges : /\ t.cur[q] \in CursorsOf(count)
                          /\ t.cur[q].end = session.cur[q].end /\ t.cur[q].at = session.cur[q].at
                          /\ t.cur[q].typed = session.cur[q].typed /\ t.cur[q].lost = session.cur[q].lost
                          /\ t.cur[q].server => session.cur[q].server
    BY <1>1, <2>3, OffServer
  <2>5. \A q \in Ranges : SameCursor(session, t, q)
    BY <1>3, <2>4 DEF SameCursor, Backend
  <2>6. o.session = t /\ o.ok = p.ok
    BY <2>1 DEF t
  <2>. QED BY <2>2, <2>5, <2>6
<1>4. CASE Backend = "mysql" /\ session.unread # None
  <2>1. o = [session |-> [session EXCEPT !.stale = TRUE], ok |-> FALSE]
    BY <1>4 DEF Called, Sync
  <2>2. /\ o.session \in Sessions(Marks, count) /\ o.ok = FALSE
        /\ o.session.conn = session.conn /\ o.session.cur = session.cur /\ o.session.unread = session.unread
    BY <1>1, <2>1, SessionFields
  <2>. QED BY <1>2, <1>4, <2>2
<1>5. CASE Backend = "mysql" /\ session.unread = None
  <2>1. PICK p \in P : o = [session |-> [session EXCEPT !.conn = p.conn, !.stale = FALSE], ok |-> p.ok]
    BY <1>5 DEF Called, Sync
  <2>. DEFINE t == [session EXCEPT !.conn = p.conn, !.stale = FALSE]
  <2>2. t \in Sessions(Marks, count) /\ t.conn = p.conn /\ t.cur = session.cur /\ t.unread = session.unread
    <3>1. p.conn \in Connections(Marks)
      OBVIOUS
    <3>. QED BY <1>1, <3>1 DEF Sessions
  <2>3. o.session = t /\ o.ok = p.ok
    BY <2>1
  <2>. HIDE DEF t
  <2>. QED BY <1>2, <2>2, <2>3
<1>6. CASE Backend \in {"sqlite", "duckdb"}
  <2>1. PICK p \in P : o = [session |-> [session EXCEPT !.conn = p.conn], ok |-> p.ok]
    BY <1>6 DEF Called
  <2>. DEFINE t == [session EXCEPT !.conn = p.conn]
  <2>2. t \in Sessions(Marks, count) /\ t.conn = p.conn /\ t.cur = session.cur /\ t.unread = session.unread
    BY <1>1, SessionFields
  <2>3. o.session = t /\ o.ok = p.ok
    BY <2>1
  <2>. HIDE DEF t
  <2>. QED BY <1>2, <2>2, <2>3
<1>. QED BY <1>3, <1>4, <1>5, <1>6, BackendIsOneOf

-----------------------------------------------------------------------------
(* What the actions do to the session and to the ranges that are alive.    *)

\* A range r that has been opened in the session s and has its first batch.
StartsWith(R, s, r, n, t, b) ==
  LET d == t.cur[r] IN
  /\ t \in Sessions(R, n) /\ b \in Batches(n)
  /\ \A q \in Ranges \ {r} : SameCursor(s, t, q)
  /\ ReadOnly(s.conn, t.conn)
  /\ s.conn.backend \in {"sqlite", "mysql"} => t.conn = s.conn
  /\ s.conn.backend = "duckdb" => MayAbort(s.conn, t.conn)
  /\ s.conn.backend = "postgres" /\ t.conn.tx = "open" => ~d.end
  /\ t.unread \in {s.unread, None} \/ (s.conn.backend = "mysql" /\ t.unread = r)
  /\ \/ b = NoRows
     \/ b = OneError /\ (d.server => d.at >= 1)
     \/ \E k \in 0 .. BatchSize : b = Batch(0, k) /\ k <= d.at
  /\ ~d.lost /\ d.typed => Sound(t, r, n) /\ ~b.bad /\ d.at = b.size /\ (b.size = 0 => d.at = n)

LEMMA BatchTyped ==
  ASSUME NEW n \in Nat
  PROVE  /\ NoRows \in Batches(n) /\ OneError \in Batches(n)
         /\ \A f \in 0 .. n : \A k \in 0 .. BatchSize : Batch(f, k) \in Batches(n)
BY IteratorsAssumption DEF Batches, Batch, NoRows, OneError

LEMMA FirstBatch ==
  ASSUME NEW R, NEW n \in Nat, NEW s, NEW r \in Ranges, NEW u \in Sessions(R, n), NEW g,
         Opens(R, s, r, n, u, TRUE), Fetched(R, u, r, n, g)
  PROVE  StartsWith(R, s, r, n, g.session, g.batch)
<1> DEFINE t == g.session
           b == g.batch
           d == t.cur[r]
<1>1. /\ t \in Sessions(R, n) /\ u.cur[r].at = 0 /\ d \in CursorsOf(n) /\ d.at \in 0 .. n
      /\ u.conn.backend = s.conn.backend
  <2>1. u.conn.backend = s.conn.backend /\ u.cur[r].at = 0 /\ t \in Sessions(R, n)
    BY DEF Opens, Fetched, ReadOnly
  <2>2. d \in CursorsOf(n)
    BY <2>1, SessionFields
  <2>. QED BY <2>1, <2>2, CursorFields
<1>2. FetchedRows(u, r, n, g) /\ Served(u, t, r)
  BY DEF Fetched
<1>3. \A q \in Ranges \ {r} : SameCursor(s, t, q)
  BY <1>1, <1>2 DEF Opens, Served, SameCursor
<1>4. ReadOnly(s.conn, t.conn)
  BY <1>2, ReadOnlyTwice DEF Opens, Served
<1>5. /\ s.conn.backend \in {"sqlite", "mysql"} => t.conn = s.conn
      /\ s.conn.backend = "duckdb" => MayAbort(s.conn, t.conn)
      /\ s.conn.backend = "postgres" /\ t.conn.tx = "open" => ~d.end
      /\ t.unread \in {s.unread, None} \/ (s.conn.backend = "mysql" /\ t.unread = r)
  BY <1>1, <1>2 DEF Opens, Served
<1>. HIDE DEF t, b, d
<1>6. /\ b \in Batches(n)
      /\ \/ b = NoRows
         \/ b = OneError /\ (d.server => d.at >= 1)
         \/ \E k \in 0 .. BatchSize : b = Batch(0, k) /\ k <= d.at
  <2>1. b = NoRows \/ b = OneError \/ \E k \in 0 .. BatchSize : b = Batch(0, k)
    BY <1>1, <1>2 DEF FetchedRows, b, d, t
  <2>2. b \in Batches(n)
    <3>1. 0 \in 0 .. n
      OBVIOUS
    <3>. QED BY <2>1, <3>1, BatchTyped
  <2>3. \/ b = NoRows
        \/ b = OneError /\ (d.server => d.at >= 1)
        \/ \E k \in 0 .. BatchSize : b = Batch(0, k) /\ k <= d.at
    <3>1. \/ b = NoRows
          \/ b = OneError /\ (d.server => d.at >= u.cur[r].at + 1)
          \/ \E k \in 0 .. BatchSize : b = Batch(u.cur[r].at, k) /\ u.cur[r].at + k <= d.at
      BY <1>2 DEF FetchedRows, b, d, t
    <3>2. \A k \in 0 .. BatchSize : 0 + k = k
      BY IteratorsAssumption
    <3>3. CASE b = OneError /\ (d.server => d.at >= u.cur[r].at + 1)
      BY <1>1, <3>3
    <3>4. CASE \E k \in 0 .. BatchSize : b = Batch(u.cur[r].at, k) /\ u.cur[r].at + k <= d.at
      <4>1. PICK k \in 0 .. BatchSize : b = Batch(u.cur[r].at, k) /\ u.cur[r].at + k <= d.at
        BY <3>4
      <4>2. b = Batch(0, k) /\ k <= d.at
        BY <1>1, <3>2, <4>1
      <4>. QED BY <4>2
    <3>. QED BY <3>1, <3>3, <3>4
  <2>. QED BY <2>2, <2>3
<1>7. ~d.lost /\ d.typed => Sound(t, r, n) /\ ~b.bad /\ d.at = b.size /\ (b.size = 0 => d.at = n)
  <2>1. b.size \in Nat
    BY <1>6, IteratorsAssumption DEF Batches
  <2>2. ~d.lost /\ d.typed => Sound(u, r, n)
    BY <1>2 DEF FetchedRows, Opens, d, t
  <2>3. ~d.lost /\ d.typed => Sound(t, r, n) /\ ~b.bad /\ d.at = 0 + b.size /\ (b.size = 0 => d.at = n)
    BY <1>1, <1>2, <2>2 DEF FetchedRows, b, d, t
  <2>. QED BY <2>1, <2>3
<1>. QED BY <1>1, <1>3, <1>4, <1>5, <1>6, <1>7 DEF StartsWith, b, d, t

LEMMA Reads ==
  ASSUME Types, NEW r \in Ranges, Read(r)
  PROVE  \/ /\ Opens(Marks, session, r, count, session', FALSE)
            /\ range' = range /\ Live' = Live /\ trans' = Spoilt
         \/ \E b : /\ StartsWith(Marks, session, r, count, session', b)
                   /\ range' = [range EXCEPT ![r] = [state |-> "alive", first |-> b]]
                   /\ Live' = Live \cup {r} /\ trans' = trans
<1>1. PICK o \in Opened(r) :
        \/ ~o.ok /\ session' = o.session /\ trans' = Spoilt /\ UNCHANGED range
        \/ o.ok /\ (\E g \in NextBatch(o.session, r) :
                      /\ session' = g.session
                      /\ range' = [range EXCEPT ![r] = [state |-> "alive", first |-> g.batch]])
                /\ UNCHANGED trans
  BY DEF Read
<1>2. Opens(Marks, session, r, count, o.session, o.ok) /\ loop' = loop
  BY OpenedContract DEF Read
<1>3. CASE ~o.ok
  <2>1. o.ok = FALSE
    BY <1>2, <1>3 DEF Opens
  <2>2. Live' = Live
    BY <1>1, <1>2, <1>3 DEF Live, Holders
  <2>. QED BY <1>1, <1>2, <1>3, <2>1, <2>2
<1>4. CASE o.ok
  <2>1. PICK g \in NextBatch(o.session, r) :
          session' = g.session /\ range' = [range EXCEPT ![r] = [state |-> "alive", first |-> g.batch]]
    BY <1>1, <1>4
  <2>2. o.ok = TRUE /\ o.session \in Sessions(Marks, count) /\ o.session.conn.backend = Backend
    BY <1>2, <1>4 DEF Opens, ReadOnly, Backend
  <2>3. Fetched(Marks, o.session, r, count, g)
    BY <2>2, NextContract
  <2>4. StartsWith(Marks, session, r, count, session', g.batch)
    BY <1>2, <2>1, <2>2, <2>3, FirstBatch, CountIsNat
  <2>5. Live' = Live \cup {r}
    <3>1. range'[r].state = "alive" /\ \A q \in Ranges \ {r} : range'[q] = range[q]
      BY <2>1 DEF Types
    <3>. QED BY <1>2, <3>1 DEF Live, Holders
  <2>. QED BY <1>1, <1>4, <2>1, <2>4, <2>5
<1>. QED BY <1>3, <1>4

\* Going on in a loop either asks the cursor for the next batch or not.
LEMMA Advances ==
  ASSUME Types, NEW l \in Loops, Advance(l)
  PROVE  /\ Running(l) /\ loop[l].over \in Ranges
         /\ \/ \E g : /\ Fetched(Marks, session, loop[l].over, count, g) /\ session' = g.session
                      /\ loop[l].ix + 1 >= loop[l].batch.size /\ HasMore(loop[l].over)
                      /\ Show(l, loop[l].over, g.batch, 0)
            \/ /\ session' = session
               /\ ~(loop[l].ix + 1 >= loop[l].batch.size /\ HasMore(loop[l].over))
               /\ Show(l, loop[l].over, loop[l].batch, loop[l].ix + 1)
<1>1. Running(l) /\ loop[l].over \in Ranges
  BY DEF Advance, Running, Types
<1>2. \A g \in NextBatch(session, loop[l].over) : Fetched(Marks, session, loop[l].over, count, g)
  BY <1>1, SessionTyped, NextContract DEF Backend
<1>3. CASE loop[l].ix + 1 >= loop[l].batch.size /\ HasMore(loop[l].over)
  BY <1>1, <1>2, <1>3 DEF Advance
<1>4. CASE ~(loop[l].ix + 1 >= loop[l].batch.size /\ HasMore(loop[l].over))
  BY <1>1, <1>4 DEF Advance
<1>. QED BY <1>3, <1>4

\* What show does to the loops.
LEMMA Shown ==
  ASSUME Types, NEW l \in Loops, NEW r \in Ranges, NEW b, NEW ix, Show(l, r, b, ix)
  PROVE  /\ loop'[l].over = r /\ loop'[l].batch = b /\ loop'[l].ix = ix
         /\ loop'[l].state = "running" \/ loop'[l].state = "over"
         /\ loop'[l].state = "running" <=> IF Backend = "duckdb" THEN b.size > 0 ELSE ix < b.size
         /\ loop'[l].state = "running" => seen'[l] = Append(seen[l], Given(b, ix))
         /\ loop'[l].state = "over" => seen'[l] = seen[l]
         /\ \A k \in Loops \ {l} : loop'[k] = loop[k] /\ seen'[k] = seen[k]
<1> DEFINE more == IF Backend = "duckdb" THEN b.size > 0 ELSE ix < b.size
           p == [state |-> IF more THEN "running" ELSE "over", over |-> r, batch |-> b, ix |-> ix]
<1>1. /\ loop' = [loop EXCEPT ![l] = p]
      /\ seen' = IF more THEN [seen EXCEPT ![l] = Append(seen[l], Given(b, ix))] ELSE seen
  BY DEF Show
<1>2. p.over = r /\ p.batch = b /\ p.ix = ix /\ (more => p.state = "running") /\ (~more => p.state = "over")
  OBVIOUS
<1>. HIDE DEF p, more
<1>3. loop'[l] = p /\ \A k \in Loops \ {l} : loop'[k] = loop[k]
  BY <1>1 DEF Types
<1>4. /\ more => seen'[l] = Append(seen[l], Given(b, ix))
      /\ ~more => seen'[l] = seen[l]
      /\ \A k \in Loops \ {l} : seen'[k] = seen[k]
  BY <1>1 DEF Types
<1>. QED BY <1>2, <1>3, <1>4 DEF more

LEMMA ShownTyped ==
  ASSUME Types, NEW l \in Loops, NEW r \in Ranges, NEW b \in Batches(count), NEW ix \in Nat, Show(l, r, b, ix)
  PROVE  /\ loop' \in [Loops -> [state : {"none", "running", "over"}, over : Ranges \cup {None},
                                 batch : Batches(count), ix : Nat]]
         /\ seen' \in [Loops -> Seq(Nat)]
         /\ \A k \in Loops : loop'[k].state = "none" <=> loop'[k].over = None
<1> DEFINE more == IF Backend = "duckdb" THEN b.size > 0 ELSE ix < b.size
           p == [state |-> IF more THEN "running" ELSE "over", over |-> r, batch |-> b, ix |-> ix]
<1>1. Given(b, ix) \in Nat
  <2>1. b.from \in Nat
    BY CountIsNat DEF Batches
  <2>. QED BY <2>1 DEF Given
<1>2. loop' = [loop EXCEPT ![l] = p] /\ p \in [state : {"none", "running", "over"}, over : Ranges \cup {None},
                                 batch : Batches(count), ix : Nat] /\ p.state # "none" /\ p.over = r
  BY DEF Show
<1>3. seen' = IF more THEN [seen EXCEPT ![l] = Append(seen[l], Given(b, ix))] ELSE seen
  BY DEF Show
<1>. HIDE DEF p, more
<1>4. seen' \in [Loops -> Seq(Nat)]
  BY <1>1, <1>3 DEF Types
<1>. QED BY <1>2, <1>4, IteratorsAssumption DEF Types

LEMMA ShownLive ==
  ASSUME Types, NEW l \in Loops, NEW r \in Ranges, NEW b, NEW ix, Show(l, r, b, ix), range' = range,
         loop[l].over = r \/ (loop[l].over = None /\ range[r].state = "alive")
  PROVE  Live' = Live
<1>1. loop'[l].over = r /\ \A k \in Loops \ {l} : loop'[k].over = loop[k].over
  BY Shown
<1>2. CASE loop[l].over = r
  <2>1. \A k \in Loops : loop'[k].over = loop[k].over
    BY <1>1, <1>2
  <2>. QED BY <2>1 DEF Live, Holders
<1>3. CASE loop[l].over = None /\ range[r].state = "alive"
  <2>1. \A q \in Ranges \ {r} : Holders(q)' = Holders(q)
    BY <1>1, <1>3, IteratorsAssumption DEF Holders
  <2>. QED BY <1>3, <2>1 DEF Live
<1>. QED BY <1>2, <1>3

\* The last holder of r gives up its cursor.
GivesUp(r) == Closes(Marks, session, r, count, session') /\ session'.cur[r] = NewCursor

LEMMA Released ==
  ASSUME Types, NEW r \in Ranges, Release(r, TRUE)
  PROVE  GivesUp(r) /\ loops' = [loops EXCEPT ![r] = 0] /\ shared' = shared \ {r}
<1>1. PICK s \in Closed(r) : session' = [s EXCEPT !.cur[r] = NewCursor]
  BY DEF Release
<1>2. Closes(Marks, session, r, count, s)
  BY ClosedContract
<1>3. session' \in Sessions(Marks, count) /\ OnlyCursor(s, session', r, NewCursor)
  BY <1>1, <1>2, CountIsNat, CursorRenewed DEF Closes
<1>4. /\ session'.conn = s.conn /\ session'.unread = s.unread /\ session'.cur[r] = NewCursor
      /\ \A q \in Ranges \ {r} : session'.cur[q] = s.cur[q]
  BY <1>3 DEF OnlyCursor
<1>5. \A q \in Ranges \ {r} : SameCursor(session, session', q)
  BY <1>2, <1>4 DEF Closes, SameCursor
<1>6. GivesUp(r)
  BY <1>2, <1>3, <1>4, <1>5 DEF Closes, GivesUp
<1>. QED BY <1>6 DEF Release

LEMMA Leaves ==
  ASSUME Types, NEW l \in Loops, LeaveLoop(l), NEW r, r = loop[l].over
  PROVE  /\ r \in Ranges /\ r \in Live
         /\ loop' = [loop EXCEPT ![l] = NoLoop] /\ seen' = [seen EXCEPT ![l] = <<>>]
         /\ \/ /\ GivesUp(r) /\ Live' = Live \ {r} /\ range[r].state = "none"
               /\ \A k \in Loops : loop[k].over = r => k = l
               /\ loops' = [loops EXCEPT ![r] = 0] /\ shared' = shared \ {r}
            \/ Live' = Live /\ UNCHANGED <<session, loops, shared>>
<1>1. r \in Ranges /\ r \in Live
  BY DEF LeaveLoop, Types, Live, Holders
<1>2. /\ loop' = [loop EXCEPT ![l] = NoLoop] /\ seen' = [seen EXCEPT ![l] = <<>>] /\ range' = range
      /\ Release(r, range[r].state = "none" /\ Holders(r) = {l})
  BY DEF LeaveLoop
<1>3. \A q \in Ranges : \A k \in Loops : loop'[k].over = q <=> loop[k].over = q /\ k # l
  <2>1. loop'[l].over = None /\ \A k \in Loops \ {l} : loop'[k] = loop[k]
    BY <1>2 DEF Types, NoLoop
  <2>. QED BY <2>1, IteratorsAssumption
<1>4. CASE range[r].state = "none" /\ Holders(r) = {l}
  <2>1. (range[r].state = "none" /\ Holders(r) = {l}) = TRUE
    BY <1>4
  <2>2. Release(r, TRUE)
    BY <1>2, <2>1
  <2>3. GivesUp(r) /\ loops' = [loops EXCEPT ![r] = 0] /\ shared' = shared \ {r}
    BY <1>1, <2>2, Released
  <2>4. \A k \in Loops : loop[k].over = r => k = l
    BY <1>4 DEF Holders
  <2>5. Live' = Live \ {r}
    BY <1>1, <1>2, <1>3, <1>4, <2>4 DEF Live, Holders
  <2>. QED BY <1>1, <1>2, <1>4, <2>3, <2>4, <2>5
<1>5. CASE ~(range[r].state = "none" /\ Holders(r) = {l})
  <2>1. UNCHANGED <<session, loops, shared>>
    BY <1>2, <1>5 DEF Release
  <2>2. range[r].state = "alive" \/ \E k \in Loops : loop[k].over = r /\ k # l
    BY <1>1, <1>5 DEF Types, Holders
  <2>3. Live' = Live
    BY <1>1, <1>2, <1>3, <2>2 DEF Live, Holders
  <2>. QED BY <1>1, <1>2, <2>1, <2>3
<1>. QED BY <1>4, <1>5

LEMMA Drops ==
  ASSUME Types, NEW r \in Ranges, DropRange(r)
  PROVE  /\ r \in Live /\ range' = [range EXCEPT ![r] = NoRange]
         /\ \/ /\ GivesUp(r) /\ Live' = Live \ {r}
               /\ \A k \in Loops : loop[k].over # r
               /\ loops' = [loops EXCEPT ![r] = 0] /\ shared' = shared \ {r}
            \/ Live' = Live /\ UNCHANGED <<session, loops, shared>>
<1>1. /\ range[r].state = "alive" /\ range' = [range EXCEPT ![r] = NoRange] /\ loop' = loop
      /\ Release(r, Holders(r) = {})
  BY DEF DropRange
<1>2. r \in Live
  BY <1>1 DEF Live
<1>3. range'[r].state = "none" /\ \A q \in Ranges \ {r} : range'[q] = range[q]
  BY <1>1 DEF Types, NoRange
<1>4. CASE Holders(r) = {}
  <2>1. (Holders(r) = {}) = TRUE
    BY <1>4
  <2>2. Release(r, TRUE)
    BY <1>1, <2>1
  <2>3. GivesUp(r) /\ loops' = [loops EXCEPT ![r] = 0] /\ shared' = shared \ {r}
    BY <2>2, Released
  <2>4. Live' = Live \ {r}
    BY <1>1, <1>3, <1>4 DEF Live, Holders
  <2>. QED BY <1>1, <1>2, <1>4, <2>3, <2>4 DEF Holders
<1>5. CASE Holders(r) # {}
  <2>1. UNCHANGED <<session, loops, shared>>
    BY <1>1, <1>5 DEF Release
  <2>2. Live' = Live
    BY <1>1, <1>3, <1>5 DEF Live, Holders
  <2>. QED BY <1>1, <1>2, <2>1, <2>2
<1>. QED BY <1>4, <1>5

\* What every call on the connection leaves as it is.
ServerCalled ==
  /\ session' \in Sessions(Marks, count)
  /\ \A q \in Ranges : SameCursor(session, session', q)
  /\ session'.unread = session.unread
  /\ shared' = shared \cup Live /\ mixed' = (mixed \/ Live # {}) /\ Live' = Live
  /\ UNCHANGED <<count, range, loop, seen, loops>>

LEMMA CallMade ==
  ASSUME Types, NEW P, \A p \in P : p.conn \in Connections(Marks) /\ p.conn.backend = Backend,
         NEW o \in Called(P), Calls(o)
  PROVE  /\ ServerCalled
         /\ \/ \E p \in P : session'.conn = p.conn /\ o.ok = p.ok
            \/ Backend = "mysql" /\ session.unread # None /\ session'.conn = session.conn /\ o.ok = FALSE
<1>1. /\ o.session \in Sessions(Marks, count)
      /\ \A q \in Ranges : SameCursor(session, o.session, q)
      /\ o.session.unread = session.unread
      /\ \/ \E p \in P : o.session.conn = p.conn /\ o.ok = p.ok
         \/ Backend = "mysql" /\ session.unread # None /\ o.session.conn = session.conn /\ o.ok = FALSE
  BY CalledContract
<1>2. /\ session' = o.session /\ shared' = shared \cup Live /\ mixed' = (mixed \/ Live # {})
      /\ UNCHANGED <<count, range, loop, seen, loops>>
  BY DEF Calls
<1>3. Live' = Live
  BY <1>2 DEF Live, Holders
<1>. QED BY <1>1, <1>2, <1>3 DEF ServerCalled

-----------------------------------------------------------------------------
(* The transaction of the connection is the one the program knows of.      *)

\* Reading disturbs neither part, whoever has the transaction.
LEMMA ReadingKeeps ==
  ASSUME ConnectionInv,
         session' \in Sessions(Marks, count), ReadOnly(session.conn, session'.conn),
         Backend \in {"sqlite", "mysql"} => session'.conn = session.conn,
         Backend = "duckdb" => MayAbort(session.conn, session'.conn),
         trans' = trans \/ trans' = Spoilt,
         mixed' \in BOOLEAN, mixed => mixed',
         trans # "none" /\ Backend \notin {"sqlite", "duckdb"} => mixed',
         ~mixed' /\ trans' # "none" => Live' = {},
         Backend = "postgres" /\ session'.conn.tx = "open" => trans' # "none" \/ \E r \in Live' : ~session'.cur[r].end,
         session'.unread # None => Backend = "mysql" /\ session'.unread \in Live',
         UNCHANGED <<stored, kept>>
  PROVE  TxInv' /\ KeptInv'
<1> DEFINE c == session.conn
           d == session'.conn
<1>1. c \in Connections(Marks) /\ Backend' = Backend /\ Sane(d) /\ ~d.stmt /\ (c.view = c.db => d.view = c.db /\ d.db = c.db)
  BY SessionTyped DEF ConnectionInv, TxInv, ReadOnly, Backend
<1>2. Backend = "duckdb" => d.db = c.db /\ d.view = c.view /\ (c.tx = "none" => d.tx = "none")
                            /\ (c.tx # "none" => d.tx \in {"open", "aborted"})
  <2>1. Backend = "duckdb" => d \in Connections(Marks) /\ d.db = c.db /\ d.view = c.view
                              /\ (c.tx = "none" => d.tx = "none") /\ (c.tx # "none" => d.tx # "none")
    BY <1>1, AbortedFields
  <2>. QED BY <2>1 DEF Connections
<1>3. trans' = "none" <=> trans = "none"
  BY DEF Spoilt
<1>4. trans' = "open" => trans = "open"
  BY DEF Spoilt
<1>5. TxInv'
  <2>1. Backend # "postgres" /\ trans' = "none" => d.tx = "none" \/ (Backend = "mysql" /\ mixed')
    BY <1>2, <1>3, BackendIsOneOf DEF ConnectionInv, TxInv
  <2>2. Backend \in {"sqlite", "mysql"} => d.tx # "aborted"
    BY DEF ConnectionInv, TxInv
  <2>. QED BY <1>1, <2>1, <2>2 DEF TxInv
<1>6. KeptInv'
  <2>1. CASE trans = "none"
    BY <1>1, <1>3, <2>1 DEF ConnectionInv, KeptInv
  <2>2. CASE trans # "none" /\ Backend = "sqlite"
    BY <1>1, <1>3, <1>4, <2>2 DEF ConnectionInv, KeptInv
  <2>3. CASE trans # "none" /\ Backend = "duckdb"
    BY <1>1, <1>2, <1>3, <1>4, <2>3 DEF ConnectionInv, KeptInv
  <2>4. CASE trans # "none" /\ Backend \notin {"sqlite", "duckdb"}
    BY <1>1, <2>4 DEF KeptInv
  <2>. QED BY <2>1, <2>2, <2>3, <2>4
<1>. QED BY <1>5, <1>6

LEMMA ConnectionInit == Init => ConnectionInv
<1> SUFFICES ASSUME Init PROVE ConnectionInv
  OBVIOUS
<1>0. count \in 0 .. MaxRows /\ count \in Nat
  BY ReadersAssumption DEF Init
<1>1. PICK b \in Backends : session = [conn |-> Fresh(b), cur |-> [r \in Ranges |-> NewCursor],
                                       unread |-> None, stale |-> FALSE]
  BY DEF Init
<1>2. /\ Fresh(b) \in Connections(Marks) /\ Fresh(b).tx = "none" /\ Fresh(b).stmt = FALSE
      /\ Fresh(b).db = {} /\ Fresh(b).view = {} /\ Fresh(b).buffer = {}
  BY ReadersAssumption DEF Fresh, Connections
<1>3. /\ session \in Sessions(Marks, count) /\ session.conn = Fresh(b) /\ session.unread = None
  BY <1>0, <1>1, <1>2, NewCursorFields DEF Sessions
<1>4. NoRows \in Batches(count)
  BY <1>0, BatchTyped
<1>5. /\ range = [r \in Ranges |-> [state |-> "none", first |-> NoRows]]
      /\ loop = [l \in Loops |-> [state |-> "none", over |-> None, batch |-> NoRows, ix |-> 0]]
      /\ trans = "none" /\ seen = [l \in Loops |-> <<>>] /\ loops = [r \in Ranges |-> 0]
      /\ shared = {} /\ mixed = FALSE /\ stored = {} /\ kept = {}
  BY DEF Init, NoRange, NoLoop
<1>6. Types
  <2>1. range \in [Ranges -> [state : {"none", "alive"}, first : Batches(count)]]
    BY <1>4, <1>5
  <2>2. loop \in [Loops -> [state : {"none", "running", "over"}, over : Ranges \cup {None},
                            batch : Batches(count), ix : Nat]]
    BY <1>4, <1>5
  <2>3. \A l \in Loops : loop[l].state = "none" <=> loop[l].over = None
    BY <1>5
  <2>4. seen \in [Loops -> Seq(Nat)] /\ loops \in [Ranges -> Nat]
    BY <1>5
  <2>. QED BY <1>0, <1>3, <1>5, <2>1, <2>2, <2>3, <2>4 DEF Types
<1>7. TxInv
  BY <1>2, <1>3, <1>5 DEF TxInv, Sane
<1>8. KeptInv
  BY <1>2, <1>3, <1>5 DEF KeptInv
<1>. QED BY <1>6, <1>7, <1>8 DEF ConnectionInv

LEMMA ConnectionReads ==
  ASSUME ConnectionInv, NEW r \in Ranges, Read(r) PROVE ConnectionInv'
<1>0. /\ Types /\ r \notin Live /\ UNCHANGED <<count, loop, seen, loops, stored, kept>>
      /\ mixed' = (mixed \/ trans # "none")
      /\ shared' = shared \cup (IF Live = {} /\ trans = "none" THEN {} ELSE Live \cup {r})
  BY DEF ConnectionInv, Read
<1>1. mixed' \in BOOLEAN /\ shared' \subseteq Ranges
  BY <1>0 DEF Types, Live
<1>2. CASE /\ Opens(Marks, session, r, count, session', FALSE)
           /\ range' = range /\ Live' = Live /\ trans' = Spoilt
  <2>1. Types'
    BY <1>0, <1>1, <1>2 DEF Types, Opens, Spoilt
  <2>2. ~mixed' /\ trans' # "none" => Live' = {}
    BY <1>0, <1>2 DEF Spoilt
  <2>3. /\ session' \in Sessions(Marks, count) /\ ReadOnly(session.conn, session'.conn)
        /\ Backend \in {"sqlite", "mysql"} => session'.conn = session.conn
        /\ Backend = "duckdb" => MayAbort(session.conn, session'.conn)
        /\ Backend = "postgres" => session'.conn.tx # "open"
        /\ session'.unread = session.unread
    BY <1>2 DEF Opens, Backend
  <2>4. session'.unread # None => Backend = "mysql" /\ session'.unread \in Live'
    BY <1>2, <2>3 DEF ConnectionInv, TxInv
  <2>5. TxInv' /\ KeptInv'
    BY <1>0, <1>1, <1>2, <2>2, <2>3, <2>4, ReadingKeeps
  <2>. QED BY <2>1, <2>5 DEF ConnectionInv
<1>3. CASE \E b : /\ StartsWith(Marks, session, r, count, session', b)
                  /\ range' = [range EXCEPT ![r] = [state |-> "alive", first |-> b]]
                  /\ Live' = Live \cup {r} /\ trans' = trans
  <2>0. PICK b : /\ StartsWith(Marks, session, r, count, session', b)
                 /\ range' = [range EXCEPT ![r] = [state |-> "alive", first |-> b]]
                 /\ Live' = Live \cup {r} /\ trans' = trans
    BY <1>3
  <2>1. Types'
    <3>1. range' \in [Ranges -> [state : {"none", "alive"}, first : Batches(count)]]
      BY <1>0, <2>0 DEF Types, StartsWith
    <3>. QED BY <1>0, <1>1, <2>0, <3>1 DEF Types, StartsWith
  <2>2. ~mixed' /\ trans' # "none" => Live' = {}
    BY <1>0, <2>0
  <2>3. /\ session' \in Sessions(Marks, count) /\ ReadOnly(session.conn, session'.conn)
        /\ Backend \in {"sqlite", "mysql"} => session'.conn = session.conn
        /\ Backend = "duckdb" => MayAbort(session.conn, session'.conn)
        /\ Backend = "postgres" /\ session'.conn.tx = "open" => ~session'.cur[r].end
        /\ session'.unread \in {session.unread, None} \/ (Backend = "mysql" /\ session'.unread = r)
    BY <2>0 DEF StartsWith, Backend
  <2>4. session'.unread # None => Backend = "mysql" /\ session'.unread \in Live'
    BY <2>0, <2>3 DEF ConnectionInv, TxInv
  <2>5. TxInv' /\ KeptInv'
    BY <1>0, <1>1, <2>0, <2>2, <2>3, <2>4, ReadingKeeps
  <2>. QED BY <2>1, <2>5 DEF ConnectionInv
<1>. QED BY <1>0, <1>2, <1>3, Reads

\* A step that leaves the connection and who is alive alone.
LEMMA ConnectionIdle ==
  ASSUME ConnectionInv, Types', UNCHANGED <<session, trans, mixed, stored, kept>>, Live' = Live
  PROVE  ConnectionInv'
<1>1. Backend' = Backend
  BY DEF Backend
<1>. QED BY <1>1 DEF ConnectionInv, TxInv, KeptInv

LEMMA ConnectionBeginsLoop ==
  ASSUME ConnectionInv, NEW l \in Loops, NEW r \in Ranges, BeginLoop(l, r) PROVE ConnectionInv'
<1>1. /\ Types /\ Show(l, r, range[r].first, 0) /\ loop[l].over = None /\ range[r].state = "alive"
      /\ UNCHANGED <<count, session, range, trans, shared, mixed, stored, kept>>
      /\ loops' = [loops EXCEPT ![r] = loops[r] + 1]
  BY DEF ConnectionInv, BeginLoop, Types
<1>2. range[r].first \in Batches(count)
  BY <1>1 DEF Types
<1>3. /\ loop' \in [Loops -> [state : {"none", "running", "over"}, over : Ranges \cup {None},
                              batch : Batches(count), ix : Nat]]
      /\ seen' \in [Loops -> Seq(Nat)]
      /\ \A k \in Loops : loop'[k].state = "none" <=> loop'[k].over = None
  BY <1>1, <1>2, ShownTyped
<1>4. Types'
  BY <1>1, <1>3 DEF Types
<1>5. Live' = Live
  BY <1>1, ShownLive
<1>. QED BY <1>1, <1>4, <1>5, ConnectionIdle

LEMMA ConnectionAdvances ==
  ASSUME ConnectionInv, NEW l \in Loops, Advance(l) PROVE ConnectionInv'
<1>0. Types /\ UNCHANGED <<count, range, trans, loops, shared, mixed, stored, kept>>
  BY DEF ConnectionInv, Advance
<1>1. PICK r \in Ranges : r = loop[l].over
  BY <1>0, Advances
<1>2. r \in Live
  BY <1>1 DEF Live, Holders
<1>3. ASSUME NEW b \in Batches(count), NEW ix \in Nat, Show(l, r, b, ix), session' \in Sessions(Marks, count)
      PROVE  Types' /\ Live' = Live
  <2>1. /\ loop' \in [Loops -> [state : {"none", "running", "over"}, over : Ranges \cup {None},
                                batch : Batches(count), ix : Nat]]
        /\ seen' \in [Loops -> Seq(Nat)]
        /\ \A k \in Loops : loop'[k].state = "none" <=> loop'[k].over = None
    BY <1>0, <1>3, ShownTyped
  <2>2. Types'
    BY <1>0, <1>3, <2>1 DEF Types
  <2>. QED BY <1>0, <1>1, <1>3, <2>2, ShownLive
<1>4. CASE session' = session /\ Show(l, r, loop[l].batch, loop[l].ix + 1)
  <2>1. loop[l].batch \in Batches(count) /\ loop[l].ix + 1 \in Nat
    BY <1>0 DEF Types
  <2>2. Types' /\ Live' = Live
    BY <1>0, <1>3, <1>4, <2>1, SessionTyped
  <2>. QED BY <1>0, <1>4, <2>2, ConnectionIdle
<1>5. CASE \E g : Fetched(Marks, session, r, count, g) /\ session' = g.session /\ Show(l, r, g.batch, 0)
  <2>1. PICK g : Fetched(Marks, session, r, count, g) /\ session' = g.session /\ Show(l, r, g.batch, 0)
    BY <1>5
  <2>2. session' \in Sessions(Marks, count) /\ Served(session, session', r) /\ FetchedRows(session, r, count, g)
    BY <2>1 DEF Fetched
  <2>3. g.batch \in Batches(count)
    <3>1. session.cur[r].at \in 0 .. count
      BY <1>0, SessionTyped, CursorFields, CountIsNat
    <3>. QED BY <1>0, <2>2, <3>1, BatchTyped, CountIsNat DEF FetchedRows
  <2>4. Types' /\ Live' = Live
    BY <1>3, <2>1, <2>2, <2>3
  <2>5. /\ ReadOnly(session.conn, session'.conn)
        /\ Backend \in {"sqlite", "mysql"} => session'.conn = session.conn
        /\ Backend = "duckdb" => MayAbort(session.conn, session'.conn)
        /\ session'.unread = session.unread \/ session'.unread = None
    BY <2>2 DEF Served, Backend, MayAbort
  <2>6. Backend = "postgres" /\ session'.conn.tx = "open" => trans' # "none" \/ \E q \in Live' : ~session'.cur[q].end
    <3>1. Backend = "postgres" /\ session'.conn.tx = "open" =>
            session.conn.tx = "open" /\ \A q \in Ranges : session'.cur[q].end = session.cur[q].end
      BY <2>2 DEF Served, SameCursor, Backend
    <3>. QED BY <1>0, <2>4, <3>1 DEF ConnectionInv, TxInv, Live
  <2>7. session'.unread # None => Backend = "mysql" /\ session'.unread \in Live'
    BY <2>4, <2>5 DEF ConnectionInv, TxInv
  <2>8. /\ trans # "none" /\ Backend \notin {"sqlite", "duckdb"} => mixed'
        /\ ~mixed' /\ trans' # "none" => Live' = {}
        /\ mixed' \in BOOLEAN
    BY <1>0, <1>2, <2>4 DEF ConnectionInv, KeptInv, Types
  <2>9. TxInv' /\ KeptInv'
    BY <1>0, <2>2, <2>5, <2>6, <2>7, <2>8, ReadingKeeps
  <2>. QED BY <2>4, <2>9 DEF ConnectionInv
<1>. QED BY <1>0, <1>1, <1>4, <1>5, Advances

LEMMA ConnectionGivesUp ==
  ASSUME ConnectionInv, NEW r \in Live, GivesUp(r), Live' = Live \ {r}, UNCHANGED <<trans, mixed, stored, kept>>
  PROVE  TxInv' /\ KeptInv'
<1>0. Types /\ r \in Ranges
  BY DEF ConnectionInv, Live
<1>1. /\ session' \in Sessions(Marks, count) /\ ReadOnly(session.conn, session'.conn)
      /\ Backend # "postgres" => session'.conn = session.conn
      /\ session'.unread = session.unread \/ session'.unread = None
      /\ Backend = "mysql" => session'.unread # r
  BY DEF GivesUp, Closes, Backend
<1>2. /\ Backend \in {"sqlite", "mysql"} => session'.conn = session.conn
      /\ Backend = "duckdb" => MayAbort(session.conn, session'.conn)
  BY <1>1 DEF MayAbort
<1>3. Backend = "postgres" /\ session'.conn.tx = "open" => trans' # "none" \/ \E q \in Live' : ~session'.cur[q].end
  <2>1. Backend = "postgres" /\ session'.conn.tx = "open" =>
          /\ session.conn.tx = "open" /\ session.cur[r].end
          /\ \A q \in Ranges \ {r} : session'.cur[q].end = session.cur[q].end
    BY DEF GivesUp, Closes, SameCursor, Backend
  <2>. QED BY <2>1 DEF ConnectionInv, TxInv, Live
<1>4. session'.unread # None => Backend = "mysql" /\ session'.unread \in Live'
  BY <1>1 DEF ConnectionInv, TxInv
<1>5. /\ trans # "none" /\ Backend \notin {"sqlite", "duckdb"} => mixed'
      /\ ~mixed' /\ trans' # "none" => Live' = {}
      /\ mixed' \in BOOLEAN
  BY <1>0 DEF ConnectionInv, KeptInv, Types
<1>. QED BY <1>1, <1>2, <1>3, <1>4, <1>5, ReadingKeeps

LEMMA ConnectionLeavesLoop ==
  ASSUME ConnectionInv, NEW l \in Loops, LeaveLoop(l) PROVE ConnectionInv'
<1>0. Types /\ UNCHANGED <<count, range, trans, mixed, stored, kept>>
  BY DEF ConnectionInv, LeaveLoop
<1>. DEFINE r == loop[l].over
<1>1. /\ r \in Ranges /\ r \in Live
      /\ loop' = [loop EXCEPT ![l] = NoLoop] /\ seen' = [seen EXCEPT ![l] = <<>>]
      /\ \/ /\ GivesUp(r) /\ Live' = Live \ {r} /\ range[r].state = "none"
            /\ \A k \in Loops : loop[k].over = r => k = l
            /\ loops' = [loops EXCEPT ![r] = 0] /\ shared' = shared \ {r}
         \/ Live' = Live /\ UNCHANGED <<session, loops, shared>>
  BY <1>0, Leaves
<1>. HIDE DEF r
<1>2. /\ loop' \in [Loops -> [state : {"none", "running", "over"}, over : Ranges \cup {None},
                              batch : Batches(count), ix : Nat]]
      /\ \A k \in Loops : loop'[k].state = "none" <=> loop'[k].over = None
      /\ seen' \in [Loops -> Seq(Nat)]
  <2>1. NoRows \in Batches(count)
    BY <1>0, CountIsNat, BatchTyped
  <2>2. NoLoop \in [state : {"none", "running", "over"}, over : Ranges \cup {None}, batch : Batches(count), ix : Nat]
        /\ NoLoop.state = "none" /\ NoLoop.over = None
    BY <2>1 DEF NoLoop
  <2>3. seen' \in [Loops -> Seq(Nat)]
    BY <1>0, <1>1 DEF Types
  <2>. QED BY <1>0, <1>1, <2>2, <2>3 DEF Types
<1>3. CASE GivesUp(r) /\ Live' = Live \ {r} /\ loops' = [loops EXCEPT ![r] = 0] /\ shared' = shared \ {r}
  <2>1. Types'
    BY <1>0, <1>2, <1>3 DEF Types, GivesUp, Closes
  <2>. QED BY <1>0, <1>1, <1>3, <2>1, ConnectionGivesUp DEF ConnectionInv
<1>4. CASE Live' = Live /\ UNCHANGED <<session, loops, shared>>
  <2>1. Types'
    BY <1>0, <1>2, <1>4 DEF Types
  <2>. QED BY <1>0, <1>4, <2>1, ConnectionIdle
<1>. QED BY <1>1, <1>3, <1>4

LEMMA ConnectionDropsRange ==
  ASSUME ConnectionInv, NEW r \in Ranges, DropRange(r) PROVE ConnectionInv'
<1>0. Types /\ UNCHANGED <<count, loop, trans, seen, mixed, stored, kept>>
  BY DEF ConnectionInv, DropRange
<1>1. /\ r \in Live /\ range' = [range EXCEPT ![r] = NoRange]
      /\ \/ /\ GivesUp(r) /\ Live' = Live \ {r}
            /\ loops' = [loops EXCEPT ![r] = 0] /\ shared' = shared \ {r}
         \/ Live' = Live /\ UNCHANGED <<session, loops, shared>>
  BY <1>0, Drops
<1>2. range' \in [Ranges -> [state : {"none", "alive"}, first : Batches(count)]]
  <2>1. NoRows \in Batches(count)
    BY <1>0, CountIsNat, BatchTyped
  <2>2. NoRange \in [state : {"none", "alive"}, first : Batches(count)]
    BY <2>1 DEF NoRange
  <2>. QED BY <1>0, <1>1, <2>2 DEF Types
<1>3. CASE GivesUp(r) /\ Live' = Live \ {r} /\ loops' = [loops EXCEPT ![r] = 0] /\ shared' = shared \ {r}
  <2>1. Types'
    BY <1>0, <1>2, <1>3 DEF Types, GivesUp, Closes
  <2>. QED BY <1>0, <1>1, <1>3, <2>1, ConnectionGivesUp DEF ConnectionInv
<1>4. CASE Live' = Live /\ UNCHANGED <<session, loops, shared>>
  <2>1. Types'
    BY <1>0, <1>2, <1>4 DEF Types
  <2>. QED BY <1>0, <1>4, <2>1, ConnectionIdle
<1>. QED BY <1>1, <1>3, <1>4

\* What holds of every call on the connection, made or refused.
LEMMA TypesCalled ==
  ASSUME Types, ServerCalled, trans' \in {"none", "open", "spoilt"}, stored' \subseteq Marks, kept' \subseteq Marks
  PROVE  Types' /\ mixed' \in BOOLEAN
<1>1. mixed' \in BOOLEAN /\ shared' \subseteq Ranges
  BY DEF Types, ServerCalled, Live
<1>2. session' \in Sessions(Marks, count) /\ UNCHANGED <<count, range, loop, seen, loops>>
  BY DEF ServerCalled
<1>. QED BY <1>1, <1>2 DEF Types

\* A call that MySQL has refused because a result is unread: from now on the
\* transaction is mixed up with a range.
LEMMA RefusedKeeps ==
  ASSUME ConnectionInv, ServerCalled, Backend = "mysql", session.unread # None, session'.conn = session.conn
  PROVE  TxInv' /\ KeptInv'
<1>1. Types /\ Backend' = "mysql" /\ session.unread \in Live
  BY DEF ConnectionInv, TxInv, Backend
<1>2. mixed' = TRUE /\ Live' = Live /\ session'.unread = session.unread
  BY <1>1 DEF ServerCalled, Types
<1>3. TxInv'
  BY <1>1, <1>2 DEF ConnectionInv, TxInv
<1>4. KeptInv'
  BY <1>1, <1>2 DEF KeptInv
<1>. QED BY <1>3, <1>4

\* A call that reached the server, by what it did to the transaction.
LEMMA CalledKeeps ==
  ASSUME ConnectionInv, ServerCalled, NEW p, Orderly(Marks, session.conn, p), session'.conn = p.conn,
         trans' \in {"none", "open", "spoilt"},
         trans' = "none" => p.conn.tx = "none" \/ (p.conn = session.conn /\ trans = "none"),
         Backend \in {"sqlite", "duckdb"} \/ (~mixed /\ Live = {}) =>
           /\ p.conn.db \subseteq kept'
           /\ trans' = "none" => p.conn.view = p.conn.db
           /\ trans' = "open" => /\ p.conn.tx = "open" \/ (Backend = "duckdb" /\ p.conn.tx = "aborted")
                                 /\ p.conn.view \subseteq p.conn.db \cup stored'
  PROVE  TxInv' /\ KeptInv'
<1>1. /\ Types /\ Backend' = Backend /\ session'.unread = session.unread /\ Live' = Live
      /\ mixed' = (mixed \/ Live # {}) /\ mixed \in BOOLEAN
      /\ \A q \in Ranges : session'.cur[q].end = session.cur[q].end
  BY DEF ConnectionInv, Types, Orderly, Backend, ServerCalled, SameCursor
<1>2. TxInv'
  <2>1. Sane(session'.conn) /\ ~session'.conn.stmt
    BY DEF Orderly
  <2>2. Backend = "postgres" /\ session'.conn.tx = "open" => trans' # "none" \/ \E r \in Live' : ~session'.cur[r].end
    <3>1. CASE trans' = "none" /\ p.conn = session.conn /\ trans = "none"
      BY <1>1, <3>1 DEF ConnectionInv, TxInv, Live
    <3>. QED BY <3>1
  <2>3. Backend # "postgres" /\ trans' = "none" => session'.conn.tx = "none" \/ (Backend = "mysql" /\ mixed')
    BY <1>1 DEF ConnectionInv, TxInv
  <2>4. Backend \in {"sqlite", "mysql"} => session'.conn.tx # "aborted"
    BY DEF ConnectionInv, TxInv, Orderly, Atomic, Backend
  <2>5. session'.unread # None => Backend = "mysql" /\ session'.unread \in Live'
    BY <1>1 DEF ConnectionInv, TxInv
  <2>. QED BY <1>1, <2>1, <2>2, <2>3, <2>4, <2>5 DEF TxInv
<1>3. KeptInv'
  BY <1>1 DEF KeptInv
<1>. QED BY <1>2, <1>3
\* Before a call: what the calls expect of the connection.
LEMMA BeforeCall ==
  ASSUME ConnectionInv
  PROVE  /\ Types /\ session.conn \in Connections(Marks) /\ Sane(session.conn) /\ ~session.conn.stmt
         /\ Backend = session.conn.backend
         /\ trans = "none" /\ session.conn.tx # "none" => session.conn.backend \in {"postgres", "mysql"}
         /\ session.conn.tx = "aborted" => ~Atomic(session.conn)
<1>1. Types /\ session.conn \in Connections(Marks)
  BY SessionTyped DEF ConnectionInv
<1>. QED BY <1>1, BackendIsOneOf DEF ConnectionInv, TxInv, Atomic, Backend

LEMMA ConnectionBeginsTransaction ==
  ASSUME ConnectionInv, BeginTransaction PROVE ConnectionInv'
<1> DEFINE P == begin_transaction(session.conn)
<1>1. PICK o \in Called(P) : Calls(o) /\ trans' = IF o.ok THEN "open" ELSE "none"
  BY DEF BeginTransaction
<1>2. trans = "none" /\ UNCHANGED <<stored, kept>>
  BY DEF BeginTransaction
<1>3. \A p \in P : /\ Orderly(Marks, session.conn, p)
                   /\ IF p.ok THEN p.conn.tx = "open" ELSE p.conn = session.conn
                   /\ session.conn.view = session.conn.db => p.conn.view = session.conn.db /\ p.conn.db = session.conn.db
  BY <1>2, BeforeCall, BeginCall
<1>. HIDE DEF P
<1>4. \A p \in P : p.conn \in Connections(Marks) /\ p.conn.backend = Backend
  BY <1>3 DEF Orderly, Backend
<1>5. /\ ServerCalled
      /\ \/ \E p \in P : session'.conn = p.conn /\ o.ok = p.ok
         \/ Backend = "mysql" /\ session.unread # None /\ session'.conn = session.conn /\ o.ok = FALSE
  BY <1>1, <1>4, BeforeCall, CallMade
<1>6. Types'
  BY <1>1, <1>2, <1>5, BeforeCall, TypesCalled DEF Types
<1>7. CASE Backend = "mysql" /\ session.unread # None /\ session'.conn = session.conn
  BY <1>5, <1>6, <1>7, RefusedKeeps DEF ConnectionInv
<1>8. CASE \E p \in P : session'.conn = p.conn /\ o.ok = p.ok
  <2>1. PICK p \in P : session'.conn = p.conn /\ o.ok = p.ok
    BY <1>8
  <2>2. Backend \in {"sqlite", "duckdb"} \/ (~mixed /\ Live = {}) =>
          session.conn.db \subseteq kept /\ session.conn.view = session.conn.db
    BY <1>2 DEF ConnectionInv, KeptInv
  <2>3. TxInv' /\ KeptInv'
    BY <1>1, <1>2, <1>3, <1>5, <2>1, <2>2, CalledKeeps
  <2>. QED BY <1>6, <2>3 DEF ConnectionInv
<1>. QED BY <1>5, <1>7, <1>8

LEMMA ConnectionInserts ==
  ASSUME ConnectionInv, NEW m \in Marks, Insert(m) PROVE ConnectionInv'
<1> DEFINE P == insert_impl(session.conn, {m})
<1>1. PICK o \in Called(P) : /\ Calls(o)
                             /\ stored' = IF o.ok THEN stored \cup {m} ELSE stored
                             /\ trans' = IF o.ok THEN trans ELSE Spoilt
  BY DEF Insert
<1>2. trans = "open" /\ kept' = kept
  BY DEF Insert
<1>3. \A p \in P : /\ Orderly(Marks, session.conn, p)
                   /\ session.conn.tx = "open" =>
                        /\ p.conn.db = session.conn.db
                        /\ p.ok => p.conn.tx = "open" /\ p.conn.view = session.conn.view \cup {m}
                   /\ session.conn.tx = "aborted" => ~p.ok /\ p.conn = session.conn
  <2>1. {m} \in SUBSET Marks
    OBVIOUS
  <2>. QED BY <2>1, BeforeCall, InsertCall
<1>. HIDE DEF P
<1>4. \A p \in P : p.conn \in Connections(Marks) /\ p.conn.backend = Backend
  BY <1>3 DEF Orderly, Backend
<1>5. /\ ServerCalled
      /\ \/ \E p \in P : session'.conn = p.conn /\ o.ok = p.ok
         \/ Backend = "mysql" /\ session.unread # None /\ session'.conn = session.conn /\ o.ok = FALSE
  BY <1>1, <1>4, BeforeCall, CallMade
<1>6. Types'
  BY <1>1, <1>2, <1>5, BeforeCall, TypesCalled DEF Types, Spoilt
<1>7. CASE Backend = "mysql" /\ session.unread # None /\ session'.conn = session.conn
  BY <1>5, <1>6, <1>7, RefusedKeeps DEF ConnectionInv
<1>8. CASE \E p \in P : session'.conn = p.conn /\ o.ok = p.ok
  <2>1. PICK p \in P : session'.conn = p.conn /\ o.ok = p.ok
    BY <1>8
  <2>2. Backend \in {"sqlite", "duckdb"} \/ (~mixed /\ Live = {}) =>
          /\ session.conn.db \subseteq kept
          /\ session.conn.tx = "open" \/ session.conn.tx = "aborted"
          /\ session.conn.view \subseteq session.conn.db \cup stored
    BY <1>2 DEF ConnectionInv, KeptInv
  <2>3. trans' = IF p.ok THEN "open" ELSE "spoilt"
    BY <1>1, <1>2, <2>1 DEF Spoilt
  <2>4. Orderly(Marks, session.conn, p)
    BY <1>3
  <2>5. Backend \in {"sqlite", "duckdb"} \/ (~mixed /\ Live = {}) =>
          /\ p.conn.db \subseteq kept'
          /\ p.ok => p.conn.tx = "open" /\ p.conn.view \subseteq p.conn.db \cup stored'
    BY <1>1, <1>2, <1>3, <2>1, <2>2
  <2>6. TxInv' /\ KeptInv'
    BY <1>5, <2>1, <2>3, <2>4, <2>5, CalledKeeps
  <2>. QED BY <1>6, <2>6 DEF ConnectionInv
<1>. QED BY <1>5, <1>7, <1>8

LEMMA ConnectionCommits ==
  ASSUME ConnectionInv, Commit PROVE ConnectionInv'
<1> DEFINE P == commit(session.conn)
<1>1. PICK o \in Called(P) : /\ Calls(o)
                             /\ trans' = IF o.ok THEN "none" ELSE Spoilt
                             /\ kept' = IF o.ok THEN kept \cup stored ELSE kept
                             /\ stored' = IF o.ok THEN {} ELSE stored
  BY DEF Commit
<1>2. trans = "open"
  BY DEF Commit
<1>3. \A p \in P : /\ Orderly(Marks, session.conn, p)
                   /\ p.ok => p.conn.tx = "none" /\ p.conn.view = p.conn.db
                   /\ p.ok /\ session.conn.tx = "open" => p.conn.db = session.conn.view
                   /\ p.ok /\ session.conn.tx = "aborted" => session.conn.backend # "duckdb"
                   /\ ~p.ok => p.conn.db = session.conn.db
  BY BeforeCall, CommitCall
<1>. HIDE DEF P
<1>4. \A p \in P : p.conn \in Connections(Marks) /\ p.conn.backend = Backend
  BY <1>3 DEF Orderly, Backend
<1>5. /\ ServerCalled
      /\ \/ \E p \in P : session'.conn = p.conn /\ o.ok = p.ok
         \/ Backend = "mysql" /\ session.unread # None /\ session'.conn = session.conn /\ o.ok = FALSE
  BY <1>1, <1>4, BeforeCall, CallMade
<1>6. Types'
  BY <1>1, <1>2, <1>5, BeforeCall, TypesCalled DEF Types, Spoilt
<1>7. CASE Backend = "mysql" /\ session.unread # None /\ session'.conn = session.conn
  BY <1>5, <1>6, <1>7, RefusedKeeps DEF ConnectionInv
<1>8. CASE \E p \in P : session'.conn = p.conn /\ o.ok = p.ok
  <2>1. PICK p \in P : session'.conn = p.conn /\ o.ok = p.ok
    BY <1>8
  <2>2. Backend \in {"sqlite", "duckdb"} \/ (~mixed /\ Live = {}) =>
          /\ session.conn.db \subseteq kept
          /\ session.conn.tx = "open" \/ (session.conn.tx = "aborted" /\ session.conn.backend = "duckdb")
          /\ session.conn.view \subseteq session.conn.db \cup stored
    BY <1>2 DEF ConnectionInv, KeptInv, Backend
  <2>3. trans' = IF p.ok THEN "none" ELSE "spoilt"
    BY <1>1, <1>2, <2>1 DEF Spoilt
  <2>4. Orderly(Marks, session.conn, p)
    BY <1>3
  <2>5. Backend \in {"sqlite", "duckdb"} \/ (~mixed /\ Live = {}) => p.conn.db \subseteq kept'
    BY <1>1, <1>3, <2>1, <2>2
  <2>6. p.ok => p.conn.tx = "none" /\ p.conn.view = p.conn.db
    BY <1>3
  <2>7. TxInv' /\ KeptInv'
    <3>1. trans' \in {"none", "spoilt"} /\ (trans' = "none" => p.conn.tx = "none" /\ p.conn.view = p.conn.db)
      BY <2>3, <2>6
    <3>. QED BY <1>5, <2>1, <2>4, <2>5, <3>1, CalledKeeps
  <2>. QED BY <1>6, <2>7 DEF ConnectionInv
<1>. QED BY <1>5, <1>7, <1>8

LEMMA ConnectionRollsBack ==
  ASSUME ConnectionInv, Rollback PROVE ConnectionInv'
<1> DEFINE P == rollback(session.conn)
<1>1. PICK o \in Called(P) : Calls(o)
  BY DEF Rollback
<1>2. trans # "none" /\ trans' = "none" /\ stored' = {} /\ kept' = kept
  BY DEF Rollback
<1>3. \A p \in P : /\ Orderly(Marks, session.conn, p)
                   /\ p.conn.tx = "none" /\ p.conn.db = session.conn.db /\ p.conn.view = session.conn.db
  BY BeforeCall, RollbackCall
<1>. HIDE DEF P
<1>4. \A p \in P : p.conn \in Connections(Marks) /\ p.conn.backend = Backend
  BY <1>3 DEF Orderly, Backend
<1>5. /\ ServerCalled
      /\ \/ \E p \in P : session'.conn = p.conn /\ o.ok = p.ok
         \/ Backend = "mysql" /\ session.unread # None /\ session'.conn = session.conn /\ o.ok = FALSE
  BY <1>1, <1>4, BeforeCall, CallMade
<1>6. Types'
  BY <1>2, <1>5, BeforeCall, TypesCalled DEF Types
<1>7. CASE Backend = "mysql" /\ session.unread # None /\ session'.conn = session.conn
  BY <1>5, <1>6, <1>7, RefusedKeeps DEF ConnectionInv
<1>8. CASE \E p \in P : session'.conn = p.conn /\ o.ok = p.ok
  <2>1. PICK p \in P : session'.conn = p.conn
    BY <1>8
  <2>2. Backend \in {"sqlite", "duckdb"} \/ (~mixed /\ Live = {}) => session.conn.db \subseteq kept
    BY <1>2 DEF ConnectionInv, KeptInv
  <2>3. TxInv' /\ KeptInv'
    <3>1. /\ Orderly(Marks, session.conn, p)
          /\ p.conn.tx = "none" /\ p.conn.db = session.conn.db /\ p.conn.view = session.conn.db
      BY <1>3
    <3>. QED BY <1>2, <1>5, <2>1, <2>2, <3>1, CalledKeeps
  <2>. QED BY <1>6, <2>3 DEF ConnectionInv
<1>. QED BY <1>5, <1>7, <1>8

LEMMA ConnectionSteps == ConnectionInv /\ [Next]_vars => ConnectionInv'
<1> SUFFICES ASSUME ConnectionInv, [Next]_vars PROVE ConnectionInv'
  OBVIOUS
<1>1. ASSUME NEW r \in Ranges, Read(r) \/ DropRange(r) PROVE ConnectionInv'
  BY <1>1, ConnectionReads, ConnectionDropsRange
<1>2. ASSUME NEW l \in Loops, (\E r \in Ranges : BeginLoop(l, r)) \/ Advance(l) \/ LeaveLoop(l) PROVE ConnectionInv'
  BY <1>2, ConnectionBeginsLoop, ConnectionAdvances, ConnectionLeavesLoop
<1>3. CASE BeginTransaction \/ (\E m \in Marks : Insert(m)) \/ Commit \/ Rollback
  BY <1>3, ConnectionBeginsTransaction, ConnectionInserts, ConnectionCommits, ConnectionRollsBack
<1>4. CASE UNCHANGED vars
  <2>1. Types'
    BY <1>4 DEF ConnectionInv, Types, vars
  <2>2. Live' = Live
    BY <1>4 DEF Live, Holders, vars
  <2>. QED BY <1>4, <2>1, <2>2, ConnectionIdle DEF vars
<1>. QED BY <1>1, <1>2, <1>3, <1>4 DEF Next

LEMMA ConnectionAlways == Spec => []ConnectionInv
BY ConnectionInit, ConnectionSteps, PTL DEF Spec

\* Type correctness of Readers.tla: the cursors of all ranges stay within the
\* answer, and the result nobody has read is that of a range.
THEOREM ReadersTypes == Spec => []TypeOK
<1>1. ConnectionInv => TypeOK
  <2> SUFFICES ASSUME ConnectionInv PROVE TypeOK
    OBVIOUS
  <2>1. Types
    BY DEF ConnectionInv
  <2>2. \A r \in Ranges : session.cur[r].at \in 0 .. count
    BY <2>1, SessionTyped, CursorFields, CountIsNat
  <2>. QED BY <2>1, <2>2, SessionTyped DEF TypeOK, Types
<1>. QED BY <1>1, ConnectionAlways, PTL

\* Whatever the ranges, loops and failures: on SQLite and DuckDB, and on the
\* others while no range lives together with a transaction, only what commit()
\* has ended is ever committed (Transaction.hpp).
THEOREM OnlyKeptIsCommitted == Spec => []OnlyCommitted
<1>1. ConnectionInv => OnlyCommitted
  BY DEF ConnectionInv, KeptInv, OnlyCommitted
<1>. QED BY <1>1, ConnectionAlways, PTL

\* When the last range, loop and Transaction are gone the connection holds no
\* unread result and no open transaction for the next session to inherit, but
\* for the two cases the property names (the destructors of the iterators and
\* of Transaction).
THEOREM ReleasedIsClean == Spec => []CleanWhenReleased
<1>1. ConnectionInv => CleanWhenReleased
  <2> SUFFICES ASSUME ConnectionInv, Live = {}, trans = "none"
               PROVE  /\ session.unread = None
                      /\ \/ session.conn.tx = "none"
                         \/ Backend = "postgres" /\ session.conn.tx = "aborted"
                         \/ Backend = "mysql" /\ mixed
    BY DEF CleanWhenReleased
  <2>1. session.conn.tx \in {"none", "open", "aborted"}
    BY SessionTyped DEF ConnectionInv, Connections
  <2>. QED BY <2>1, BackendIsOneOf DEF ConnectionInv, TxInv
<1>. QED BY <1>1, ConnectionAlways, PTL

-----------------------------------------------------------------------------
(* The rows the loops are given.                                           *)

\* A batch taken from a cursor that has come to the row `at`.
Within(b, at) == b = OneError \/ (~b.bad /\ b.from + b.size <= at)

\* The rows of a batch, and those a loop was given that were no errors.
InBatch(b) == IF b.bad THEN {} ELSE b.from + 1 .. b.from + b.size
Given0(q) == {q[i] : i \in DOMAIN q} \ {0}

\* How far the loop p has come in the answer of a cursor that is at the row `at`.
Place(p, at) == IF p.state = "running" /\ ~p.batch.bad THEN p.batch.from + p.ix + 1 ELSE at

Ascending(q) == \A i, j \in DOMAIN q : i < j /\ q[i] # 0 /\ q[j] # 0 => q[i] < q[j]
UpTo(q, m) == \A i \in DOMAIN q : q[i] <= m

\* The first batch of a range with the cursor d.
Starting(b, d) == Within(b, d.at) /\ b.from = 0 /\ (b.bad /\ d.server => d.at >= 1)

\* A loop p over a range with the cursor d that was given the rows q: they are
\* in order and not behind its place, and their number is not beyond it either
\* as long as every error has cost DuckDB a chunk.
Follows(p, q, d) ==
  /\ Within(p.batch, d.at)
  /\ p.state = "running" => p.ix < p.batch.size
  /\ Ascending(q) /\ UpTo(q, Place(p, d.at))
  /\ p.state = "running" /\ d.server => Len(q) <= Place(p, d.at)

\* What a loop has or will have without asking the cursor again.
Owned(p, q) == Given0(q) \cup InBatch(p.batch)

RowsInv ==
  /\ \A r \in Ranges : range[r].state = "alive" => Starting(range[r].first, session.cur[r])
  /\ \A l \in Loops : IF loop[l].over = None THEN seen[l] = <<>>
                      ELSE Follows(loop[l], seen[l], session.cur[loop[l].over])
  /\ \A k, l \in Loops : k # l /\ loop[k].over = loop[l].over /\ loop[k].over # None =>
       Owned(loop[k], seen[k]) \cap Owned(loop[l], seen[l]) \subseteq 1 .. BatchSize

\* A loop as the type has it.
LoopsOf(n) == [state : {"none", "running", "over"}, over : Ranges \cup {None}, batch : Batches(n), ix : Nat]

LEMMA BatchesTyped ==
  ASSUME NEW n \in Nat, NEW b \in Batches(n)
  PROVE  b.from \in 0 .. n /\ b.size \in 0 .. BatchSize /\ b.size \in Nat /\ b.from \in Nat /\ b.bad \in BOOLEAN
BY IteratorsAssumption DEF Batches

LEMMA LoopTyped ==
  ASSUME Types, NEW l \in Loops
  PROVE  /\ loop[l] \in LoopsOf(count) /\ seen[l] \in Seq(Nat)
         /\ loop[l].over # None => loop[l].over \in Ranges
BY DEF Types, LoopsOf

\* One more row, or one more error, at the end.
LEMMA OneMore ==
  ASSUME NEW q \in Seq(Nat), NEW m \in Nat, NEW x \in Nat, Ascending(q), UpTo(q, m), x = 0 \/ m < x
  PROVE  /\ Append(q, x) \in Seq(Nat) /\ Len(Append(q, x)) = Len(q) + 1 /\ Len(q) \in Nat
         /\ Ascending(Append(q, x))
         /\ \A h \in Nat : m <= h /\ x <= h => UpTo(Append(q, x), h)
         /\ Given0(Append(q, x)) = Given0(q) \cup ({x} \ {0})
<1> DEFINE a == Append(q, x)
<1>1. /\ a \in Seq(Nat) /\ Len(a) = Len(q) + 1 /\ Len(q) \in Nat
      /\ DOMAIN q = 1 .. Len(q) /\ DOMAIN a = 1 .. Len(q) + 1
      /\ a[Len(q) + 1] = x /\ \A i \in 1 .. Len(q) : a[i] = q[i]
  OBVIOUS
<1>2. \A i \in 1 .. Len(q) : q[i] \in Nat /\ q[i] <= m
  BY <1>1 DEF UpTo
<1>. HIDE DEF a
<1>3. Ascending(a)
  <2> SUFFICES ASSUME NEW i \in 1 .. Len(q) + 1, NEW j \in 1 .. Len(q) + 1, i < j, a[i] # 0, a[j] # 0
               PROVE  a[i] < a[j]
    BY <1>1 DEF Ascending
  <2>1. i \in 1 .. Len(q) /\ a[i] = q[i]
    BY <1>1
  <2>2. CASE j = Len(q) + 1
    BY <1>1, <1>2, <2>1, <2>2
  <2>3. CASE j \in 1 .. Len(q)
    BY <1>1, <2>1, <2>3 DEF Ascending
  <2>4. j \in 1 .. Len(q) \/ j = Len(q) + 1
    BY Len(q) \in Nat
  <2>. QED BY <2>2, <2>3, <2>4
<1>4. \A h \in Nat : m <= h /\ x <= h => UpTo(a, h)
  <2> SUFFICES ASSUME NEW h \in Nat, m <= h, x <= h, NEW i \in 1 .. Len(q) + 1 PROVE a[i] <= h
    BY <1>1 DEF UpTo
  <2>. QED BY <1>1, <1>2
<1>5. {a[i] : i \in DOMAIN a} = {q[i] : i \in DOMAIN q} \cup {x}
  <2>1. \A i \in DOMAIN a : (i \in DOMAIN q /\ a[i] = q[i]) \/ a[i] = x
    BY <1>1
  <2>2. \A i \in DOMAIN q : i \in DOMAIN a /\ a[i] = q[i]
    BY <1>1
  <2>3. Len(q) + 1 \in DOMAIN a /\ a[Len(q) + 1] = x
    BY <1>1
  <2>. QED BY <2>1, <2>2, <2>3
<1>. QED BY <1>1, <1>3, <1>4, <1>5 DEF Given0, a

\* A loop is never beyond the cursor, nor is what it owns.
LEMMA BehindCursor ==
  ASSUME NEW n \in Nat, NEW p \in LoopsOf(n), NEW q \in Seq(Nat), NEW d \in CursorsOf(n), Follows(p, q, d)
  PROVE  /\ Place(p, d.at) \in Nat /\ Place(p, d.at) <= d.at /\ d.at \in 0 .. n /\ UpTo(q, d.at)
         /\ \A x \in Owned(p, q) : x \in Nat /\ x <= d.at
<1>1. /\ p.batch \in Batches(n) /\ p.ix \in Nat /\ d.at \in 0 .. n
      /\ p.batch.from \in Nat /\ p.batch.size \in Nat
  BY CursorFields, BatchesTyped DEF LoopsOf
<1>2. Place(p, d.at) \in Nat /\ Place(p, d.at) <= d.at
  <2>1. p.state = "running" /\ ~p.batch.bad => p.ix < p.batch.size /\ p.batch.from + p.batch.size <= d.at
    BY SpecialBatches DEF Follows, Within
  <2>. QED BY <1>1, <2>1 DEF Place
<1>3. \A i \in DOMAIN q : q[i] \in Nat /\ q[i] <= Place(p, d.at)
  BY DEF Follows, UpTo
<1>4. UpTo(q, d.at) /\ \A x \in Given0(q) : x \in Nat /\ x <= d.at
  BY <1>1, <1>2, <1>3 DEF UpTo, Given0
<1>5. \A x \in InBatch(p.batch) : x \in Nat /\ x <= d.at
  BY <1>1, SpecialBatches DEF InBatch, Follows, Within
<1>. QED BY <1>1, <1>2, <1>4, <1>5 DEF Owned

\* A cursor that goes on, with a query that stays as it is or fails.
Later(d, e) == d.at <= e.at /\ (e.server => d.server)

LEMMA LaterStarting ==
  ASSUME NEW n \in Nat, NEW b \in Batches(n), NEW d \in CursorsOf(n), NEW e \in CursorsOf(n),
         Starting(b, d), Later(d, e)
  PROVE  Starting(b, e)
BY BatchesTyped, CursorFields DEF Starting, Within, Later

LEMMA LaterFollows ==
  ASSUME NEW n \in Nat, NEW p \in LoopsOf(n), NEW q \in Seq(Nat), NEW d \in CursorsOf(n), NEW e \in CursorsOf(n),
         Follows(p, q, d), Later(d, e)
  PROVE  Follows(p, q, e)
<1>1. /\ p.batch \in Batches(n) /\ p.ix \in Nat /\ d.at \in Nat /\ e.at \in Nat
      /\ p.batch.from \in Nat /\ p.batch.size \in Nat /\ d.at <= e.at
  BY CursorFields, BatchesTyped DEF LoopsOf, Later
<1>2. Within(p.batch, e.at) /\ Place(p, d.at) \in Nat /\ Place(p, e.at) \in Nat /\ Place(p, d.at) <= Place(p, e.at)
  BY <1>1 DEF Follows, Within, Place
<1>3. UpTo(q, Place(p, e.at))
  <2>1. \A i \in DOMAIN q : q[i] \in Nat /\ q[i] <= Place(p, d.at)
    BY DEF Follows, UpTo
  <2>. QED BY <1>2, <2>1 DEF UpTo
<1>4. p.state = "running" => Place(p, e.at) = Place(p, d.at) \/ Len(q) <= Place(p, d.at) \/ ~e.server
  BY DEF Follows, Later
<1>5. p.state = "running" /\ e.server => Len(q) <= Place(p, e.at)
  BY <1>1, <1>2 DEF Follows, Later
<1>. QED BY <1>2, <1>3, <1>5 DEF Follows

\* The loop p shows what is at ix of the batch b, if there is more, to one that
\* was given the rows q; from then on it was given the rows v.
Displays(p, v, q, b, ix, more) ==
  /\ p.batch = b /\ p.ix = ix /\ p.state = (IF more THEN "running" ELSE "over")
  /\ v = (IF more THEN Append(q, Given(b, ix)) ELSE q)

\* A loop that has nothing more to show.
LEMMA NothingShown ==
  ASSUME NEW p, NEW q, NEW d, p.state = "over", Ascending(q), UpTo(q, d.at), Within(p.batch, d.at)
  PROVE  Follows(p, q, d)
BY DEF Follows, Place

\* A loop that shows an error.
LEMMA ErrorShown ==
  ASSUME NEW p, NEW q \in Seq(Nat), NEW d, d.at \in Nat, p.state = "running", p.batch = OneError, p.ix = 0,
         Ascending(q), UpTo(q, d.at), d.server => Len(q) + 1 <= d.at
  PROVE  Follows(p, Append(q, 0), d) /\ Owned(p, Append(q, 0)) = Given0(q)
<1> DEFINE v == Append(q, 0)
<1>1. /\ Len(v) = Len(q) + 1 /\ Ascending(v) /\ Given0(v) = Given0(q) \cup ({0} \ {0})
      /\ \A h \in Nat : d.at <= h /\ 0 <= h => UpTo(v, h)
  BY OneMore
<1>. HIDE DEF v
<1>2. 0 <= d.at /\ d.at <= d.at
  OBVIOUS
<1>3. Within(OneError, d.at) /\ InBatch(OneError) = {} /\ Place(p, d.at) = d.at /\ p.ix < p.batch.size
  BY SpecialBatches DEF Within, InBatch, Place
<1>4. Follows(p, v, d)
  BY <1>1, <1>2, <1>3 DEF Follows
<1>. QED BY <1>1, <1>3, <1>4 DEF Owned, v

\* A loop that shows a row, behind all it was given.
LEMMA RowShown ==
  ASSUME NEW p, NEW q \in Seq(Nat), NEW d, p.state = "running", p.batch.from \in Nat, p.batch.size \in Nat,
         p.ix \in Nat, ~p.batch.bad, p.ix < p.batch.size, Within(p.batch, d.at),
         Ascending(q), UpTo(q, p.batch.from + p.ix), d.server => Len(q) <= p.batch.from + p.ix
  PROVE  LET x == Given(p.batch, p.ix) IN
         /\ Follows(p, Append(q, x), d) /\ Given0(Append(q, x)) = Given0(q) \cup {x}
         /\ Owned(p, Append(q, x)) = Given0(q) \cup InBatch(p.batch)
<1> DEFINE x == Given(p.batch, p.ix)
           v == Append(q, x)
           m == p.batch.from + p.ix
<1>1. /\ x \in Nat /\ x # 0 /\ m < x /\ m <= x /\ x <= x /\ m \in Nat /\ x \in InBatch(p.batch)
      /\ Place(p, d.at) = x /\ x = m + 1
  BY DEF InBatch, Place, Given
<1>. HIDE DEF x
<1>2. d.server => Len(q) + 1 <= x
  BY <1>1
<1>. HIDE DEF m
<1>3. /\ Len(v) = Len(q) + 1 /\ Ascending(v) /\ Given0(v) = Given0(q) \cup ({x} \ {0})
      /\ \A h \in Nat : m <= h /\ x <= h => UpTo(v, h)
  <2>1. UpTo(q, m)
    BY DEF m
  <2>. QED BY <1>1, <2>1, OneMore
<1>. HIDE DEF v
<1>4. Follows(p, v, d)
  BY <1>1, <1>2, <1>3 DEF Follows
<1>5. Given0(v) = Given0(q) \cup {x} /\ Owned(p, v) = Given0(q) \cup InBatch(p.batch)
  BY <1>1, <1>3 DEF Owned
<1>. QED BY <1>4, <1>5 DEF x, v

\* begin(): the first batch, which ends within the first BatchSize rows.
LEMMA FirstShown ==
  ASSUME NEW n \in Nat, NEW d \in CursorsOf(n), NEW p, NEW v, NEW b \in Batches(n),
         Starting(b, d), Displays(p, v, <<>>, b, 0, b.size > 0)
  PROVE  Follows(p, v, d) /\ Owned(p, v) \subseteq 1 .. BatchSize
<1>1. /\ b.from = 0 /\ b.size \in 0 .. BatchSize /\ Within(b, d.at) /\ d.at \in Nat
      /\ b.bad /\ d.server => d.at >= 1
      /\ BatchSize \in Nat
  BY BatchesTyped, CursorFields, IteratorsAssumption DEF Starting
<1>2. /\ <<>> \in Seq(Nat) /\ Ascending(<<>>) /\ (\A m : UpTo(<<>>, m)) /\ Len(<<>>) = 0 /\ Given0(<<>>) = {}
  BY DEF Ascending, UpTo, Given0
<1>3. InBatch(b) \subseteq 1 .. BatchSize
  BY <1>1 DEF InBatch
<1>4. p.batch = b /\ p.ix = 0
  BY DEF Displays
<1>5. CASE ~(b.size > 0)
  <2>1. p.state = "over" /\ v = <<>>
    BY <1>5 DEF Displays
  <2>2. Follows(p, v, d)
    BY <1>1, <1>2, <1>4, <2>1, NothingShown
  <2>. QED BY <1>2, <1>3, <1>4, <2>1, <2>2 DEF Owned
<1>6. CASE b.size > 0 /\ b.bad
  <2>1. b = OneError /\ p.state = "running" /\ v = Append(<<>>, 0)
    BY <1>1, <1>6 DEF Within, Displays, Given
  <2>2. d.server => 0 + 1 <= d.at
    BY <1>1, <1>6
  <2>3. Follows(p, v, d) /\ Owned(p, v) = Given0(<<>>)
    BY <1>1, <1>2, <1>4, <2>1, <2>2, ErrorShown
  <2>. QED BY <1>2, <2>3
<1>7. CASE b.size > 0 /\ ~b.bad
  <2>1. p.state = "running" /\ v = Append(<<>>, Given(p.batch, p.ix))
    BY <1>7 DEF Displays
  <2>2. 0 < b.size /\ Len(<<>>) <= b.from + 0 /\ 0 \in Nat /\ b.from \in Nat /\ b.size \in Nat
    BY <1>1, <1>2, <1>7
  <2>3. Follows(p, v, d) /\ Owned(p, v) = Given0(<<>>) \cup InBatch(b)
    BY <1>1, <1>2, <1>4, <1>7, <2>1, <2>2, RowShown
  <2>. QED BY <1>2, <1>3, <2>3
<1>. QED BY <1>5, <1>6, <1>7

\* The loop o goes on in its batch and is then p, or is over at the end of it.
StaysIn(o, q, p, v) ==
  IF o.ix + 1 < o.batch.size
  THEN /\ p.state = "running" /\ p.batch = o.batch /\ p.ix = o.ix + 1 /\ ~o.batch.bad
       /\ Given0(v) = Given0(q) \cup {o.batch.from + o.ix + 2}
  ELSE p.state = "over" /\ v = q

\* A loop turns to the batch b behind the row at, or is over if it is empty.
TurnsTo(b, at, q, p, v) ==
  /\ b.size = 0 => p.state = "over" /\ v = q
  /\ b.size > 0 /\ ~b.bad => /\ p.state = "running" /\ p.batch = b /\ p.ix = 0 /\ b.from = at
                             /\ Given0(v) = Given0(q) \cup {at + 1}

\* ++ within the batch, or at the end of the last one.
LEMMA SameShown ==
  ASSUME NEW n \in Nat, NEW d \in CursorsOf(n), NEW q \in Seq(Nat), NEW o \in LoopsOf(n),
         o.state = "running", Follows(o, q, d), NEW p, NEW v,
         Displays(p, v, q, o.batch, o.ix + 1, o.ix + 1 < o.batch.size)
  PROVE  Follows(p, v, d) /\ Owned(p, v) = Owned(o, q) /\ StaysIn(o, q, p, v)
<1> DEFINE b == o.batch
           m == Place(o, d.at)
<1>1. /\ o.ix \in Nat /\ b.from \in Nat /\ b.size \in Nat /\ b.bad \in BOOLEAN /\ o.ix < b.size
      /\ Within(b, d.at) /\ Ascending(q) /\ UpTo(q, d.at) /\ UpTo(q, m) /\ m \in Nat
      /\ d.server => Len(q) <= m
      /\ ~b.bad => m = b.from + o.ix + 1
  <2>1. b \in Batches(n) /\ o.ix \in Nat
    BY DEF LoopsOf
  <2>2. UpTo(q, d.at) /\ m \in Nat
    BY BehindCursor
  <2>. QED BY <2>1, <2>2, BatchesTyped DEF Follows, Place
<1>2. p.batch = b /\ p.ix = o.ix + 1
  BY DEF Displays
<1>3. CASE ~(o.ix + 1 < b.size)
  <2>1. p.state = "over" /\ v = q
    BY <1>3 DEF Displays
  <2>2. Follows(p, v, d)
    BY <1>1, <1>2, <2>1, NothingShown
  <2>. QED BY <1>2, <1>3, <2>1, <2>2 DEF Owned, StaysIn
<1>4. CASE o.ix + 1 < b.size
  <2>1. ~b.bad
    BY <1>1, <1>4, SpecialBatches DEF Within
  <2>2. p.state = "running" /\ v = Append(q, Given(p.batch, p.ix))
    BY <1>4 DEF Displays
  <2>. HIDE DEF b, m
  <2>3. /\ p.ix \in Nat /\ m = p.batch.from + p.ix /\ Given(p.batch, p.ix) = b.from + o.ix + 2
    BY <1>1, <1>2, <2>1 DEF Given
  <2>4. /\ UpTo(q, p.batch.from + p.ix) /\ (d.server => Len(q) <= p.batch.from + p.ix)
        /\ ~p.batch.bad /\ p.ix < p.batch.size /\ Within(p.batch, d.at)
        /\ p.batch.from \in Nat /\ p.batch.size \in Nat /\ Ascending(q)
    BY <1>1, <1>2, <1>4, <2>1, <2>3
  <2>5. /\ Follows(p, v, d) /\ Owned(p, v) = Given0(q) \cup InBatch(b)
        /\ Given0(v) = Given0(q) \cup {b.from + o.ix + 2}
    BY <1>2, <2>2, <2>3, <2>4, RowShown
  <2>. QED BY <1>2, <1>4, <2>1, <2>2, <2>3, <2>5 DEF b, Owned, StaysIn
<1>. QED BY <1>3, <1>4

\* What fetching a batch b does to the cursor c, which is then d.
Handed(c, d, b) ==
  /\ c.at <= d.at /\ (d.server => c.server)
  /\ \/ b = NoRows
     \/ b = OneError /\ (d.server => d.at >= c.at + 1)
     \/ \E k \in 0 .. BatchSize : b = Batch(c.at, k) /\ c.at + k <= d.at

LEMMA HandedBatch ==
  ASSUME NEW c, NEW d, c.at \in Nat, d.at \in Nat, NEW b, Handed(c, d, b)
  PROVE  /\ IF b.bad THEN b = OneError /\ b.size = 1 /\ (d.server => d.at >= c.at + 1)
                      ELSE b.from + b.size <= d.at /\ (b.size # 0 => b.from = c.at)
         /\ Within(b, d.at)
<1>1. CASE b = NoRows
  BY <1>1, SpecialBatches DEF Within
<1>2. CASE b = OneError /\ (d.server => d.at >= c.at + 1)
  BY <1>2, SpecialBatches DEF Within
<1>3. ASSUME NEW k \in 0 .. BatchSize, b = Batch(c.at, k), c.at + k <= d.at
      PROVE  ~b.bad /\ b.from = c.at /\ b.from + b.size <= d.at
  <2>1. Batch(c.at, k).from = c.at /\ Batch(c.at, k).size = k /\ Batch(c.at, k).bad = FALSE
    BY BatchFields
  <2>. QED BY <1>3, <2>1
<1>. QED BY <1>1, <1>2, <1>3 DEF Handed, Within

\* ++ into the next batch, of rows nobody was given before.
LEMMA NextShown ==
  ASSUME NEW n \in Nat, NEW c \in CursorsOf(n), NEW d \in CursorsOf(n), NEW q \in Seq(Nat), NEW o \in LoopsOf(n),
         Follows(o, q, c), NEW b \in Batches(n), Handed(c, d, b), NEW p, NEW v,
         o.state = "running", Displays(p, v, q, b, 0, b.size > 0)
  PROVE  /\ Follows(p, v, d)
         /\ \A x \in Owned(p, v) : x \in Owned(o, q) \/ c.at < x
         /\ TurnsTo(b, c.at, q, p, v)
<1>1. /\ c.at \in Nat /\ d.at \in Nat /\ UpTo(q, c.at) /\ Ascending(q) /\ c.at <= d.at
      /\ Len(q) \in Nat /\ (c.server => Len(q) <= c.at) /\ (d.server => c.server)
      /\ b.from \in Nat /\ b.size \in Nat /\ BatchSize \in Nat
  <2>1. c.server => Len(q) <= Place(o, c.at)
    BY DEF Follows
  <2>2. /\ Place(o, c.at) \in Nat /\ Place(o, c.at) <= c.at /\ c.at \in Nat /\ d.at \in Nat /\ UpTo(q, c.at)
        /\ Len(q) \in Nat /\ b.from \in Nat /\ b.size \in Nat /\ BatchSize \in Nat
    BY BehindCursor, CursorFields, BatchesTyped, IteratorsAssumption
  <2>3. Ascending(q) /\ c.at <= d.at /\ (d.server => c.server)
    BY DEF Follows, Handed
  <2>. QED BY <2>1, <2>2, <2>3
<1>2. UpTo(q, d.at)
  <2>1. \A i \in DOMAIN q : q[i] \in Nat /\ q[i] <= c.at
    BY <1>1 DEF UpTo
  <2>. QED BY <1>1, <2>1 DEF UpTo
<1>3. Given0(q) \subseteq Owned(o, q)
  BY DEF Owned
<1>4. /\ IF b.bad THEN b = OneError /\ b.size = 1 /\ (d.server => d.at >= c.at + 1)
                   ELSE b.from + b.size <= d.at /\ (b.size # 0 => b.from = c.at)
      /\ Within(b, d.at)
  BY <1>1, HandedBatch
<1>5. p.batch = b /\ p.ix = 0
  BY DEF Displays
<1>6. CASE b.size = 0
  <2>1. p.state = "over" /\ v = q /\ InBatch(b) = {}
    BY <1>1, <1>6 DEF Displays, InBatch
  <2>2. Follows(p, v, d)
    BY <1>1, <1>2, <1>4, <1>5, <2>1, NothingShown
  <2>. QED BY <1>3, <1>5, <1>6, <2>1, <2>2 DEF Owned, TurnsTo
<1>7. CASE b.size > 0 /\ b.bad
  <2>1. b = OneError /\ p.state = "running" /\ v = Append(q, 0) /\ (d.server => Len(q) + 1 <= d.at)
    BY <1>1, <1>4, <1>7 DEF Displays, Given
  <2>2. Follows(p, v, d) /\ Owned(p, v) = Given0(q)
    BY <1>1, <1>2, <1>5, <2>1, ErrorShown
  <2>. QED BY <1>1, <1>3, <1>7, <2>2 DEF TurnsTo
<1>8. CASE b.size > 0 /\ ~b.bad
  <2>1. b.from = c.at /\ p.state = "running" /\ v = Append(q, Given(p.batch, p.ix))
    BY <1>1, <1>4, <1>5, <1>8 DEF Displays
  <2>2. /\ c.at + 1 = Given(p.batch, p.ix) /\ p.batch.from + p.ix = c.at
        /\ p.ix < p.batch.size /\ p.ix \in Nat /\ (d.server => Len(q) <= c.at)
        /\ p.batch.from \in Nat /\ p.batch.size \in Nat
    BY <1>1, <1>5, <1>8, <2>1 DEF Given
  <2>3. /\ Follows(p, v, d) /\ Owned(p, v) = Given0(q) \cup InBatch(b)
        /\ Given0(v) = Given0(q) \cup {c.at + 1}
    <3>1. /\ UpTo(q, p.batch.from + p.ix) /\ (d.server => Len(q) <= p.batch.from + p.ix)
          /\ ~p.batch.bad /\ Within(p.batch, d.at) /\ Ascending(q)
      BY <1>1, <1>4, <1>5, <1>8, <2>2
    <3>. QED BY <1>5, <2>1, <2>2, <3>1, RowShown
  <2>4. \A x \in InBatch(b) : c.at < x
    BY <1>1, <1>8, <2>1 DEF InBatch
  <2>. QED BY <1>1, <1>3, <1>5, <1>8, <2>1, <2>3, <2>4 DEF TurnsTo
<1>. QED BY <1>1, <1>6, <1>7, <1>8

LEMMA ShowDisplays ==
  ASSUME Types, NEW l \in Loops, NEW r \in Ranges, NEW b, NEW ix, Show(l, r, b, ix)
  PROVE  /\ loop'[l].over = r
         /\ Displays(loop'[l], seen'[l], seen[l], b, ix, IF Backend = "duckdb" THEN b.size > 0 ELSE ix < b.size)
         /\ \A k \in Loops \ {l} : loop'[k] = loop[k] /\ seen'[k] = seen[k]
<1> DEFINE more == IF Backend = "duckdb" THEN b.size > 0 ELSE ix < b.size
<1>1. /\ loop'[l].over = r /\ loop'[l].batch = b /\ loop'[l].ix = ix
      /\ loop'[l].state = "running" \/ loop'[l].state = "over"
      /\ loop'[l].state = "running" <=> more
      /\ loop'[l].state = "running" => seen'[l] = Append(seen[l], Given(b, ix))
      /\ loop'[l].state = "over" => seen'[l] = seen[l]
      /\ \A k \in Loops \ {l} : loop'[k] = loop[k] /\ seen'[k] = seen[k]
  BY Shown
<1>. HIDE DEF more
<1>2. Displays(loop'[l], seen'[l], seen[l], b, ix, more)
  BY <1>1 DEF Displays
<1>. QED BY <1>1, <1>2 DEF more

LEMMA SameIsLater ==
  ASSUME NEW R, NEW n \in Nat, NEW s \in Sessions(R, n), NEW t \in Sessions(R, n), NEW q \in Ranges, SameCursor(s, t, q)
  PROVE  Later(s.cur[q], t.cur[q])
<1>1. s.cur[q].at \in Nat
  BY SessionFields, CursorFields
<1>. QED BY <1>1 DEF SameCursor, Later

\* The transaction's calls, on the connection that the ranges use.
LEMMA TransactionCalls ==
  ASSUME ConnectionInv, BeginTransaction \/ (\E m \in Marks : Insert(m)) \/ Commit \/ Rollback
  PROVE  ServerCalled /\ session'.conn.backend = Backend
<1>1. ASSUME NEW P, \A p \in P : Orderly(Marks, session.conn, p), NEW o \in Called(P), Calls(o)
      PROVE  ServerCalled /\ session'.conn.backend = Backend
  <2>1. \A p \in P : p.conn \in Connections(Marks) /\ p.conn.backend = Backend
    BY <1>1 DEF Orderly, Backend
  <2>2. /\ ServerCalled
        /\ \/ \E p \in P : session'.conn = p.conn /\ o.ok = p.ok
           \/ Backend = "mysql" /\ session.unread # None /\ session'.conn = session.conn /\ o.ok = FALSE
    BY <1>1, <2>1, BeforeCall, CallMade
  <2>. QED BY <2>1, <2>2 DEF Backend
<1>2. CASE BeginTransaction
  <2>1. PICK o \in Called(begin_transaction(session.conn)) : Calls(o)
    BY <1>2 DEF BeginTransaction
  <2>2. \A p \in begin_transaction(session.conn) : Orderly(Marks, session.conn, p)
    BY <1>2, BeforeCall, BeginCall DEF BeginTransaction
  <2>. QED BY <1>1, <2>1, <2>2
<1>3. ASSUME NEW m \in Marks, Insert(m) PROVE ServerCalled /\ session'.conn.backend = Backend
  <2>1. PICK o \in Called(insert_impl(session.conn, {m})) : Calls(o)
    BY <1>3 DEF Insert
  <2>2. {m} \in SUBSET Marks
    OBVIOUS
  <2>3. \A p \in insert_impl(session.conn, {m}) : Orderly(Marks, session.conn, p)
    BY <2>2, BeforeCall, InsertCall
  <2>. QED BY <1>1, <2>1, <2>3
<1>4. CASE Commit
  <2>1. PICK o \in Called(commit(session.conn)) : Calls(o)
    BY <1>4 DEF Commit
  <2>2. \A p \in commit(session.conn) : Orderly(Marks, session.conn, p)
    BY BeforeCall, CommitCall
  <2>. QED BY <1>1, <2>1, <2>2
<1>5. CASE Rollback
  <2>1. PICK o \in Called(rollback(session.conn)) : Calls(o)
    BY <1>5 DEF Rollback
  <2>2. \A p \in rollback(session.conn) : Orderly(Marks, session.conn, p)
    BY BeforeCall, RollbackCall
  <2>. QED BY <1>1, <2>1, <2>2
<1>. QED BY <1>2, <1>3, <1>4, <1>5

\* A step after which no loop has had anything new.
LEMMA RowsKept ==
  ASSUME Types, RowsInv, session' \in Sessions(Marks, count),
         \A r \in Ranges : range'[r].state = "alive" => Starting(range'[r].first, session'.cur[r]),
         \A l \in Loops : \/ loop'[l].over = None /\ seen'[l] = <<>>
                          \/ /\ loop'[l] = loop[l] /\ seen'[l] = seen[l]
                             /\ loop[l].over # None => Later(session.cur[loop[l].over], session'.cur[loop[l].over])
  PROVE  RowsInv'
<1>1. ASSUME NEW l \in Loops
      PROVE  IF loop'[l].over = None THEN seen'[l] = <<>>
             ELSE Follows(loop'[l], seen'[l], session'.cur[loop'[l].over])
  <2>1. CASE loop'[l] = loop[l] /\ seen'[l] = seen[l] /\ loop[l].over # None
    <3>1. /\ loop[l] \in LoopsOf(count) /\ seen[l] \in Seq(Nat) /\ loop[l].over \in Ranges /\ count \in Nat
          /\ session.cur[loop[l].over] \in CursorsOf(count)
      BY <2>1, LoopTyped, SessionTyped, CountIsNat
    <3>2. session'.cur[loop[l].over] \in CursorsOf(count)
      BY <3>1, SessionFields
    <3>3. /\ Follows(loop[l], seen[l], session.cur[loop[l].over])
          /\ Later(session.cur[loop[l].over], session'.cur[loop[l].over])
      BY <2>1, IteratorsAssumption DEF RowsInv
    <3>. QED BY <2>1, <3>1, <3>2, <3>3, LaterFollows
  <2>2. CASE loop'[l].over = None /\ seen'[l] = <<>>
    BY <2>2
  <2>3. CASE loop'[l] = loop[l] /\ seen'[l] = seen[l] /\ loop[l].over = None
    BY <2>3 DEF RowsInv
  <2>. QED BY <2>1, <2>2, <2>3
<1>2. ASSUME NEW k \in Loops, NEW l \in Loops, k # l, loop'[k].over = loop'[l].over, loop'[k].over # None
      PROVE  Owned(loop'[k], seen'[k]) \cap Owned(loop'[l], seen'[l]) \subseteq 1 .. BatchSize
  <2>1. loop'[k] = loop[k] /\ seen'[k] = seen[k] /\ loop'[l] = loop[l] /\ seen'[l] = seen[l]
    BY <1>2
  <2>. QED BY <1>2, <2>1 DEF RowsInv
<1>. QED BY <1>1, <1>2 DEF RowsInv

\* A step after which only the loop l has had something new.
LEMMA RowsAdded ==
  ASSUME Types, RowsInv, session' \in Sessions(Marks, count), range' = range,
         \A q \in Ranges : Later(session.cur[q], session'.cur[q]),
         NEW l \in Loops, NEW r \in Ranges, loop'[l].over = r,
         \A k \in Loops \ {l} : loop'[k] = loop[k] /\ seen'[k] = seen[k],
         Follows(loop'[l], seen'[l], session'.cur[r]),
         \A k \in Loops \ {l} : loop[k].over = r =>
           Owned(loop[k], seen[k]) \cap Owned(loop'[l], seen'[l]) \subseteq 1 .. BatchSize
  PROVE  RowsInv'
<1>0. count \in Nat /\ \A q \in Ranges : session.cur[q] \in CursorsOf(count) /\ session'.cur[q] \in CursorsOf(count)
  BY SessionTyped, SessionFields, CountIsNat
<1>1. ASSUME NEW q \in Ranges, range'[q].state = "alive" PROVE Starting(range'[q].first, session'.cur[q])
  <2>1. range[q].first \in Batches(count) /\ Starting(range[q].first, session.cur[q])
    BY <1>1 DEF Types, RowsInv
  <2>. QED BY <1>0, <2>1, LaterStarting
<1>2. ASSUME NEW k \in Loops \ {l}
      PROVE  IF loop'[k].over = None THEN seen'[k] = <<>>
             ELSE Follows(loop'[k], seen'[k], session'.cur[loop'[k].over])
  <2>1. loop'[k] = loop[k] /\ seen'[k] = seen[k]
    OBVIOUS
  <2>2. CASE loop[k].over = None
    BY <2>1, <2>2 DEF RowsInv
  <2>3. CASE loop[k].over # None
    <3>1. /\ loop[k] \in LoopsOf(count) /\ seen[k] \in Seq(Nat) /\ loop[k].over \in Ranges
          /\ Follows(loop[k], seen[k], session.cur[loop[k].over])
      BY <2>3, LoopTyped DEF RowsInv
    <3>. QED BY <1>0, <2>1, <2>3, <3>1, LaterFollows
  <2>. QED BY <2>2, <2>3
<1>3. ASSUME NEW j \in Loops, NEW k \in Loops, j # k, loop'[j].over = loop'[k].over, loop'[j].over # None
      PROVE  Owned(loop'[j], seen'[j]) \cap Owned(loop'[k], seen'[k]) \subseteq 1 .. BatchSize
  <2>1. CASE j # l /\ k # l
    BY <1>3, <2>1 DEF RowsInv
  <2>2. CASE j = l \/ k = l
    BY <1>3, <2>2
  <2>. QED BY <2>1, <2>2
<1>. QED BY <1>1, <1>2, <1>3, IteratorsAssumption DEF RowsInv

LEMMA RowsRead ==
  ASSUME Types, RowsInv, NEW r \in Ranges, Read(r) PROVE RowsInv'
<1>0. r \notin Live /\ loop' = loop /\ seen' = seen /\ count \in Nat /\ session \in Sessions(Marks, count)
  BY SessionTyped, CountIsNat DEF Read
<1>1. range[r].state = "none" /\ \A l \in Loops : loop[l].over # r
  BY <1>0 DEF Live, Holders, Types
<1>2. ASSUME session' \in Sessions(Marks, count), \A q \in Ranges \ {r} : SameCursor(session, session', q)
      PROVE  /\ \A q \in Ranges \ {r} : range[q].state = "alive" => Starting(range[q].first, session'.cur[q])
             /\ \A l \in Loops : loop[l].over # None => Later(session.cur[loop[l].over], session'.cur[loop[l].over])
  <2>1. \A q \in Ranges \ {r} : /\ Later(session.cur[q], session'.cur[q])
                                /\ session.cur[q] \in CursorsOf(count) /\ session'.cur[q] \in CursorsOf(count)
    BY <1>0, <1>2, SameIsLater, SessionFields
  <2>2. ASSUME NEW q \in Ranges \ {r}, range[q].state = "alive" PROVE Starting(range[q].first, session'.cur[q])
    <3>1. range[q].first \in Batches(count) /\ Starting(range[q].first, session.cur[q])
      BY <2>2 DEF Types, RowsInv
    <3>. QED BY <1>0, <2>1, <3>1, LaterStarting
  <2>. QED BY <1>1, <2>1, <2>2, LoopTyped
<1>3. CASE Opens(Marks, session, r, count, session', FALSE) /\ range' = range
  <2>1. session' \in Sessions(Marks, count) /\ \A q \in Ranges \ {r} : SameCursor(session, session', q)
    BY <1>3 DEF Opens
  <2>2. \A q \in Ranges : range'[q].state = "alive" => Starting(range'[q].first, session'.cur[q])
    BY <1>1, <1>2, <1>3, <2>1
  <2>. QED BY <1>0, <1>2, <2>1, <2>2, RowsKept
<1>4. ASSUME NEW b, StartsWith(Marks, session, r, count, session', b),
             range' = [range EXCEPT ![r] = [state |-> "alive", first |-> b]]
      PROVE  RowsInv'
  <2>1. /\ session' \in Sessions(Marks, count) /\ b \in Batches(count)
        /\ \A q \in Ranges \ {r} : SameCursor(session, session', q)
    BY <1>4 DEF StartsWith
  <2>2. Starting(b, session'.cur[r])
    <3>1. session'.cur[r].at \in Nat
      BY <1>0, <2>1, SessionFields, CursorFields
    <3>2. \/ b = NoRows
          \/ b = OneError /\ (session'.cur[r].server => session'.cur[r].at >= 1)
          \/ \E k \in 0 .. BatchSize : b = Batch(0, k) /\ k <= session'.cur[r].at
      BY <1>4 DEF StartsWith
    <3>3. CASE b = NoRows
      BY <3>1, <3>3, SpecialBatches DEF Starting, Within
    <3>4. CASE b = OneError /\ (session'.cur[r].server => session'.cur[r].at >= 1)
      BY <3>1, <3>4, SpecialBatches DEF Starting, Within
    <3>5. ASSUME NEW k \in 0 .. BatchSize, b = Batch(0, k), k <= session'.cur[r].at
          PROVE  Starting(b, session'.cur[r])
      <4>1. b.from = 0 /\ b.size = k /\ b.bad = FALSE
        BY <3>5 DEF Batch
      <4>2. 0 + k = k
        BY IteratorsAssumption
      <4>. QED BY <3>5, <4>1, <4>2 DEF Starting, Within
    <3>. QED BY <3>2, <3>3, <3>4, <3>5
  <2>3. range'[r].first = b /\ \A q \in Ranges \ {r} : range'[q] = range[q]
    BY <1>4 DEF Types
  <2>4. \A q \in Ranges : range'[q].state = "alive" => Starting(range'[q].first, session'.cur[q])
    BY <1>2, <2>1, <2>2, <2>3
  <2>. QED BY <1>0, <1>2, <2>1, <2>4, RowsKept
<1>. QED BY <1>3, <1>4, Reads

LEMMA RowsBegun ==
  ASSUME Types, RowsInv, NEW l \in Loops, NEW r \in Ranges, BeginLoop(l, r) PROVE RowsInv'
<1>1. /\ Show(l, r, range[r].first, 0) /\ loop[l].over = None /\ range[r].state = "alive"
      /\ UNCHANGED <<count, session, range>>
  BY DEF BeginLoop, Types
<1>2. /\ session \in Sessions(Marks, count) /\ count \in Nat /\ session.cur[r] \in CursorsOf(count)
      /\ range[r].first \in Batches(count) /\ seen[l] = <<>> /\ Starting(range[r].first, session.cur[r])
  BY <1>1, SessionTyped, CountIsNat DEF Types, RowsInv
<1>3. /\ loop'[l].over = r /\ \A k \in Loops \ {l} : loop'[k] = loop[k] /\ seen'[k] = seen[k]
      /\ Displays(loop'[l], seen'[l], seen[l], range[r].first, 0,
                  IF Backend = "duckdb" THEN range[r].first.size > 0 ELSE 0 < range[r].first.size)
  BY <1>1, ShowDisplays
<1>4. Displays(loop'[l], seen'[l], <<>>, range[r].first, 0, range[r].first.size > 0)
  <2>1. range[r].first.size \in Nat
    BY <1>2, BatchesTyped
  <2>. QED BY <1>2, <1>3, <2>1 DEF Displays
<1>5. Follows(loop'[l], seen'[l], session.cur[r]) /\ Owned(loop'[l], seen'[l]) \subseteq 1 .. BatchSize
  BY <1>2, <1>4, FirstShown
<1>6. \A q \in Ranges : Later(session.cur[q], session'.cur[q])
  BY <1>1, <1>2, SameIsLater DEF SameCursor
<1>. QED BY <1>1, <1>2, <1>3, <1>5, <1>6, RowsAdded

\* Going on in a loop, by what it is shown and what becomes of the cursor.
LEMMA GoesOn ==
  ASSUME Types, RowsInv, NEW l \in Loops, Advance(l), NEW r, r = loop[l].over
  PROVE  /\ r \in Ranges /\ Running(l) /\ loop[l] \in LoopsOf(count) /\ seen[l] \in Seq(Nat) /\ count \in Nat
         /\ session \in Sessions(Marks, count) /\ session.cur[r] \in CursorsOf(count)
         /\ Follows(loop[l], seen[l], session.cur[r])
         /\ loop'[l].over = r /\ \A k \in Loops \ {l} : loop'[k] = loop[k] /\ seen'[k] = seen[k]
         /\ \/ \E g : /\ Fetched(Marks, session, r, count, g) /\ session' = g.session
                      /\ loop[l].ix + 1 >= loop[l].batch.size /\ HasMore(r)
                      /\ g.batch \in Batches(count) /\ session'.cur[r] \in CursorsOf(count)
                      /\ Handed(session.cur[r], session'.cur[r], g.batch)
                      /\ Displays(loop'[l], seen'[l], seen[l], g.batch, 0, g.batch.size > 0)
            \/ /\ session' = session
               /\ ~(loop[l].ix + 1 >= loop[l].batch.size /\ HasMore(r))
               /\ Displays(loop'[l], seen'[l], seen[l], loop[l].batch, loop[l].ix + 1,
                           loop[l].ix + 1 < loop[l].batch.size)
<1>1. /\ r \in Ranges /\ Running(l) /\ loop[l] \in LoopsOf(count) /\ seen[l] \in Seq(Nat) /\ count \in Nat
      /\ session \in Sessions(Marks, count) /\ session.cur[r] \in CursorsOf(count)
      /\ Follows(loop[l], seen[l], session.cur[r])
  BY Advances, LoopTyped, CountIsNat, SessionTyped, IteratorsAssumption DEF RowsInv
<1>2. ASSUME NEW g, Fetched(Marks, session, r, count, g), session' = g.session, Show(l, r, g.batch, 0)
      PROVE  /\ g.batch \in Batches(count) /\ session'.cur[r] \in CursorsOf(count)
             /\ Handed(session.cur[r], session'.cur[r], g.batch)
             /\ loop'[l].over = r /\ \A k \in Loops \ {l} : loop'[k] = loop[k] /\ seen'[k] = seen[k]
             /\ Displays(loop'[l], seen'[l], seen[l], g.batch, 0, g.batch.size > 0)
  <2>1. g.session \in Sessions(Marks, count) /\ FetchedRows(session, r, count, g)
    BY <1>2 DEF Fetched
  <2>2. g.batch \in Batches(count)
    <3>1. session.cur[r].at \in 0 .. count
      BY <1>1, CursorFields
    <3>. QED BY <1>1, <2>1, <3>1, BatchTyped DEF FetchedRows
  <2>3. session'.cur[r] \in CursorsOf(count) /\ Handed(session.cur[r], session'.cur[r], g.batch)
    BY <1>1, <1>2, <2>1, SessionFields DEF FetchedRows, Handed
  <2>4. /\ loop'[l].over = r /\ \A k \in Loops \ {l} : loop'[k] = loop[k] /\ seen'[k] = seen[k]
        /\ Displays(loop'[l], seen'[l], seen[l], g.batch, 0, IF Backend = "duckdb" THEN g.batch.size > 0 ELSE 0 < g.batch.size)
    BY <1>1, <1>2, ShowDisplays
  <2>5. Displays(loop'[l], seen'[l], seen[l], g.batch, 0, g.batch.size > 0)
    <3>1. g.batch.size \in Nat
      BY <1>1, <2>2, BatchesTyped
    <3>. QED BY <2>4, <3>1 DEF Displays
  <2>. QED BY <2>2, <2>3, <2>4, <2>5
<1>3. ASSUME session' = session, ~(loop[l].ix + 1 >= loop[l].batch.size /\ HasMore(r)),
             Show(l, r, loop[l].batch, loop[l].ix + 1)
      PROVE  /\ loop'[l].over = r /\ \A k \in Loops \ {l} : loop'[k] = loop[k] /\ seen'[k] = seen[k]
             /\ Displays(loop'[l], seen'[l], seen[l], loop[l].batch, loop[l].ix + 1,
                         loop[l].ix + 1 < loop[l].batch.size)
  <2> DEFINE b == loop[l].batch
             ix == loop[l].ix + 1
  <2>1. /\ loop'[l].over = r /\ \A k \in Loops \ {l} : loop'[k] = loop[k] /\ seen'[k] = seen[k]
        /\ Displays(loop'[l], seen'[l], seen[l], b, ix, IF Backend = "duckdb" THEN b.size > 0 ELSE ix < b.size)
    BY <1>1, <1>3, ShowDisplays
  <2>2. b \in Batches(count) /\ ix \in Nat /\ ix > 0
    BY <1>1 DEF LoopsOf
  <2>3. b.size \in Nat
    BY <1>1, <2>2, BatchesTyped
  <2>4. Backend = "duckdb" => HasMore(r)
    BY DEF HasMore
  <2>. HIDE DEF b, ix
  <2>5. Backend = "duckdb" => ix < b.size
    BY <1>3, <2>2, <2>3, <2>4 DEF b, ix
  <2>6. Displays(loop'[l], seen'[l], seen[l], b, ix, ix < b.size)
    BY <2>1, <2>2, <2>3, <2>5 DEF Displays
  <2>. QED BY <2>1, <2>6 DEF b, ix
<1>4. CASE \E g : /\ Fetched(Marks, session, r, count, g) /\ session' = g.session
                  /\ loop[l].ix + 1 >= loop[l].batch.size /\ HasMore(r) /\ Show(l, r, g.batch, 0)
  BY <1>1, <1>2, <1>4
<1>5. CASE /\ session' = session /\ ~(loop[l].ix + 1 >= loop[l].batch.size /\ HasMore(r))
           /\ Show(l, r, loop[l].batch, loop[l].ix + 1)
  BY <1>1, <1>3, <1>5
<1>. QED BY <1>4, <1>5, Advances

LEMMA RowsAdvanced ==
  ASSUME Types, RowsInv, NEW l \in Loops, Advance(l) PROVE RowsInv'
<1>0. PICK r : r = loop[l].over
  OBVIOUS
<1>1. /\ r \in Ranges /\ Running(l) /\ loop[l] \in LoopsOf(count) /\ seen[l] \in Seq(Nat) /\ count \in Nat
      /\ session \in Sessions(Marks, count) /\ session.cur[r] \in CursorsOf(count)
      /\ Follows(loop[l], seen[l], session.cur[r])
      /\ loop'[l].over = r /\ \A k \in Loops \ {l} : loop'[k] = loop[k] /\ seen'[k] = seen[k]
  BY <1>0, GoesOn
<1>2. range' = range /\ count' = count
  BY DEF Advance
<1>3. \A k \in Loops \ {l} : loop[k].over = r =>
        /\ Owned(loop[k], seen[k]) \cap Owned(loop[l], seen[l]) \subseteq 1 .. BatchSize
        /\ \A x \in Owned(loop[k], seen[k]) : x \in Nat /\ x <= session.cur[r].at
  <2> SUFFICES ASSUME NEW k \in Loops \ {l}, loop[k].over = r
               PROVE  /\ Owned(loop[k], seen[k]) \cap Owned(loop[l], seen[l]) \subseteq 1 .. BatchSize
                      /\ \A x \in Owned(loop[k], seen[k]) : x \in Nat /\ x <= session.cur[r].at
    OBVIOUS
  <2>1. r # None
    BY <1>1, IteratorsAssumption
  <2>2. Follows(loop[k], seen[k], session.cur[r]) /\ loop[k] \in LoopsOf(count) /\ seen[k] \in Seq(Nat)
    BY <2>1, LoopTyped DEF RowsInv
  <2>3. \A x \in Owned(loop[k], seen[k]) : x \in Nat /\ x <= session.cur[r].at
    BY <1>1, <2>2, BehindCursor
  <2>. QED BY <1>0, <2>1, <2>3 DEF RowsInv
<1>4. CASE /\ session' = session
           /\ Displays(loop'[l], seen'[l], seen[l], loop[l].batch, loop[l].ix + 1,
                       loop[l].ix + 1 < loop[l].batch.size)
  <2>1. Follows(loop'[l], seen'[l], session.cur[r]) /\ Owned(loop'[l], seen'[l]) = Owned(loop[l], seen[l])
    BY <1>1, <1>4, SameShown DEF Running
  <2>2. \A q \in Ranges : Later(session.cur[q], session'.cur[q])
    BY <1>1, <1>4, SameIsLater DEF SameCursor
  <2>. QED BY <1>1, <1>2, <1>3, <1>4, <2>1, <2>2, RowsAdded
<1>5. ASSUME NEW g, Fetched(Marks, session, r, count, g), session' = g.session, g.batch \in Batches(count),
             session'.cur[r] \in CursorsOf(count), Handed(session.cur[r], session'.cur[r], g.batch),
             Displays(loop'[l], seen'[l], seen[l], g.batch, 0, g.batch.size > 0)
      PROVE  RowsInv'
  <2>1. /\ Follows(loop'[l], seen'[l], session'.cur[r])
        /\ \A x \in Owned(loop'[l], seen'[l]) : x \in Owned(loop[l], seen[l]) \/ session.cur[r].at < x
    BY <1>1, <1>5, NextShown DEF Running
  <2>2. session' \in Sessions(Marks, count) /\ \A q \in Ranges \ {r} : SameCursor(session, session', q)
    BY <1>5 DEF Fetched, Served
  <2>3. \A q \in Ranges : Later(session.cur[q], session'.cur[q])
    BY <1>1, <1>5, <2>2, SameIsLater DEF Handed, Later
  <2>4. \A k \in Loops \ {l} : loop[k].over = r =>
          Owned(loop[k], seen[k]) \cap Owned(loop'[l], seen'[l]) \subseteq 1 .. BatchSize
    <3>1. session.cur[r].at \in Nat
      BY <1>1, CursorFields
    <3>2. \A x \in Nat : ~(session.cur[r].at < x /\ x <= session.cur[r].at)
      BY <3>1
    <3>. QED BY <1>3, <2>1, <3>2
  <2>. QED BY <1>1, <1>2, <2>1, <2>2, <2>3, <2>4, RowsAdded
<1>. QED BY <1>0, <1>4, <1>5, GoesOn

\* The cursors of the ranges that are still alive, when one gives up its own.
LEMMA GivenUpRows ==
  ASSUME Types, RowsInv, NEW r \in Ranges, GivesUp(r), NEW q \in Ranges \ {r}
  PROVE  /\ Later(session.cur[q], session'.cur[q])
         /\ range[q].state = "alive" => Starting(range[q].first, session'.cur[q])
<1>1. /\ session' \in Sessions(Marks, count) /\ SameCursor(session, session', q)
      /\ session \in Sessions(Marks, count) /\ count \in Nat
  BY SessionTyped, CountIsNat DEF GivesUp, Closes
<1>2. Later(session.cur[q], session'.cur[q])
  BY <1>1, SameIsLater
<1>3. ASSUME range[q].state = "alive" PROVE Starting(range[q].first, session'.cur[q])
  <2>1. range[q].first \in Batches(count) /\ Starting(range[q].first, session.cur[q])
    BY <1>3 DEF Types, RowsInv
  <2>. QED BY <1>1, <1>2, <2>1, LaterStarting, SessionFields
<1>. QED BY <1>2, <1>3

\* The session stays as it is.
LEMMA SessionStays ==
  ASSUME Types, RowsInv, session' = session
  PROVE  /\ session' \in Sessions(Marks, count)
         /\ \A q \in Ranges : /\ Later(session.cur[q], session'.cur[q])
                              /\ range[q].state = "alive" => Starting(range[q].first, session'.cur[q])
<1>1. session \in Sessions(Marks, count) /\ count \in Nat
  BY SessionTyped, CountIsNat
<1>. QED BY <1>1, SameIsLater DEF SameCursor, RowsInv

LEMMA RowsLeft ==
  ASSUME Types, RowsInv, NEW l \in Loops, LeaveLoop(l) PROVE RowsInv'
<1>0. range' = range
  BY DEF LeaveLoop
<1>1. PICK r : r = loop[l].over
  OBVIOUS
<1>2. /\ r \in Ranges
      /\ loop' = [loop EXCEPT ![l] = NoLoop] /\ seen' = [seen EXCEPT ![l] = <<>>]
      /\ \/ GivesUp(r) /\ range[r].state = "none" /\ \A k \in Loops : loop[k].over = r => k = l
         \/ session' = session
  BY <1>1, Leaves
<1>3. /\ loop'[l].over = None /\ seen'[l] = <<>>
      /\ \A k \in Loops \ {l} : loop'[k] = loop[k] /\ seen'[k] = seen[k]
  BY <1>2 DEF Types, NoLoop
<1>4. CASE session' = session
  <2>1. /\ session' \in Sessions(Marks, count)
        /\ \A q \in Ranges : /\ Later(session.cur[q], session'.cur[q])
                             /\ range[q].state = "alive" => Starting(range[q].first, session'.cur[q])
    BY <1>4, SessionStays
  <2>2. \A k \in Loops : loop[k].over # None => loop[k].over \in Ranges
    BY LoopTyped
  <2>. QED BY <1>0, <1>3, <2>1, <2>2, RowsKept
<1>5. CASE GivesUp(r) /\ range[r].state = "none" /\ \A k \in Loops : loop[k].over = r => k = l
  <2>1. \A q \in Ranges \ {r} : /\ Later(session.cur[q], session'.cur[q])
                                /\ range[q].state = "alive" => Starting(range[q].first, session'.cur[q])
    BY <1>2, <1>5, GivenUpRows
  <2>2. session' \in Sessions(Marks, count)
    BY <1>5 DEF GivesUp, Closes
  <2>3. \A k \in Loops \ {l} : loop[k].over # None => loop[k].over \in Ranges \ {r}
    BY <1>5, LoopTyped
  <2>4. \A q \in Ranges : range'[q].state = "alive" => Starting(range'[q].first, session'.cur[q])
    BY <1>0, <1>5, <2>1
  <2>. QED BY <1>3, <2>1, <2>2, <2>3, <2>4, RowsKept
<1>. QED BY <1>2, <1>4, <1>5

LEMMA RowsDropped ==
  ASSUME Types, RowsInv, NEW r \in Ranges, DropRange(r) PROVE RowsInv'
<1>1. loop' = loop /\ seen' = seen
  BY DEF DropRange
<1>2. /\ range' = [range EXCEPT ![r] = NoRange]
      /\ (GivesUp(r) /\ \A k \in Loops : loop[k].over # r) \/ session' = session
  BY Drops
<1>3. range'[r].state # "alive" /\ \A q \in Ranges \ {r} : range'[q] = range[q]
  BY <1>2 DEF Types, NoRange
<1>4. CASE session' = session
  <2>1. /\ session' \in Sessions(Marks, count)
        /\ \A q \in Ranges : /\ Later(session.cur[q], session'.cur[q])
                             /\ range[q].state = "alive" => Starting(range[q].first, session'.cur[q])
    BY <1>4, SessionStays
  <2>2. \A k \in Loops : loop[k].over # None => loop[k].over \in Ranges
    BY LoopTyped
  <2>3. \A q \in Ranges : range'[q].state = "alive" => Starting(range'[q].first, session'.cur[q])
    BY <1>3, <2>1
  <2>. QED BY <1>1, <2>1, <2>2, <2>3, RowsKept
<1>5. CASE GivesUp(r) /\ \A k \in Loops : loop[k].over # r
  <2>1. \A q \in Ranges \ {r} : /\ Later(session.cur[q], session'.cur[q])
                                /\ range[q].state = "alive" => Starting(range[q].first, session'.cur[q])
    BY <1>5, GivenUpRows
  <2>2. session' \in Sessions(Marks, count)
    BY <1>5 DEF GivesUp, Closes
  <2>3. \A k \in Loops : loop[k].over # None => loop[k].over \in Ranges \ {r}
    BY <1>5, LoopTyped
  <2>4. \A q \in Ranges : range'[q].state = "alive" => Starting(range'[q].first, session'.cur[q])
    BY <1>3, <2>1
  <2>. QED BY <1>1, <2>1, <2>2, <2>3, <2>4, RowsKept
<1>. QED BY <1>2, <1>4, <1>5

LEMMA RowsCalled ==
  ASSUME Types, RowsInv, ServerCalled PROVE RowsInv'
<1>1. /\ session' \in Sessions(Marks, count) /\ \A q \in Ranges : SameCursor(session, session', q)
      /\ range' = range /\ loop' = loop /\ seen' = seen
      /\ session \in Sessions(Marks, count) /\ count \in Nat
  BY SessionTyped, CountIsNat DEF ServerCalled
<1>2. \A q \in Ranges : /\ Later(session.cur[q], session'.cur[q])
                        /\ session.cur[q] \in CursorsOf(count) /\ session'.cur[q] \in CursorsOf(count)
  BY <1>1, SameIsLater, SessionFields
<1>3. \A k \in Loops : loop[k].over # None => loop[k].over \in Ranges
  BY LoopTyped
<1>4. ASSUME NEW q \in Ranges, range[q].state = "alive" PROVE Starting(range[q].first, session'.cur[q])
  <2>1. range[q].first \in Batches(count) /\ Starting(range[q].first, session.cur[q])
    BY <1>4 DEF Types, RowsInv
  <2>. QED BY <1>1, <1>2, <2>1, LaterStarting
<1>. QED BY <1>1, <1>2, <1>3, <1>4, RowsKept

LEMMA RowsInit == Init => RowsInv
BY DEF Init, RowsInv, NoRange, NoLoop

LEMMA RowsSteps == ConnectionInv /\ RowsInv /\ [Next]_vars => RowsInv'
<1> SUFFICES ASSUME ConnectionInv, RowsInv, [Next]_vars PROVE RowsInv'
  OBVIOUS
<1>0. Types
  BY DEF ConnectionInv
<1>1. ASSUME NEW r \in Ranges, Read(r) \/ DropRange(r) PROVE RowsInv'
  BY <1>0, <1>1, RowsRead, RowsDropped
<1>2. ASSUME NEW l \in Loops, (\E r \in Ranges : BeginLoop(l, r)) \/ Advance(l) \/ LeaveLoop(l) PROVE RowsInv'
  BY <1>0, <1>2, RowsBegun, RowsAdvanced, RowsLeft
<1>3. CASE BeginTransaction \/ (\E m \in Marks : Insert(m)) \/ Commit \/ Rollback
  BY <1>0, <1>3, TransactionCalls, RowsCalled
<1>4. CASE UNCHANGED vars
  BY <1>4 DEF RowsInv, vars
<1>. QED BY <1>1, <1>2, <1>3, <1>4 DEF Next

LEMMA RowsAlways == Spec => []RowsInv
<1>1. ConnectionInv /\ RowsInv /\ [Next]_vars => RowsInv'
  BY RowsSteps
<1>. QED BY <1>1, RowsInit, ConnectionAlways, PTL DEF Spec

\* However many loops share a range, and whatever fails meanwhile, each of them
\* is given its rows in the order of the answer and none twice (Iterator.hpp,
\* operator++ of the copies that begin() makes).
THEOREM RowsInOrder == Spec => []InOrder
<1>1. ConnectionInv /\ RowsInv => InOrder
  <2> SUFFICES ASSUME ConnectionInv, RowsInv, NEW l \in Loops PROVE Ascending(seen[l])
    BY DEF InOrder, Ascending
  <2>1. CASE loop[l].over = None
    BY <2>1 DEF RowsInv, Ascending
  <2>2. CASE loop[l].over # None
    BY <2>2 DEF RowsInv, Follows
  <2>. QED BY <2>1, <2>2
<1>. QED BY <1>1, ConnectionAlways, RowsAlways, PTL

\* Two loops over one range have at most the rows of its first batch in common:
\* all others go to the loop that asks the shared cursor first.
THEOREM CursorIsShared == Spec => []SharedCursor
<1>1. RowsInv => SharedCursor
  <2>1. \A l \in Loops : Rows(l) \subseteq Owned(loop[l], seen[l])
    BY DEF Rows, Owned, Given0
  <2>. QED BY <2>1 DEF RowsInv, SharedCursor
<1>. QED BY <1>1, RowsAlways, PTL

\* No loop goes on for longer than the answer has rows, whatever errors it is
\* given, unless DuckDB could not run the query (duckdb/Iterator.hpp).
THEOREM ErrorsEnd == Spec => []NoEndlessErrors
<1>1. ConnectionInv /\ RowsInv => NoEndlessErrors
  <2> SUFFICES ASSUME ConnectionInv, RowsInv, NEW l \in Loops, Running(l), session.cur[loop[l].over].server
               PROVE  Len(seen[l]) <= count
    BY DEF NoEndlessErrors
  <2>1. Types /\ loop[l].over # None
    BY DEF ConnectionInv, Types, Running
  <2> DEFINE d == session.cur[loop[l].over]
  <2>2. /\ loop[l] \in LoopsOf(count) /\ seen[l] \in Seq(Nat) /\ count \in Nat /\ loop[l].over \in Ranges
        /\ d \in CursorsOf(count) /\ Follows(loop[l], seen[l], d)
    BY <2>1, LoopTyped, SessionTyped, CountIsNat DEF RowsInv
  <2>. HIDE DEF d
  <2>3. /\ Place(loop[l], d.at) \in Nat /\ Place(loop[l], d.at) <= d.at /\ d.at \in 0 .. count
        /\ Len(seen[l]) \in Nat
    BY <2>2, BehindCursor
  <2>4. Len(seen[l]) <= Place(loop[l], d.at)
    BY <2>2 DEF Follows, Running, d
  <2>. QED BY <2>2, <2>3, <2>4
<1>. QED BY <1>1, ConnectionAlways, RowsAlways, PTL

-----------------------------------------------------------------------------
(* The only loop over an undisturbed range.                                *)

\* On PostgreSQL and MySQL whatever else runs on the connection disturbs a range.
Alone(r) == Backend \in {"sqlite", "duckdb"} \/ r \notin shared
Quiet(r) == ~session.cur[r].lost /\ session.cur[r].typed /\ Alone(r)

\* A range that is not shared is the only one, and outside of transactions.
AloneInv == \A r \in Live \ shared : Live = {r} /\ trans = "none"

\* The number of loops a range has had is no less than those it has.
HeldInv ==
  /\ \A l \in Loops : loop[l].over # None => loops[loop[l].over] >= 1
  /\ \A k, l \in Loops : k # l /\ loop[k].over = loop[l].over /\ loop[k].over # None => loops[loop[l].over] >= 2

\* A batch that goes up to the cursor, and is empty only at the end of n rows.
Whole(b, at, n) == ~b.bad /\ b.from + b.size = at /\ (b.size = 0 => at = n)

\* The loop p was given the rows q without a gap, up to its place in the batch
\* that ends at the cursor, or to the end of the answer.
AllGiven(p, q, at, n) ==
  IF p.state = "running"
  THEN ~p.batch.bad /\ p.batch.from + p.batch.size = at /\ Given0(q) = 1 .. p.batch.from + p.ix + 1
  ELSE Given0(q) = 1 .. n

\* The cursor of r has all it needs, its first batch is still whole, and its
\* only loop has had all rows up to here.
Fine(r) ==
  /\ Sound(session, r, count)
  /\ range[r].state = "alive" /\ loops[r] = 0 => Whole(range[r].first, session.cur[r].at, count)
  /\ \A l \in Loops : loop[l].over = r /\ loops[r] = 1 => AllGiven(loop[l], seen[l], session.cur[r].at, count)

FineInv == \A r \in Live : Quiet(r) => Fine(r)

CompleteInv == AloneInv /\ HeldInv /\ FineInv

\* A cursor that nothing touches stays sound.
LEMMA SoundKept ==
  ASSUME NEW n, NEW s, NEW t, NEW r, t.conn.backend = s.conn.backend, SameCursor(s, t, r),
         s.conn.backend \in {"sqlite", "duckdb"}, Sound(s, r, n)
  PROVE  Sound(t, r, n)
BY DEF Sound, SameCursor

\* A range on which nothing happens stays fine.
LEMMA FineKept ==
  ASSUME CompleteInv, NEW q \in Ranges, q \in Live, Quiet(q)', count' = count, session'.conn.backend = Backend,
         \/ session' = session
         \/ SameCursor(session, session', q) /\ (Backend \in {"sqlite", "duckdb"} \/ q \in shared'),
         q \in shared => q \in shared', loops'[q] = loops[q],
         range'[q].state = "alive" => range'[q] = range[q],
         \A l \in Loops : loop'[l].over = q => loop'[l] = loop[l] /\ seen'[l] = seen[l]
  PROVE  Fine(q)'
<1>0. Backend' = Backend /\ session.conn.backend = Backend
  BY DEF Backend
<1>1. Quiet(q) /\ session'.cur[q].at = session.cur[q].at
  BY <1>0 DEF Quiet, Alone, SameCursor
<1>2. Fine(q)
  BY <1>1 DEF CompleteInv, FineInv
<1>3. Sound(session', q, count)
  <2>1. CASE session' = session
    BY <1>2, <2>1 DEF Fine
  <2>2. CASE SameCursor(session, session', q) /\ Backend \in {"sqlite", "duckdb"}
    BY <1>0, <1>2, <2>2, SoundKept DEF Fine
  <2>3. CASE Backend \notin {"sqlite", "duckdb"} /\ q \in shared'
    BY <1>0, <2>3 DEF Quiet, Alone
  <2>. QED BY <2>1, <2>2, <2>3
<1>4. range'[q].state = "alive" /\ loops'[q] = 0 => Whole(range'[q].first, session'.cur[q].at, count')
  BY <1>1, <1>2 DEF Fine
<1>5. \A l \in Loops : loop'[l].over = q /\ loops'[q] = 1 => AllGiven(loop'[l], seen'[l], session'.cur[q].at, count')
  BY <1>1, <1>2 DEF Fine
<1>6. Sound(session', q, count')
  BY <1>3
<1>. QED BY <1>4, <1>5, <1>6 DEF Fine

\* Of the ranges that are undisturbed on PostgreSQL and MySQL there is one only.
LEMMA OthersAreShared ==
  ASSUME AloneInv, NEW r \in Live, NEW q \in Live, q # r
  PROVE  q \in shared
BY DEF AloneInv

LEMMA AloneStays ==
  ASSUME AloneInv, Live' = Live, shared' = shared, trans' = trans
  PROVE  AloneInv'
BY DEF AloneInv

LEMMA FineRead ==
  ASSUME Types, CompleteInv, NEW r \in Ranges, Read(r) PROVE CompleteInv'
<1>0. /\ r \notin Live /\ loop' = loop /\ seen' = seen /\ loops' = loops /\ count' = count
      /\ shared' = shared \cup (IF Live = {} /\ trans = "none" THEN {} ELSE Live \cup {r})
  BY DEF Read
<1>1. range[r].state = "none" /\ \A l \in Loops : loop[l].over # r
  BY <1>0 DEF Live, Holders, Types
<1>2. HeldInv'
  BY <1>0 DEF CompleteInv, HeldInv
<1>3. Live \subseteq shared'
  BY <1>0
<1>4. ASSUME NEW q \in Live, Quiet(q)', SameCursor(session, session', q), session'.conn.backend = Backend,
             range'[q] = range[q]
      PROVE  Fine(q)'
  <2>1. q \in Ranges /\ q \in shared'
    BY <1>3 DEF Live
  <2>. QED BY <1>0, <1>4, <2>1, FineKept
<1>5. CASE /\ Opens(Marks, session, r, count, session', FALSE)
           /\ range' = range /\ Live' = Live /\ trans' = Spoilt
  <2>1. AloneInv'
    BY <1>3, <1>5 DEF AloneInv
  <2>2. session'.conn.backend = Backend /\ \A q \in Ranges \ {r} : SameCursor(session, session', q)
    BY <1>5 DEF Opens, ReadOnly, Backend
  <2>3. \A q \in Live : q \in Ranges \ {r}
    BY <1>0 DEF Live
  <2>4. FineInv'
    BY <1>4, <1>5, <2>2, <2>3 DEF FineInv
  <2>. QED BY <1>2, <2>1, <2>4 DEF CompleteInv
<1>6. ASSUME NEW b, StartsWith(Marks, session, r, count, session', b),
             range' = [range EXCEPT ![r] = [state |-> "alive", first |-> b]],
             Live' = Live \cup {r}, trans' = trans
      PROVE  CompleteInv'
  <2>1. AloneInv'
    BY <1>0, <1>3, <1>6 DEF AloneInv
  <2>2. session'.conn.backend = Backend /\ \A q \in Ranges \ {r} : SameCursor(session, session', q)
    BY <1>6 DEF StartsWith, ReadOnly, Backend
  <2>3. \A q \in Live : q \in Ranges \ {r}
    BY <1>0 DEF Live
  <2>4. range'[r].first = b /\ \A q \in Ranges \ {r} : range'[q] = range[q]
    BY <1>6 DEF Types
  <2>5. ASSUME Quiet(r)' PROVE Fine(r)'
    <3>1. ~session'.cur[r].lost /\ session'.cur[r].typed
      BY <2>5 DEF Quiet
    <3>2. /\ Sound(session', r, count) /\ ~b.bad /\ session'.cur[r].at = b.size
          /\ b.size = 0 => session'.cur[r].at = count
      BY <1>6, <3>1 DEF StartsWith
    <3>3. b.from = 0
      <4>1. b = NoRows \/ b = OneError \/ \E k \in 0 .. BatchSize : b = Batch(0, k)
        BY <1>6 DEF StartsWith
      <4>. QED BY <4>1 DEF NoRows, OneError, Batch
    <3>4. b.from + b.size = session'.cur[r].at
      <4>1. b.size \in Nat
        BY <1>6, CountIsNat, BatchesTyped DEF StartsWith
      <4>. QED BY <3>2, <3>3, <4>1
    <3>5. \A l \in Loops : loop'[l].over # r
      BY <1>0, <1>1
    <3>6. Sound(session', r, count')
      BY <1>0, <3>2
    <3>7. Whole(range'[r].first, session'.cur[r].at, count')
      BY <1>0, <2>4, <3>2, <3>4 DEF Whole
    <3>. QED BY <3>5, <3>6, <3>7 DEF Fine
  <2>6. ASSUME NEW q \in Live, Quiet(q)' PROVE Fine(q)'
    BY <1>4, <2>2, <2>3, <2>4, <2>6
  <2>7. FineInv'
    BY <1>6, <2>5, <2>6 DEF FineInv
  <2>. QED BY <1>2, <2>1, <2>7 DEF CompleteInv
<1>. QED BY <1>5, <1>6, Reads

LEMMA OneLonger ==
  ASSUME NEW k \in Nat, NEW m, m = k + 1
  PROVE  1 .. m = 1 .. k \cup {m}
OBVIOUS

\* The first batch is whole: so is what the only loop is given of it.
LEMMA FirstComplete ==
  ASSUME NEW n \in Nat, NEW b \in Batches(n), NEW at, Whole(b, at, n), b.from = 0, NEW p, NEW v,
         Displays(p, v, <<>>, b, 0, b.size > 0)
  PROVE  AllGiven(p, v, at, n)
<1>1. b.size \in Nat /\ ~b.bad /\ at = b.size /\ (b.size = 0 => at = n) /\ p.batch = b /\ p.ix = 0
  BY BatchesTyped DEF Whole, Displays
<1>2. Given0(<<>>) = {}
  BY DEF Given0
<1>3. CASE b.size = 0
  <2>1. p.state = "over" /\ v = <<>> /\ n = 0
    BY <1>1, <1>3 DEF Displays
  <2>. QED BY <1>2, <2>1 DEF AllGiven
<1>4. CASE b.size > 0
  <2>1. p.state = "running" /\ v = Append(<<>>, 1)
    BY <1>1, <1>4 DEF Displays, Given
  <2>2. <<>> \in Seq(Nat) /\ Ascending(<<>>) /\ UpTo(<<>>, 0) /\ 0 \in Nat /\ 1 \in Nat /\ 0 < 1
    BY DEF Ascending, UpTo
  <2>3. Given0(v) = Given0(<<>>) \cup ({1} \ {0})
    BY <2>1, <2>2, OneMore
  <2>4. Given0(v) = 1 .. 0 + 0 + 1 /\ 0 + b.size = at
    BY <1>1, <1>2, <2>3
  <2>. QED BY <1>1, <2>1, <2>4 DEF AllGiven
<1>. QED BY <1>1, <1>3, <1>4

LEMMA SameComplete ==
  ASSUME NEW n \in Nat, NEW at, NEW o \in LoopsOf(n), NEW q, NEW p, NEW v, AllGiven(o, q, at, n),
         o.state = "running", o.ix < o.batch.size, ~(o.ix + 1 < o.batch.size) => at = n,
         StaysIn(o, q, p, v)
  PROVE  AllGiven(p, v, at, n)
<1>1. o.ix \in Nat /\ o.batch.from \in Nat /\ o.batch.size \in Nat
  <2>1. o.batch \in Batches(n) /\ o.ix \in Nat
    BY DEF LoopsOf
  <2>. QED BY <2>1, BatchesTyped
<1>2. ~o.batch.bad /\ o.batch.from + o.batch.size = at /\ Given0(q) = 1 .. o.batch.from + o.ix + 1
  BY DEF AllGiven
<1>3. CASE o.ix + 1 < o.batch.size
  <2> DEFINE k == o.batch.from + o.ix + 1
             m == o.batch.from + o.ix + 2
  <2>1. k \in Nat /\ m = k + 1 /\ m = o.batch.from + (o.ix + 1) + 1
    BY <1>1
  <2>2. Given0(q) = 1 .. k /\ Given0(v) = Given0(q) \cup {m} /\ p.batch = o.batch /\ p.ix = o.ix + 1
    BY <1>2, <1>3 DEF StaysIn
  <2>3. p.batch.from + p.ix + 1 = m
    BY <2>1, <2>2
  <2>. HIDE DEF k, m
  <2>4. Given0(v) = 1 .. m
    BY <2>1, <2>2, OneLonger
  <2>. QED BY <1>2, <1>3, <2>3, <2>4 DEF AllGiven, StaysIn
<1>4. CASE ~(o.ix + 1 < o.batch.size)
  <2>1. o.ix + 1 = o.batch.size /\ o.batch.from + o.ix + 1 = n
    BY <1>1, <1>2, <1>4
  <2>. QED BY <1>2, <1>4, <2>1 DEF AllGiven, StaysIn
<1>. QED BY <1>3, <1>4

LEMMA NextComplete ==
  ASSUME NEW n \in Nat, NEW o \in LoopsOf(n), NEW q, NEW c \in Nat, AllGiven(o, q, c, n),
         o.state = "running", o.ix < o.batch.size, o.ix + 1 >= o.batch.size,
         NEW b \in Batches(n), ~b.bad, NEW d, d = c + b.size, b.size = 0 => d = n, NEW p, NEW v,
         TurnsTo(b, c, q, p, v)
  PROVE  AllGiven(p, v, d, n)
<1>1. o.ix \in Nat /\ o.batch.from \in Nat /\ o.batch.size \in Nat /\ b.size \in Nat
  <2>1. o.batch \in Batches(n) /\ o.ix \in Nat
    BY DEF LoopsOf
  <2>. QED BY <2>1, BatchesTyped
<1>2. o.batch.from + o.ix + 1 = c /\ Given0(q) = 1 .. c
  <2>1. o.batch.from + o.batch.size = c /\ Given0(q) = 1 .. o.batch.from + o.ix + 1
    BY DEF AllGiven
  <2>2. o.ix + 1 = o.batch.size
    BY <1>1
  <2>3. o.batch.from + o.ix + 1 = o.batch.from + (o.ix + 1)
    BY <1>1
  <2>. QED BY <2>1, <2>2, <2>3
<1>3. CASE b.size = 0
  <2>1. c = n
    BY <1>3
  <2>. QED BY <1>2, <1>3, <2>1 DEF AllGiven, TurnsTo
<1>4. CASE b.size > 0
  <2> DEFINE m == c + 1
  <2>1. m = c + 1 /\ m = p.batch.from + p.ix + 1 /\ Given0(v) = Given0(q) \cup {m}
    BY <1>4 DEF TurnsTo
  <2>. HIDE DEF m
  <2>2. Given0(v) = 1 .. m
    BY <1>2, <2>1, OneLonger
  <2>. QED BY <1>4, <2>1, <2>2 DEF AllGiven, TurnsTo
<1>. QED BY <1>1, <1>3, <1>4

LEMMA FineBegun ==
  ASSUME Types, RowsInv, CompleteInv, NEW l \in Loops, NEW r \in Ranges, BeginLoop(l, r) PROVE CompleteInv'
<1>1. /\ Show(l, r, range[r].first, 0) /\ loop[l].over = None /\ range[r].state = "alive"
      /\ UNCHANGED <<count, session, range, trans, shared>>
      /\ loops' = [loops EXCEPT ![r] = loops[r] + 1]
  BY DEF BeginLoop, Types
<1>2. /\ loop'[l].over = r /\ \A k \in Loops \ {l} : loop'[k] = loop[k] /\ seen'[k] = seen[k]
      /\ Displays(loop'[l], seen'[l], seen[l], range[r].first, 0,
                  IF Backend = "duckdb" THEN range[r].first.size > 0 ELSE 0 < range[r].first.size)
  BY <1>1, ShowDisplays
<1>3. /\ loops'[r] = loops[r] + 1 /\ \A q \in Ranges \ {r} : loops'[q] = loops[q]
      /\ \A q \in Ranges : loops[q] \in Nat
  BY <1>1 DEF Types
<1>4. Live' = Live
  BY <1>1, ShownLive
<1>5. AloneInv'
  BY <1>1, <1>4, AloneStays DEF CompleteInv
<1>6. \A k \in Loops : loop[k].over # None => loop[k].over \in Ranges /\ loops[loop[k].over] >= 1
  BY LoopTyped DEF CompleteInv, HeldInv
<1>7. HeldInv'
  <2>1. ASSUME NEW k \in Loops, loop'[k].over # None PROVE loops'[loop'[k].over] >= 1
    <3>1. CASE k = l
      BY <1>2, <1>3, <3>1
    <3>2. CASE k # l
      <4>1. loop'[k].over \in Ranges /\ loops[loop'[k].over] >= 1
        BY <1>2, <1>6, <2>1, <3>2
      <4>. QED BY <1>3, <4>1
    <3>. QED BY <3>1, <3>2
  <2>2. ASSUME NEW j \in Loops, NEW k \in Loops, j # k, loop'[j].over = loop'[k].over, loop'[j].over # None
        PROVE  loops'[loop'[k].over] >= 2
    <3>1. CASE j # l /\ k # l
      <4>1. loop'[k].over \in Ranges /\ loops[loop'[k].over] >= 2
        BY <1>2, <1>6, <2>2, <3>1 DEF CompleteInv, HeldInv
      <4>. QED BY <1>3, <4>1
    <3>2. CASE j = l
      <4>1. loop'[k].over = r /\ loops[r] >= 1
        BY <1>2, <1>6, <2>2, <3>2
      <4>. QED BY <1>3, <4>1
    <3>3. CASE k = l
      <4>1. loop'[k].over = r /\ loops[r] >= 1
        BY <1>2, <1>6, <2>2, <3>3
      <4>. QED BY <1>3, <4>1
    <3>. QED BY <3>1, <3>2, <3>3
  <2>. QED BY <2>1, <2>2 DEF HeldInv
<1>8. r \in Live
  BY <1>1 DEF Live
<1>9. ASSUME NEW q \in Live, Quiet(q)' PROVE Fine(q)'
  <2>0. q \in Ranges /\ session'.conn.backend = Backend
    BY <1>1 DEF Live, Backend
  <2>1. CASE q # r
    BY <1>1, <1>2, <1>3, <1>9, <2>0, <2>1, FineKept
  <2>2. CASE q = r
    <3>1. Quiet(r)
      BY <1>1, <1>9, <2>2 DEF Quiet, Alone, Backend
    <3>2. Fine(r)
      BY <1>8, <3>1 DEF CompleteInv, FineInv
    <3>3. loops'[r] # 0 /\ (loops'[r] = 1 => loops[r] = 0)
      BY <1>3
    <3>4. ASSUME NEW k \in Loops, loop'[k].over = r, loops'[r] = 1
          PROVE  AllGiven(loop'[k], seen'[k], session.cur[r].at, count)
      <4>1. k = l
        <5>1. ~(loops[r] >= 1) /\ r # None
          BY <3>3, <3>4, IteratorsAssumption
        <5>. QED BY <1>2, <1>6, <3>4, <5>1
      <4>2. /\ Whole(range[r].first, session.cur[r].at, count)
            /\ range[r].first \in Batches(count) /\ range[r].first.from = 0 /\ count \in Nat
        BY <1>1, <3>2, <3>3, <3>4, CountIsNat DEF Fine, RowsInv, Starting, Types
      <4>3. seen[l] = <<>> /\ range[r].first.size \in Nat
        BY <1>1, <4>2, BatchesTyped DEF RowsInv
      <4>4. Displays(loop'[l], seen'[l], <<>>, range[r].first, 0, range[r].first.size > 0)
        BY <1>2, <4>3 DEF Displays
      <4>. QED BY <4>1, <4>2, <4>4, FirstComplete
    <3>. QED BY <1>1, <2>2, <3>2, <3>3, <3>4 DEF Fine
  <2>. QED BY <2>1, <2>2
<1>10. FineInv'
  BY <1>4, <1>9 DEF FineInv
<1>. QED BY <1>5, <1>7, <1>10 DEF CompleteInv

LEMMA FineAdvanced ==
  ASSUME Types, RowsInv, CompleteInv, NEW l \in Loops, Advance(l) PROVE CompleteInv'
<1>0. UNCHANGED <<count, range, trans, loops, shared>>
  BY DEF Advance
<1>1. PICK r : r = loop[l].over
  OBVIOUS
<1>2. /\ r \in Ranges /\ Running(l) /\ loop[l] \in LoopsOf(count) /\ seen[l] \in Seq(Nat) /\ count \in Nat
      /\ session \in Sessions(Marks, count) /\ session.cur[r] \in CursorsOf(count)
      /\ Follows(loop[l], seen[l], session.cur[r])
      /\ loop'[l].over = r /\ \A k \in Loops \ {l} : loop'[k] = loop[k] /\ seen'[k] = seen[k]
      /\ \/ \E g : /\ Fetched(Marks, session, r, count, g) /\ session' = g.session
                   /\ loop[l].ix + 1 >= loop[l].batch.size /\ HasMore(r)
                   /\ g.batch \in Batches(count) /\ session'.cur[r] \in CursorsOf(count)
                   /\ Handed(session.cur[r], session'.cur[r], g.batch)
                   /\ Displays(loop'[l], seen'[l], seen[l], g.batch, 0, g.batch.size > 0)
         \/ /\ session' = session
            /\ ~(loop[l].ix + 1 >= loop[l].batch.size /\ HasMore(r))
            /\ Displays(loop'[l], seen'[l], seen[l], loop[l].batch, loop[l].ix + 1,
                        loop[l].ix + 1 < loop[l].batch.size)
  BY <1>1, GoesOn
<1>3. \A k \in Loops : loop'[k].over = loop[k].over
  BY <1>1, <1>2
<1>4. Live' = Live /\ r \in Live
  BY <1>0, <1>1, <1>2, <1>3 DEF Live, Holders
<1>5. AloneInv' /\ HeldInv'
  BY <1>0, <1>3, <1>4, AloneStays DEF CompleteInv, HeldInv
<1>6. loops[r] >= 1 /\ \A k \in Loops : loop[k].over = r /\ loops[r] = 1 => k = l
  <2>1. r # None
    BY <1>2, IteratorsAssumption
  <2>2. \A k \in Loops : loop[k].over = r /\ k # l => loops[r] >= 2
    BY <1>1, <2>1 DEF CompleteInv, HeldInv
  <2>3. loops[r] >= 1 /\ loops[r] \in Nat
    BY <1>1, <1>2, <2>1 DEF CompleteInv, HeldInv, Types
  <2>. QED BY <2>2, <2>3
<1>7. \/ session' = session
      \/ /\ \A q \in Ranges \ {r} : SameCursor(session, session', q)
         /\ session'.conn.backend = Backend
  BY <1>2 DEF Fetched, Served, ReadOnly, Backend
<1>8. ASSUME NEW q \in Live, q # r, Quiet(q)' PROVE Fine(q)'
  <2>1. q \in Ranges /\ q \in shared' /\ q \in shared
    BY <1>0, <1>4, <1>8, OthersAreShared DEF Live, CompleteInv
  <2>2. session'.conn.backend = Backend
    BY <1>7 DEF Backend
  <2>. QED BY <1>0, <1>2, <1>7, <1>8, <2>1, <2>2, FineKept
<1>9. ASSUME Quiet(r)' PROVE Fine(r)'
  <2> DEFINE c == session.cur[r]
             d == session'.cur[r]
  <2>1. ~d.lost /\ d.typed
    BY <1>9 DEF Quiet
  <2>2. CASE /\ session' = session /\ ~(loop[l].ix + 1 >= loop[l].batch.size /\ HasMore(r))
             /\ Displays(loop'[l], seen'[l], seen[l], loop[l].batch, loop[l].ix + 1,
                         loop[l].ix + 1 < loop[l].batch.size)
    <3>1. Quiet(r)
      BY <1>0, <1>9, <2>2 DEF Quiet, Alone, Backend
    <3>2. Fine(r)
      BY <1>4, <3>1 DEF CompleteInv, FineInv
    <3>3. ASSUME loops[r] = 1 PROVE AllGiven(loop'[l], seen'[l], c.at, count)
      <4>1. AllGiven(loop[l], seen[l], c.at, count)
        BY <1>1, <3>2, <3>3 DEF Fine
      <4>2. loop[l].state = "running" /\ loop[l].ix < loop[l].batch.size
        BY <1>2 DEF Running, Follows
      <4>3. ~(loop[l].ix + 1 < loop[l].batch.size) => c.at = count
        <5>1. loop[l].ix \in Nat /\ loop[l].batch.size \in Nat
          <6>1. loop[l].batch \in Batches(count) /\ loop[l].ix \in Nat
            BY <1>2 DEF LoopsOf
          <6>. QED BY <1>2, <6>1, BatchesTyped
        <5>2. ~(loop[l].ix + 1 < loop[l].batch.size) => loop[l].ix + 1 >= loop[l].batch.size
          BY <5>1
        <5>3. ~(loop[l].ix + 1 < loop[l].batch.size) => c.end
          BY <2>2, <5>2 DEF HasMore
        <5>. QED BY <3>2, <5>3 DEF Fine, Sound
      <4>. HIDE DEF c
      <4>4. /\ Follows(loop'[l], seen'[l], session.cur[r]) /\ Owned(loop'[l], seen'[l]) = Owned(loop[l], seen[l])
            /\ StaysIn(loop[l], seen[l], loop'[l], seen'[l])
        BY <1>2, <2>2, <4>2, SameShown
      <4>. QED BY <1>2, <4>1, <4>2, <4>3, <4>4, SameComplete
    <3>. QED BY <1>0, <1>3, <1>6, <2>2, <3>2, <3>3 DEF Fine
  <2>3. ASSUME NEW g, Fetched(Marks, session, r, count, g), session' = g.session,
               loop[l].ix + 1 >= loop[l].batch.size, g.batch \in Batches(count),
               d \in CursorsOf(count), Handed(c, d, g.batch),
               Displays(loop'[l], seen'[l], seen[l], g.batch, 0, g.batch.size > 0)
        PROVE  Fine(r)'
    <3>1. FetchedRows(session, r, count, g) /\ session'.conn.backend = Backend
      BY <2>3 DEF Fetched, Served, ReadOnly, Backend
    <3>2. Quiet(r)
      <4>1. c.lost => d.lost
        BY <2>3, <3>1 DEF FetchedRows
      <4>2. d.typed = c.typed
        BY <2>3, <3>1 DEF FetchedRows
      <4>. QED BY <1>0, <1>9, <2>1, <3>1, <4>1, <4>2 DEF Quiet, Alone, Backend
    <3>3. Fine(r)
      BY <1>4, <3>2 DEF CompleteInv, FineInv
    <3>4. /\ Sound(session', r, count) /\ ~g.batch.bad /\ d.at = c.at + g.batch.size
          /\ g.batch.size = 0 => d.at = count
      BY <2>1, <2>3, <3>1, <3>3 DEF FetchedRows, Fine
    <3>5. ASSUME loops[r] = 1 PROVE AllGiven(loop'[l], seen'[l], d.at, count)
      <4>1. AllGiven(loop[l], seen[l], c.at, count) /\ c.at \in Nat
        BY <1>1, <1>2, <3>3, <3>5, CursorFields DEF Fine
      <4>2. loop[l].state = "running" /\ loop[l].ix < loop[l].batch.size
        BY <1>2 DEF Running, Follows
      <4>3. /\ loop[l].ix < loop[l].batch.size /\ ~g.batch.bad
            /\ c \in CursorsOf(count) /\ Follows(loop[l], seen[l], c)
        BY <1>2, <3>4, <4>2
      <4>. HIDE DEF c, d
      <4>4. /\ Follows(loop'[l], seen'[l], d)
            /\ \A x \in Owned(loop'[l], seen'[l]) : x \in Owned(loop[l], seen[l]) \/ c.at < x
            /\ TurnsTo(g.batch, c.at, seen[l], loop'[l], seen'[l])
        BY <1>2, <2>3, <4>2, <4>3, NextShown
      <4>5. AllGiven(loop'[l], seen'[l], d.at, count)
        BY <1>2, <2>3, <3>4, <4>1, <4>2, <4>3, <4>4, NextComplete
      <4>. QED BY <4>5
    <3>. QED BY <1>0, <1>3, <1>6, <3>4, <3>5 DEF Fine
  <2>. QED BY <1>2, <2>2, <2>3
<1>10. FineInv'
  BY <1>4, <1>8, <1>9 DEF FineInv
<1>. QED BY <1>5, <1>10 DEF CompleteInv

\* The ranges that are still alive, when r gives up its cursor.
LEMMA GivenUpFine ==
  ASSUME Types, CompleteInv, NEW r \in Live, GivesUp(r), Live' = Live \ {r},
         loops' = [loops EXCEPT ![r] = 0], shared' = shared \ {r}, UNCHANGED <<count, trans>>,
         \A q \in Ranges \ {r} : range'[q] = range[q],
         \A k \in Loops : \/ loop'[k].over = None
                          \/ loop'[k] = loop[k] /\ seen'[k] = seen[k] /\ loop[k].over # r
  PROVE  CompleteInv'
<1>1. r \in Ranges /\ session'.conn.backend = Backend /\ \A q \in Ranges \ {r} : SameCursor(session, session', q)
  BY DEF Live, GivesUp, Closes, ReadOnly, Backend
<1>2. \A q \in Ranges \ {r} : loops'[q] = loops[q]
  BY <1>1 DEF Types
<1>3. AloneInv'
  BY DEF CompleteInv, AloneInv
<1>4. HeldInv'
  <2>1. \A k \in Loops : loop'[k].over # None =>
          loop'[k] = loop[k] /\ loop[k].over \in Ranges \ {r} /\ loops'[loop'[k].over] = loops[loop[k].over]
    BY <1>2, LoopTyped
  <2>. QED BY <2>1 DEF CompleteInv, HeldInv
<1>5. ASSUME NEW q \in Live \ {r}, Quiet(q)' PROVE Fine(q)'
  <2>1. q \in Ranges \ {r} /\ q \in shared /\ q \in shared'
    BY <1>5, OthersAreShared DEF Live, CompleteInv
  <2>2. \A k \in Loops : loop'[k].over = q => loop'[k] = loop[k] /\ seen'[k] = seen[k]
    BY <2>1, IteratorsAssumption
  <2>3. SameCursor(session, session', q) /\ loops'[q] = loops[q] /\ range'[q] = range[q]
    BY <1>1, <1>2, <2>1
  <2>. QED BY <1>1, <1>5, <2>1, <2>2, <2>3, FineKept
<1>6. FineInv'
  BY <1>5 DEF FineInv
<1>. QED BY <1>3, <1>4, <1>6 DEF CompleteInv

\* A range or a loop goes, and others still hold the cursor.
LEMMA OneHolderLess ==
  ASSUME CompleteInv, Live' = Live, UNCHANGED <<session, loops, shared, count, trans>>,
         \A q \in Ranges : range'[q].state = "alive" => range'[q] = range[q],
         \A k \in Loops : loop'[k].over = None \/ (loop'[k] = loop[k] /\ seen'[k] = seen[k])
  PROVE  CompleteInv'
<1>1. AloneInv'
  BY AloneStays DEF CompleteInv
<1>2. HeldInv'
  BY DEF CompleteInv, HeldInv
<1>3. ASSUME NEW q \in Live, Quiet(q)' PROVE Fine(q)'
  <2>1. q \in Ranges /\ session'.conn.backend = Backend
    BY DEF Live, Backend
  <2>2. \A k \in Loops : loop'[k].over = q => loop'[k] = loop[k] /\ seen'[k] = seen[k]
    BY <2>1, IteratorsAssumption
  <2>. QED BY <1>3, <2>1, <2>2, FineKept
<1>4. FineInv'
  BY <1>3 DEF FineInv
<1>. QED BY <1>1, <1>2, <1>4 DEF CompleteInv

LEMMA FineLeft ==
  ASSUME Types, CompleteInv, NEW l \in Loops, LeaveLoop(l) PROVE CompleteInv'
<1>0. UNCHANGED <<count, range, trans>>
  BY DEF LeaveLoop
<1>1. PICK r : r = loop[l].over
  OBVIOUS
<1>2. /\ r \in Ranges /\ r \in Live
      /\ loop' = [loop EXCEPT ![l] = NoLoop] /\ seen' = [seen EXCEPT ![l] = <<>>]
      /\ \/ /\ GivesUp(r) /\ Live' = Live \ {r} /\ range[r].state = "none"
            /\ \A k \in Loops : loop[k].over = r => k = l
            /\ loops' = [loops EXCEPT ![r] = 0] /\ shared' = shared \ {r}
         \/ Live' = Live /\ UNCHANGED <<session, loops, shared>>
  BY <1>1, Leaves
<1>3. loop'[l].over = None /\ \A k \in Loops \ {l} : loop'[k] = loop[k] /\ seen'[k] = seen[k]
  BY <1>2 DEF Types, NoLoop
<1>4. CASE Live' = Live /\ UNCHANGED <<session, loops, shared>>
  BY <1>0, <1>3, <1>4, OneHolderLess
<1>5. CASE /\ GivesUp(r) /\ Live' = Live \ {r}
           /\ \A k \in Loops : loop[k].over = r => k = l
           /\ loops' = [loops EXCEPT ![r] = 0] /\ shared' = shared \ {r}
  BY <1>0, <1>2, <1>3, <1>5, GivenUpFine
<1>. QED BY <1>2, <1>4, <1>5

LEMMA FineDropped ==
  ASSUME Types, CompleteInv, NEW r \in Ranges, DropRange(r) PROVE CompleteInv'
<1>0. UNCHANGED <<count, loop, trans, seen>>
  BY DEF DropRange
<1>1. /\ r \in Live /\ range' = [range EXCEPT ![r] = NoRange]
      /\ \/ /\ GivesUp(r) /\ Live' = Live \ {r}
            /\ \A k \in Loops : loop[k].over # r
            /\ loops' = [loops EXCEPT ![r] = 0] /\ shared' = shared \ {r}
         \/ Live' = Live /\ UNCHANGED <<session, loops, shared>>
  BY Drops
<1>2. range'[r].state # "alive" /\ \A q \in Ranges \ {r} : range'[q] = range[q]
  BY <1>1 DEF Types, NoRange
<1>3. CASE Live' = Live /\ UNCHANGED <<session, loops, shared>>
  BY <1>0, <1>2, <1>3, OneHolderLess
<1>4. CASE /\ GivesUp(r) /\ Live' = Live \ {r} /\ \A k \in Loops : loop[k].over # r
           /\ loops' = [loops EXCEPT ![r] = 0] /\ shared' = shared \ {r}
  BY <1>0, <1>1, <1>2, <1>4, GivenUpFine
<1>. QED BY <1>1, <1>3, <1>4

LEMMA FineCalled ==
  ASSUME Types, CompleteInv, ServerCalled, session'.conn.backend = Backend PROVE CompleteInv'
<1>1. /\ \A q \in Ranges : SameCursor(session, session', q)
      /\ shared' = shared \cup Live /\ Live' = Live /\ UNCHANGED <<count, range, loop, seen, loops>>
  BY DEF ServerCalled
<1>2. AloneInv' /\ HeldInv'
  BY <1>1 DEF CompleteInv, AloneInv, HeldInv
<1>3. ASSUME NEW q \in Live, Quiet(q)' PROVE Fine(q)'
  <2>1. q \in Ranges /\ q \in shared'
    BY <1>1 DEF Live
  <2>. QED BY <1>1, <1>3, <2>1, FineKept
<1>4. FineInv'
  BY <1>1, <1>3 DEF FineInv
<1>. QED BY <1>2, <1>4 DEF CompleteInv

LEMMA CompleteInit == Init => CompleteInv
<1> SUFFICES ASSUME Init PROVE CompleteInv
  OBVIOUS
<1>1. Live = {} /\ \A l \in Loops : loop[l].over = None
  BY IteratorsAssumption DEF Init, Live, Holders, NoRange, NoLoop
<1>. QED BY <1>1 DEF CompleteInv, AloneInv, HeldInv, FineInv

LEMMA CompleteSteps == ConnectionInv /\ RowsInv /\ CompleteInv /\ [Next]_vars => CompleteInv'
<1> SUFFICES ASSUME ConnectionInv, RowsInv, CompleteInv, [Next]_vars PROVE CompleteInv'
  OBVIOUS
<1>0. Types
  BY DEF ConnectionInv
<1>1. ASSUME NEW r \in Ranges, Read(r) \/ DropRange(r) PROVE CompleteInv'
  BY <1>0, <1>1, FineRead, FineDropped
<1>2. ASSUME NEW l \in Loops, (\E r \in Ranges : BeginLoop(l, r)) \/ Advance(l) \/ LeaveLoop(l) PROVE CompleteInv'
  BY <1>0, <1>2, FineBegun, FineAdvanced, FineLeft
<1>3. CASE BeginTransaction \/ (\E m \in Marks : Insert(m)) \/ Commit \/ Rollback
  BY <1>0, <1>3, TransactionCalls, FineCalled
<1>4. CASE UNCHANGED vars
  <2>1. Live' = Live
    BY <1>4 DEF Live, Holders, vars
  <2>. QED BY <1>4, <2>1, OneHolderLess DEF vars
<1>. QED BY <1>1, <1>2, <1>3, <1>4 DEF Next

LEMMA CompleteAlways == Spec => []CompleteInv
<1>1. ConnectionInv /\ RowsInv /\ CompleteInv /\ [Next]_vars => CompleteInv'
  BY CompleteSteps
<1>. QED BY <1>1, CompleteInit, ConnectionAlways, RowsAlways, PTL DEF Spec

\* The only loop over a range that nothing disturbed and no failure reached has
\* had every row of the answer when it compares equal to the end, for any number
\* of rows and any batch size (the iterators of the four backends under
\* sqlgen::Iterator and duckdb::Iterator).
THEOREM ReadsAreComplete == Spec => []Complete
<1>1. ConnectionInv /\ CompleteInv => Complete
  <2> SUFFICES ASSUME ConnectionInv, CompleteInv, NEW l \in Loops, AtEnd(l), loops[loop[l].over] = 1,
                      ~session.cur[loop[l].over].lost, session.cur[loop[l].over].typed,
                      Backend \in {"sqlite", "duckdb"} \/ loop[l].over \notin shared
               PROVE  Rows(l) = 1 .. count
    BY DEF Complete
  <2> DEFINE r == loop[l].over
  <2>1. r \in Ranges /\ loop[l].state = "over"
    BY DEF ConnectionInv, Types, AtEnd
  <2>2. r \in Live /\ Quiet(r)
    BY <2>1 DEF Live, Holders, Quiet, Alone
  <2>3. Fine(r)
    BY <2>2 DEF CompleteInv, FineInv
  <2>4. AllGiven(loop[l], seen[l], session.cur[r].at, count)
    BY <2>3 DEF Fine
  <2>. QED BY <2>1, <2>4 DEF AllGiven, Rows, Given0
<1>. QED BY <1>1, ConnectionAlways, CompleteAlways, PTL


=============================================================================
