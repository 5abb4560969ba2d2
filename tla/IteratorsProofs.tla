--------------------------- MODULE IteratorsProofs ---------------------------
(***************************************************************************)
(* What the iterators of the four backends promise to those who use them:  *)
(* what opening, fetching and closing do to the cursor, to the other       *)
(* cursors of the session and to its connection.                           *)
(***************************************************************************)
EXTENDS Iterators, ConnectionProofs

CursorsOf(n) == [end : BOOLEAN, at : 0 .. n, server : BOOLEAN, typed : BOOLEAN, lost : BOOLEAN]

Sessions(R, n) ==
  [conn : Connections(R), cur : [Ranges -> CursorsOf(n)], unread : Ranges \cup {None}, stale : BOOLEAN]

Batches(n) == [from : 0 .. n, size : 0 .. BatchSize, bad : BOOLEAN]

-----------------------------------------------------------------------------
(* Sessions, field by field.                                               *)

\* The session t differs from s in the cursor of r only, which is then d.
OnlyCursor(s, t, r, d) ==
  /\ t.conn = s.conn /\ t.unread = s.unread /\ t.stale = s.stale
  /\ t.cur[r] = d /\ \A q \in Ranges \ {r} : t.cur[q] = s.cur[q]

\* Setting the cursor of a range, which most of the operators do.
LEMMA CursorSet ==
  ASSUME NEW R, NEW n \in Nat, NEW s \in Sessions(R, n), NEW r \in Ranges, NEW d \in CursorsOf(n),
         NEW t, t = [s EXCEPT !.cur[r] = d]
  PROVE  t \in Sessions(R, n) /\ OnlyCursor(s, t, r, d)
BY DEF Sessions, OnlyCursor

LEMMA CursorMoved ==
  ASSUME NEW R, NEW n \in Nat, NEW s \in Sessions(R, n), NEW r \in Ranges, NEW k \in Nat, s.cur[r].at + k <= n
  PROVE  /\ Moved(s, r, k) \in Sessions(R, n)
         /\ OnlyCursor(s, Moved(s, r, k), r, [s.cur[r] EXCEPT !.at = s.cur[r].at + k])
<1> DEFINE d == [s.cur[r] EXCEPT !.at = s.cur[r].at + k]
<1>1. s.cur[r] \in CursorsOf(n)
  BY DEF Sessions
<1>2. d \in CursorsOf(n)
  BY <1>1 DEF CursorsOf
<1>3. Moved(s, r, k) = [s EXCEPT !.cur[r] = d]
  BY DEF Moved
<1>. HIDE DEF d
<1>. QED BY <1>2, <1>3, CursorSet DEF d

LEMMA CursorEnded ==
  ASSUME NEW R, NEW n \in Nat, NEW s \in Sessions(R, n), NEW r \in Ranges
  PROVE  /\ Ended(s, r) \in Sessions(R, n)
         /\ OnlyCursor(s, Ended(s, r), r, [s.cur[r] EXCEPT !.end = TRUE])
<1> DEFINE d == [s.cur[r] EXCEPT !.end = TRUE]
<1>1. d \in CursorsOf(n)
  BY DEF Sessions, CursorsOf
<1>2. Ended(s, r) = [s EXCEPT !.cur[r] = d]
  BY DEF Ended
<1>. HIDE DEF d
<1>. QED BY <1>1, <1>2, CursorSet DEF d

LEMMA CursorLost ==
  ASSUME NEW R, NEW n \in Nat, NEW s \in Sessions(R, n), NEW r \in Ranges
  PROVE  /\ Lost(s, r) \in Sessions(R, n)
         /\ OnlyCursor(s, Lost(s, r), r, [s.cur[r] EXCEPT !.lost = TRUE])
<1> DEFINE d == [s.cur[r] EXCEPT !.lost = TRUE]
<1>1. d \in CursorsOf(n)
  BY DEF Sessions, CursorsOf
<1>2. Lost(s, r) = [s EXCEPT !.cur[r] = d]
  BY DEF Lost
<1>. HIDE DEF d
<1>. QED BY <1>1, <1>2, CursorSet DEF d

\* The fields of a cursor, and of one with a field set.
LEMMA CursorFields ==
  ASSUME NEW n \in Nat, NEW d \in CursorsOf(n)
  PROVE  /\ d.end \in BOOLEAN /\ d.at \in 0 .. n /\ d.server \in BOOLEAN /\ d.typed \in BOOLEAN /\ d.lost \in BOOLEAN
         /\ LET e == [d EXCEPT !.end = TRUE] IN
              e.end = TRUE /\ e.at = d.at /\ e.server = d.server /\ e.typed = d.typed /\ e.lost = d.lost
         /\ LET e == [d EXCEPT !.lost = TRUE] IN
              e.end = d.end /\ e.at = d.at /\ e.server = d.server /\ e.typed = d.typed /\ e.lost = TRUE
         /\ LET e == [d EXCEPT !.server = FALSE] IN
              e.end = d.end /\ e.at = d.at /\ e.server = FALSE /\ e.typed = d.typed /\ e.lost = d.lost
         /\ \A k \in 0 .. n : LET e == [d EXCEPT !.at = k] IN
              e.end = d.end /\ e.at = k /\ e.server = d.server /\ e.typed = d.typed /\ e.lost = d.lost
BY DEF CursorsOf

LEMMA NewCursorFields ==
  ASSUME NEW n \in Nat
  PROVE  /\ NewCursor \in CursorsOf(n)
         /\ NewCursor.end = FALSE /\ NewCursor.at = 0 /\ NewCursor.server = TRUE
         /\ NewCursor.typed = TRUE /\ NewCursor.lost = FALSE
BY DEF NewCursor, CursorsOf

LEMMA SessionFields ==
  ASSUME NEW R, NEW n \in Nat, NEW s \in Sessions(R, n)
  PROVE  /\ s.conn \in Connections(R) /\ s.unread \in Ranges \cup {None} /\ s.stale \in BOOLEAN
         /\ \A q \in Ranges : s.cur[q] \in CursorsOf(n)
         /\ \A c \in Connections(R) : LET t == [s EXCEPT !.conn = c] IN
              /\ t \in Sessions(R, n)
              /\ t.conn = c /\ t.cur = s.cur /\ t.unread = s.unread /\ t.stale = s.stale
         /\ \A u \in Ranges \cup {None} : LET t == [s EXCEPT !.unread = u] IN
              /\ t \in Sessions(R, n)
              /\ t.conn = s.conn /\ t.cur = s.cur /\ t.unread = u /\ t.stale = s.stale
         /\ \A b \in BOOLEAN : LET t == [s EXCEPT !.stale = b] IN
              /\ t \in Sessions(R, n)
              /\ t.conn = s.conn /\ t.cur = s.cur /\ t.unread = s.unread /\ t.stale = b
BY DEF Sessions

\* A cursor that is gone from the server keeps the rest.
LEMMA OffServer ==
  ASSUME NEW R, NEW n \in Nat, NEW s \in Sessions(R, n), NEW t \in Sessions(R, n),
         \A q \in Ranges : t.cur[q] = s.cur[q] \/ t.cur[q] = [s.cur[q] EXCEPT !.server = FALSE]
  PROVE  \A q \in Ranges : /\ t.cur[q] \in CursorsOf(n)
                           /\ t.cur[q].end = s.cur[q].end /\ t.cur[q].at = s.cur[q].at
                           /\ t.cur[q].typed = s.cur[q].typed /\ t.cur[q].lost = s.cur[q].lost
                           /\ t.cur[q].server => s.cur[q].server
<1> SUFFICES ASSUME NEW q \in Ranges
             PROVE  /\ t.cur[q] \in CursorsOf(n)
                    /\ t.cur[q].end = s.cur[q].end /\ t.cur[q].at = s.cur[q].at
                    /\ t.cur[q].typed = s.cur[q].typed /\ t.cur[q].lost = s.cur[q].lost
                    /\ t.cur[q].server => s.cur[q].server
  OBVIOUS
<1>1. s.cur[q] \in CursorsOf(n) /\ t.cur[q] \in CursorsOf(n)
  BY SessionFields
<1>2. CASE t.cur[q] = s.cur[q]
  BY <1>1, <1>2
<1>3. CASE t.cur[q] = [s.cur[q] EXCEPT !.server = FALSE]
  BY <1>1, <1>3, CursorFields
<1>. QED BY <1>2, <1>3

\* Batches and what is got.
LEMMA GotFields ==
  ASSUME NEW s, NEW b
  PROVE  Got(s, b).session = s /\ Got(s, b).batch = b
BY DEF Got

LEMMA BatchFields ==
  ASSUME NEW f, NEW k
  PROVE  Batch(f, k).from = f /\ Batch(f, k).size = k /\ Batch(f, k).bad = FALSE
BY DEF Batch

LEMMA SpecialBatches ==
  /\ NoRows.from = 0 /\ NoRows.size = 0 /\ NoRows.bad = FALSE
  /\ OneError.from = 0 /\ OneError.size = 1 /\ OneError.bad = TRUE
BY DEF Batch, NoRows, OneError

LEMMA TakeFields ==
  ASSUME NEW R, NEW n \in Nat, NEW s \in Sessions(R, n), NEW r \in Ranges
  PROVE  /\ Left(s, r, n) \in 0 .. n /\ Left(s, r, n) = n - s.cur[r].at
         /\ Take(s, r, n) \in 0 .. BatchSize /\ Take(s, r, n) <= Left(s, r, n)
         /\ Take(s, r, n) = BatchSize \/ Take(s, r, n) = Left(s, r, n)
         /\ s.cur[r].at \in 0 .. n /\ s.cur[r].at + Take(s, r, n) <= n
<1> DEFINE k == Left(s, r, n)
           m == Min({BatchSize, k})
<1>1. s.cur[r].at \in 0 .. n
  BY DEF Sessions, CursorsOf
<1>2. k \in 0 .. n /\ k = n - s.cur[r].at
  BY <1>1 DEF Left
<1>. HIDE DEF k
<1>3. BatchSize \in Nat /\ BatchSize > 0
  BY IteratorsAssumption
<1>4. \E x \in {BatchSize, k} : \A y \in {BatchSize, k} : x =< y
  BY <1>2, <1>3
<1>5. m \in {BatchSize, k} /\ \A y \in {BatchSize, k} : m =< y
  BY <1>4 DEF Min
<1>6. m = Take(s, r, n)
  BY DEF Take, k
<1>. HIDE DEF m
<1>. QED BY <1>1, <1>2, <1>3, <1>5, <1>6 DEF k

\* PostgreSQL drops the cursors of a transaction that is over.
LEMMA WithFields ==
  ASSUME NEW R, NEW n \in Nat, NEW s \in Sessions(R, n), NEW c \in Connections(R)
  PROVE  /\ With(s, c) \in Sessions(R, n)
         /\ With(s, c).conn = c /\ With(s, c).unread = s.unread /\ With(s, c).stale = s.stale
         /\ \A q \in Ranges : /\ With(s, c).cur[q] = s.cur[q]
                                 \/ With(s, c).cur[q] = [s.cur[q] EXCEPT !.server = FALSE]
                              /\ c.tx = "open" => With(s, c).cur[q] = s.cur[q]
<1> DEFINE t == [s EXCEPT !.conn = c]
<1>1. t \in Sessions(R, n) /\ t.conn = c /\ t.cur = s.cur /\ t.unread = s.unread /\ t.stale = s.stale
  BY SessionFields
<1>2. With(s, c) = IF c.tx = "open" THEN t
                   ELSE [t EXCEPT !.cur = [q \in Ranges |-> [t.cur[q] EXCEPT !.server = FALSE]]]
  BY <1>1 DEF With, Cursors
<1>. HIDE DEF t
<1>3. ASSUME NEW q \in Ranges PROVE [t.cur[q] EXCEPT !.server = FALSE] \in CursorsOf(n)
  <2>1. t.cur[q] \in CursorsOf(n)
    BY <1>1, SessionFields
  <2>. QED BY <2>1 DEF CursorsOf
<1>4. CASE c.tx # "open"
  <2> DEFINE f == [q \in Ranges |-> [t.cur[q] EXCEPT !.server = FALSE]]
  <2>1. f \in [Ranges -> CursorsOf(n)] /\ \A q \in Ranges : f[q] = [s.cur[q] EXCEPT !.server = FALSE]
    BY <1>1, <1>3
  <2>2. With(s, c) = [t EXCEPT !.cur = f]
    BY <1>2, <1>4
  <2>. HIDE DEF f
  <2>3. With(s, c) \in Sessions(R, n) /\ With(s, c).conn = c /\ With(s, c).unread = s.unread
        /\ With(s, c).stale = s.stale /\ With(s, c).cur = f
    BY <1>1, <2>1, <2>2 DEF Sessions
  <2>. QED BY <1>4, <2>1, <2>3
<1>. QED BY <1>1, <1>2, <1>4

-----------------------------------------------------------------------------
(* What using one range does to the rest of the session.                   *)

\* A call on the connection lets other ranges keep all but their place on the
\* server, and that only PostgreSQL takes away.
SameCursor(s, t, q) ==
  /\ t.cur[q].end = s.cur[q].end /\ t.cur[q].at = s.cur[q].at
  /\ t.cur[q].typed = s.cur[q].typed /\ t.cur[q].lost = s.cur[q].lost
  /\ t.cur[q].server => s.cur[q].server
  /\ s.conn.backend # "postgres" => t.cur[q].server = s.cur[q].server

\* Reading stores nothing, and commits what was written only if there is some.
ReadOnly(c, d) ==
  /\ d.backend = c.backend
  /\ Sane(c) /\ ~c.stmt => Sane(d) /\ ~d.stmt
  /\ c.view = c.db => d.view = c.db /\ d.db = c.db

\* Fetching for r, or closing it, begins no transaction; on PostgreSQL a range
\* that comes to its end leaves none open.
Served(s, t, r) ==
  /\ \A q \in Ranges \ {r} : SameCursor(s, t, q)
  /\ t.unread = s.unread \/ t.unread = None
  /\ s.conn.backend # "postgres" => t.conn = s.conn
  /\ s.conn.backend # "mysql" => t.unread = s.unread
  /\ ReadOnly(s.conn, t.conn)
  /\ t.conn.tx = "open" => s.conn.tx = "open"
  /\ s.conn.backend = "postgres" /\ t.conn.tx = "open" => t.cur[r].end = s.cur[r].end

\* The cursor of r has all it needs to go on to the last of the n rows.
Sound(s, r, n) ==
  /\ s.conn.backend = "postgres" => (s.cur[r].server /\ s.conn.tx = "open") \/ s.cur[r].end
  /\ s.conn.backend = "mysql" => ~s.stale
  /\ s.conn.backend = "duckdb" => s.cur[r].server
  /\ s.cur[r].end => s.cur[r].at = n

\* A batch is empty, an error, or the rows behind the cursor, which moves over
\* them; without a failure it leaves out no row and is empty only at the end.
FetchedRows(s, r, n, g) ==
  LET c == s.cur[r]
      d == g.session.cur[r]
      b == g.batch
  IN /\ c.at <= d.at /\ d.typed = c.typed
     /\ c.end => d.end
     /\ c.lost => d.lost
     /\ d.server => c.server
     /\ \/ b = NoRows
        \/ b = OneError /\ (d.server => d.at >= c.at + 1)
        \/ \E k \in 0 .. BatchSize : b = Batch(c.at, k) /\ c.at + k <= d.at
     /\ Sound(s, r, n) /\ ~d.lost /\ d.typed =>
          Sound(g.session, r, n) /\ ~b.bad /\ d.at = c.at + b.size /\ (b.size = 0 => d.at = n)

Fetched(R, s, r, n, g) ==
  g.session \in Sessions(R, n) /\ Served(s, g.session, r) /\ FetchedRows(s, r, n, g)

\* What changes a cursor only is no concern of the rest.
LEMMA OnlyServed ==
  ASSUME NEW R, NEW n \in Nat, NEW s \in Sessions(R, n), NEW t, NEW r \in Ranges, NEW d,
         OnlyCursor(s, t, r, d), s.conn.backend # "postgres"
  PROVE  Served(s, t, r)
BY DEF OnlyCursor, Served, SameCursor, ReadOnly, Sane

\* The next k rows are what is promised.
LEMMA RowsFetched ==
  ASSUME NEW n \in Nat, NEW s, NEW r, NEW g, NEW k \in 0 .. BatchSize,
         s.cur[r].at \in 0 .. n, g.batch = Batch(s.cur[r].at, k),
         g.session.cur[r].at = s.cur[r].at + k, g.session.cur[r].typed = s.cur[r].typed,
         s.cur[r].end => g.session.cur[r].end,
         s.cur[r].lost => g.session.cur[r].lost,
         g.session.cur[r].server => s.cur[r].server,
         Sound(s, r, n) /\ ~g.session.cur[r].lost /\ g.session.cur[r].typed =>
           Sound(g.session, r, n) /\ (k = 0 => s.cur[r].at = n)
  PROVE  FetchedRows(s, r, n, g)
<1>1. g.batch.bad = FALSE /\ g.batch.size = k
  BY DEF Batch
<1>2. \E j \in 0 .. BatchSize : g.batch = Batch(s.cur[r].at, j) /\ s.cur[r].at + j <= g.session.cur[r].at
  BY IteratorsAssumption
<1>3. k \in Nat /\ s.cur[r].at \in Nat
  BY IteratorsAssumption
<1>. QED BY <1>1, <1>2, <1>3 DEF FetchedRows

-----------------------------------------------------------------------------
(* SQLite.                                                                 *)

\* A step finds a row, or takes an end or a failure for the end.
LEMMA SqliteSteps ==
  ASSUME NEW R, NEW n \in Nat, NEW s \in Sessions(R, n), NEW r \in Ranges, NEW t \in SqliteStep(s, r, n)
  PROVE  /\ t \in Sessions(R, n) /\ OnlyCursor(s, t, r, t.cur[r])
         /\ t.cur[r].at = s.cur[r].at /\ t.cur[r].server = s.cur[r].server /\ t.cur[r].typed = s.cur[r].typed
         /\ s.cur[r].end => t.cur[r].end
         /\ s.cur[r].lost => t.cur[r].lost
         /\ t.cur[r].lost \/ s.cur[r].end \/ (t.cur[r].end <=> s.cur[r].at = n)
<1>0. s.cur[r] \in CursorsOf(n) /\ s.cur[r].at \in 0 .. n /\ Left(s, r, n) = n - s.cur[r].at
  BY SessionFields, TakeFields
<1>1. CASE t = Ended(s, r) /\ Left(s, r, n) = 0
  <2>1. t \in Sessions(R, n) /\ OnlyCursor(s, t, r, [s.cur[r] EXCEPT !.end = TRUE])
    BY <1>1, CursorEnded
  <2>2. t.cur[r] = [s.cur[r] EXCEPT !.end = TRUE] /\ OnlyCursor(s, t, r, t.cur[r])
    BY <2>1 DEF OnlyCursor
  <2>3. /\ t.cur[r].end = TRUE /\ t.cur[r].at = s.cur[r].at /\ t.cur[r].server = s.cur[r].server
        /\ t.cur[r].typed = s.cur[r].typed /\ t.cur[r].lost = s.cur[r].lost
    BY <1>0, <2>2, CursorFields
  <2>. QED BY <1>0, <1>1, <2>1, <2>2, <2>3
<1>2. CASE t = s /\ Left(s, r, n) # 0
  BY <1>0, <1>2 DEF OnlyCursor
<1>3. CASE t = Ended(Lost(s, r), r)
  <2>1. Lost(s, r) \in Sessions(R, n) /\ OnlyCursor(s, Lost(s, r), r, [s.cur[r] EXCEPT !.lost = TRUE])
    BY CursorLost
  <2>2. t \in Sessions(R, n) /\ OnlyCursor(Lost(s, r), t, r, [Lost(s, r).cur[r] EXCEPT !.end = TRUE])
    BY <1>3, <2>1, CursorEnded
  <2>3. t.cur[r] = [[s.cur[r] EXCEPT !.lost = TRUE] EXCEPT !.end = TRUE] /\ OnlyCursor(s, t, r, t.cur[r])
    BY <2>1, <2>2 DEF OnlyCursor
  <2>4. /\ t.cur[r].at = s.cur[r].at /\ t.cur[r].server = s.cur[r].server /\ t.cur[r].typed = s.cur[r].typed
        /\ t.cur[r].end = TRUE /\ t.cur[r].lost = TRUE
    BY <1>0, <2>3 DEF CursorsOf
  <2>. QED BY <2>2, <2>3, <2>4
<1>. QED BY <1>1, <1>2, <1>3 DEF SqliteStep

LEMMA SqliteFetches ==
  ASSUME NEW R, NEW n \in Nat, NEW s \in Sessions(R, n), NEW r \in Ranges, s.conn.backend = "sqlite",
         NEW g \in SqliteNext(s, r, n)
  PROVE  Fetched(R, s, r, n, g)
<1>0. s.cur[r] \in CursorsOf(n) /\ s.cur[r].at \in 0 .. n
  BY SessionFields, TakeFields
<1>1. CASE s.cur[r].end
  <2>1. g.session = s /\ g.batch = NoRows
    BY <1>1, GotFields DEF SqliteNext
  <2>2. OnlyCursor(s, s, r, s.cur[r])
    BY DEF OnlyCursor
  <2>3. Served(s, g.session, r)
    BY <2>1, <2>2, OnlyServed
  <2>. QED BY <1>0, <1>1, <2>1, <2>3, SpecialBatches DEF Fetched, FetchedRows, Sound
<1>2. CASE ~s.cur[r].end
  <2>0. PICK k \in 1 .. Take(s, r, n) :
          \E t \in SqliteStep(Moved(s, r, k), r, n) : g = Got(t, Batch(s.cur[r].at, k))
    BY <1>2 DEF SqliteNext
  <2>1. PICK t \in SqliteStep(Moved(s, r, k), r, n) : g = Got(t, Batch(s.cur[r].at, k))
    BY <2>0
  <2>2. k \in 1 .. BatchSize /\ s.cur[r].at + k \in 0 .. n
    <3>1. Take(s, r, n) \in 0 .. BatchSize /\ s.cur[r].at + Take(s, r, n) <= n
      BY TakeFields
    <3>. QED BY <1>0, <3>1, IteratorsAssumption
  <2>3. /\ Moved(s, r, k) \in Sessions(R, n)
        /\ OnlyCursor(s, Moved(s, r, k), r, [s.cur[r] EXCEPT !.at = s.cur[r].at + k])
    BY <2>2, CursorMoved
  <2>4. LET e == Moved(s, r, k).cur[r] IN
          /\ e.at = s.cur[r].at + k /\ e.server = s.cur[r].server /\ e.typed = s.cur[r].typed
          /\ e.end = FALSE /\ e.lost = s.cur[r].lost
    <3>1. Moved(s, r, k).cur[r] = [s.cur[r] EXCEPT !.at = s.cur[r].at + k]
      BY <2>3 DEF OnlyCursor
    <3>. QED BY <1>0, <1>2, <2>2, <3>1, CursorFields
  <2>5. /\ t \in Sessions(R, n) /\ OnlyCursor(Moved(s, r, k), t, r, t.cur[r])
        /\ t.cur[r].at = s.cur[r].at + k /\ t.cur[r].server = s.cur[r].server /\ t.cur[r].typed = s.cur[r].typed
        /\ s.cur[r].lost => t.cur[r].lost
        /\ t.cur[r].lost \/ (t.cur[r].end <=> s.cur[r].at + k = n)
    BY <2>1, <2>3, <2>4, SqliteSteps
  <2>6. OnlyCursor(s, t, r, t.cur[r])
    BY <2>3, <2>5 DEF OnlyCursor
  <2>7. Served(s, t, r) /\ t.conn.backend = "sqlite"
    BY <2>6, OnlyServed DEF OnlyCursor
  <2>8. g.session = t /\ g.batch = Batch(s.cur[r].at, k) /\ g.batch.size = k /\ g.batch.bad = FALSE
    <3>1. g.session = t /\ g.batch = Batch(s.cur[r].at, k)
      BY <2>1, GotFields
    <3>. QED BY <3>1, <2>2 DEF Batch
  <2>. QED BY <1>0, <1>2, <2>2, <2>5, <2>7, <2>8 DEF Fetched, FetchedRows, Sound
<1>. QED BY <1>1, <1>2

-----------------------------------------------------------------------------
(* DuckDB.                                                                 *)

LEMMA DuckdbFetches ==
  ASSUME NEW R, NEW n \in Nat, NEW s \in Sessions(R, n), NEW r \in Ranges, s.conn.backend = "duckdb",
         NEW g \in DuckdbNext(s, r, n)
  PROVE  Fetched(R, s, r, n, g)
<1> DEFINE k == Take(s, r, n)
<1>0. /\ s.cur[r] \in CursorsOf(n) /\ s.cur[r].at \in 0 .. n /\ k \in 0 .. BatchSize /\ s.cur[r].at + k <= n
      /\ k = 0 => s.cur[r].at = n
  <2>1. s.cur[r] \in CursorsOf(n)
    BY SessionFields
  <2>. QED BY <2>1, TakeFields, IteratorsAssumption
<1>1. CASE /\ g.session = s
           /\ \/ g.batch = OneError /\ ~s.cur[r].server
              \/ g.batch = NoRows /\ k = 0 /\ s.cur[r].server
  <2>1. OnlyCursor(s, s, r, s.cur[r])
    BY DEF OnlyCursor
  <2>2. Served(s, g.session, r)
    BY <1>1, <2>1, OnlyServed
  <2>. HIDE DEF k
  <2>. QED BY <1>0, <1>1, <2>2, SpecialBatches DEF Fetched, FetchedRows, Sound
<1>2. CASE /\ k # 0 /\ s.cur[r].server /\ g.session = Moved(s, r, k)
           /\ g.batch = IF s.cur[r].typed THEN Batch(s.cur[r].at, k) ELSE OneError
  <2>. DEFINE t == Moved(s, r, k)
  <2>. HIDE DEF k
  <2>1. k \in Nat
    BY <1>0
  <2>2. t \in Sessions(R, n) /\ OnlyCursor(s, t, r, [s.cur[r] EXCEPT !.at = s.cur[r].at + k])
    BY <1>0, <2>1, CursorMoved
  <2>. HIDE DEF t
  <2>3. Served(s, t, r) /\ t.cur[r] = [s.cur[r] EXCEPT !.at = s.cur[r].at + k] /\ t.conn = s.conn
    BY <2>2, OnlyServed DEF OnlyCursor
  <2>4. s.cur[r].at + k \in 0 .. n
    BY <1>0, <2>1
  <2>5. /\ t.cur[r].end = s.cur[r].end /\ t.cur[r].at = s.cur[r].at + k /\ t.cur[r].server = s.cur[r].server
        /\ t.cur[r].typed = s.cur[r].typed /\ t.cur[r].lost = s.cur[r].lost
    BY <1>0, <2>3, <2>4, CursorFields
  <2>6. Batch(s.cur[r].at, k).size = k /\ Batch(s.cur[r].at, k).bad = FALSE
    BY DEF Batch
  <2>7. g.session = t
    BY <1>2 DEF t
  <2>8. /\ s.cur[r].typed => g.batch = Batch(s.cur[r].at, k)
        /\ ~s.cur[r].typed => g.batch = OneError
    BY <1>2
  <2>9. FetchedRows(s, r, n, g)
    <3>1. Sound(s, r, n) => Sound(t, r, n)
      <4>1. s.cur[r].end /\ s.cur[r].at = n => k = 0
        BY <1>0, <2>1
      <4>. QED BY <1>2, <2>3, <2>5, <4>1 DEF Sound
    <3>2. CASE s.cur[r].typed
      BY <1>0, <1>2, <2>5, <2>7, <2>8, <3>1, <3>2, RowsFetched
    <3>3. CASE ~s.cur[r].typed
      BY <1>0, <1>2, <2>1, <2>5, <2>7, <2>8, <3>3 DEF FetchedRows
    <3>. QED BY <3>2, <3>3
  <2>. QED BY <2>2, <2>3, <2>7, <2>9 DEF Fetched
<1>3. \/ g = Got(s, OneError) /\ ~s.cur[r].server
      \/ g = Got(s, NoRows) /\ k = 0 /\ s.cur[r].server
      \/ /\ k # 0 /\ s.cur[r].server
         /\ g = Got(Moved(s, r, k), IF s.cur[r].typed THEN Batch(s.cur[r].at, k) ELSE OneError)
  BY DEF DuckdbNext
<1>. HIDE DEF k
<1>4. ASSUME NEW b, g = Got(s, b) PROVE g.session = s /\ g.batch = b
  BY <1>4, GotFields
<1>5. ASSUME NEW b, g = Got(Moved(s, r, k), b) PROVE g.session = Moved(s, r, k) /\ g.batch = b
  BY <1>5, GotFields
<1>6. CASE g = Got(s, OneError) /\ ~s.cur[r].server
  <2>1. g.session = s /\ g.batch = OneError
    BY <1>4, <1>6
  <2>. QED BY <1>1, <1>6, <2>1
<1>7. CASE g = Got(s, NoRows) /\ k = 0 /\ s.cur[r].server
  BY <1>1, <1>4, <1>7
<1>8. CASE /\ k # 0 /\ s.cur[r].server
           /\ g = Got(Moved(s, r, k), IF s.cur[r].typed THEN Batch(s.cur[r].at, k) ELSE OneError)
  BY <1>2, <1>5, <1>8
<1>. QED BY <1>3, <1>6, <1>7, <1>8

-----------------------------------------------------------------------------
(* MySQL.                                                                  *)

\* The result of r is no longer unread.
LEMMA DoneFields ==
  ASSUME NEW R, NEW n \in Nat, NEW s \in Sessions(R, n), NEW r \in Ranges
  PROVE  LET t == MysqlDone(s, r) IN
           /\ t \in Sessions(R, n) /\ t.conn = s.conn /\ t.cur = s.cur /\ t.stale = s.stale
           /\ t.unread # r /\ (t.unread = s.unread \/ t.unread = None)
<1>1. CASE s.unread = r
  <2>1. MysqlDone(s, r) = [s EXCEPT !.unread = None]
    BY <1>1 DEF MysqlDone
  <2>. QED BY <2>1, SessionFields, IteratorsAssumption
<1>2. CASE s.unread # r
  BY <1>2 DEF MysqlDone
<1>. QED BY <1>1, <1>2

\* Only the cursor of r, the unread result and the memory of a refusal change.
LEMMA MysqlServed ==
  ASSUME NEW R, NEW n \in Nat, NEW s \in Sessions(R, n), NEW t, NEW r \in Ranges, s.conn.backend = "mysql",
         t.conn = s.conn, t.unread = s.unread \/ t.unread = None,
         \A q \in Ranges \ {r} : t.cur[q] = s.cur[q]
  PROVE  Served(s, t, r)
BY DEF Served, SameCursor, ReadOnly, Sane

LEMMA MysqlFetches ==
  ASSUME NEW R, NEW n \in Nat, NEW s \in Sessions(R, n), NEW r \in Ranges, s.conn.backend = "mysql",
         NEW g \in MysqlNext(s, r, n)
  PROVE  Fetched(R, s, r, n, g)
<1> DEFINE k == Take(s, r, n)
           all == Moved(s, r, k)
           gone == Moved(s, r, Left(s, r, n))
           lost == Lost(MysqlDone(gone, r), r)
           failed == [lost EXCEPT !.stale = TRUE]
<1>0. /\ s.cur[r] \in CursorsOf(n) /\ s.cur[r].at \in 0 .. n /\ k \in 0 .. BatchSize /\ s.cur[r].at + k <= n
      /\ k = BatchSize \/ s.cur[r].at + k = n
      /\ Left(s, r, n) \in Nat /\ s.cur[r].at + Left(s, r, n) = n
      /\ k \in Nat /\ s.cur[r].at + k \in 0 .. n /\ n \in 0 .. n
      /\ BatchSize # 0
  <2>1. s.cur[r] \in CursorsOf(n)
    BY SessionFields
  <2>. QED BY <2>1, TakeFields, IteratorsAssumption
<1>1. /\ all \in Sessions(R, n) /\ all.conn = s.conn /\ all.unread = s.unread /\ all.stale = s.stale
      /\ all.cur[r] = [s.cur[r] EXCEPT !.at = s.cur[r].at + k] /\ \A q \in Ranges \ {r} : all.cur[q] = s.cur[q]
  <2>. HIDE DEF k
  <2>. QED BY <1>0, CursorMoved DEF OnlyCursor
<1>2. /\ all.cur[r].end = s.cur[r].end /\ all.cur[r].at = s.cur[r].at + k /\ all.cur[r].server = s.cur[r].server
      /\ all.cur[r].typed = s.cur[r].typed /\ all.cur[r].lost = s.cur[r].lost
  <2>. HIDE DEF k, all
  <2>. QED BY <1>0, <1>1, CursorFields
<1>3. CASE g = Got(failed, NoRows)
  <2>. HIDE DEF k, all
  <2>1. /\ gone \in Sessions(R, n) /\ gone.conn = s.conn /\ gone.unread = s.unread
        /\ gone.cur[r] = [s.cur[r] EXCEPT !.at = n] /\ \A q \in Ranges \ {r} : gone.cur[q] = s.cur[q]
    BY <1>0, CursorMoved DEF OnlyCursor
  <2>. HIDE DEF gone
  <2>2. /\ gone.cur[r].end = s.cur[r].end /\ gone.cur[r].at = n /\ gone.cur[r].server = s.cur[r].server
        /\ gone.cur[r].typed = s.cur[r].typed /\ gone.cur[r].lost = s.cur[r].lost /\ gone.cur[r] \in CursorsOf(n)
    BY <1>0, <2>1, CursorFields, SessionFields
  <2>3. LET t == MysqlDone(gone, r) IN
           /\ t \in Sessions(R, n) /\ t.conn = s.conn /\ t.cur = gone.cur
           /\ (t.unread = s.unread \/ t.unread = None)
    BY <2>1, DoneFields
  <2>4. /\ lost \in Sessions(R, n) /\ lost.conn = s.conn /\ (lost.unread = s.unread \/ lost.unread = None)
        /\ lost.cur[r] = [gone.cur[r] EXCEPT !.lost = TRUE] /\ \A q \in Ranges \ {r} : lost.cur[q] = s.cur[q]
    <3>. DEFINE u == MysqlDone(gone, r)
    <3>1. u \in Sessions(R, n) /\ u.conn = s.conn /\ u.cur = gone.cur /\ (u.unread = s.unread \/ u.unread = None)
      BY <2>3
    <3>. HIDE DEF u
    <3>2. Lost(u, r) \in Sessions(R, n) /\ OnlyCursor(u, Lost(u, r), r, [u.cur[r] EXCEPT !.lost = TRUE])
      BY <3>1, CursorLost
    <3>3. lost = Lost(u, r)
      BY DEF u
    <3>. HIDE DEF lost
    <3>4. /\ lost \in Sessions(R, n) /\ lost.conn = u.conn /\ lost.unread = u.unread
          /\ lost.cur[r] = [u.cur[r] EXCEPT !.lost = TRUE] /\ \A q \in Ranges \ {r} : lost.cur[q] = u.cur[q]
      BY <3>2, <3>3 DEF OnlyCursor
    <3>5. \A q \in Ranges \ {r} : lost.cur[q] = s.cur[q]
      BY <2>1, <3>1, <3>4
    <3>. QED BY <2>1, <3>1, <3>4, <3>5
  <2>. HIDE DEF lost
  <2>5. /\ failed \in Sessions(R, n) /\ failed.conn = s.conn /\ failed.cur = lost.cur
        /\ (failed.unread = s.unread \/ failed.unread = None)
    BY <2>4, SessionFields
  <2>6. /\ failed.cur[r].at = n /\ failed.cur[r].end = s.cur[r].end /\ failed.cur[r].typed = s.cur[r].typed
        /\ failed.cur[r].server = s.cur[r].server /\ failed.cur[r].lost = TRUE
    <3>1. failed.cur[r] = [gone.cur[r] EXCEPT !.lost = TRUE]
      BY <2>4, <2>5
    <3>. HIDE DEF failed
    <3>. QED BY <2>2, <3>1, CursorFields
  <2>. HIDE DEF failed
  <2>7. Served(s, failed, r)
    BY <2>4, <2>5, MysqlServed
  <2>8. g.session = failed /\ g.batch = NoRows
    BY <1>3, GotFields DEF failed
  <2>. QED BY <1>0, <2>5, <2>6, <2>7, <2>8, SpecialBatches DEF Fetched, FetchedRows, Sound
<1>4. CASE k = BatchSize /\ g = Got(all, Batch(s.cur[r].at, k))
  <2>. HIDE DEF k, all
  <2>1. Served(s, all, r)
    BY <1>1, MysqlServed
  <2>2. g.session = all /\ g.batch = Batch(s.cur[r].at, k)
    BY <1>4, GotFields
  <2>3. g.batch.bad = FALSE /\ g.batch.size = k
    BY <1>0, <2>2 DEF Batch
  <2>4. Sound(s, r, n) => Sound(all, r, n) /\ k # 0
    <3>1. s.cur[r].end /\ s.cur[r].at = n => k = 0
      BY <1>0
    <3>. QED BY <1>0, <1>1, <1>2, <1>4, <3>1 DEF Sound
  <2>5. FetchedRows(s, r, n, g)
    BY <1>0, <1>2, <2>2, <2>4, RowsFetched
  <2>. QED BY <1>1, <2>1, <2>2, <2>5 DEF Fetched
<1>5. CASE k # BatchSize /\ s.stale /\ g = Got(MysqlDone(all, r), NoRows)
  <2>. DEFINE t == MysqlDone(all, r)
  <2>. HIDE DEF k, all
  <2>1. t \in Sessions(R, n) /\ t.conn = s.conn /\ t.cur = all.cur /\ (t.unread = s.unread \/ t.unread = None)
    BY <1>1, DoneFields
  <2>2. g.session = t /\ g.batch = NoRows
    BY <1>5, GotFields
  <2>. HIDE DEF t
  <2>3. Served(s, t, r)
    BY <1>1, <2>1, MysqlServed
  <2>. QED BY <1>0, <1>2, <1>5, <2>1, <2>2, <2>3, SpecialBatches DEF Fetched, FetchedRows, Sound
<1>6. CASE k # BatchSize /\ ~s.stale /\ g = Got(Ended(MysqlDone(all, r), r), Batch(s.cur[r].at, k))
  <2>. DEFINE u == MysqlDone(all, r)
              t == Ended(u, r)
  <2>. HIDE DEF k, all
  <2>1. /\ u \in Sessions(R, n) /\ u.conn = s.conn /\ u.cur = all.cur /\ u.stale = s.stale
        /\ (u.unread = s.unread \/ u.unread = None)
    BY <1>1, DoneFields
  <2>2. g.session = t /\ g.batch = Batch(s.cur[r].at, k)
    BY <1>6, GotFields
  <2>. HIDE DEF u
  <2>3. /\ t \in Sessions(R, n) /\ t.conn = s.conn /\ t.stale = s.stale /\ (t.unread = s.unread \/ t.unread = None)
        /\ t.cur[r] = [all.cur[r] EXCEPT !.end = TRUE] /\ \A q \in Ranges \ {r} : t.cur[q] = s.cur[q]
    <3>1. t \in Sessions(R, n) /\ OnlyCursor(u, t, r, [u.cur[r] EXCEPT !.end = TRUE])
      BY <2>1, CursorEnded
    <3>. HIDE DEF t
    <3>. QED BY <1>1, <2>1, <3>1 DEF OnlyCursor
  <2>. HIDE DEF t
  <2>4. all.cur[r] \in CursorsOf(n)
    BY <1>1, SessionFields
  <2>5. /\ t.cur[r].end = TRUE /\ t.cur[r].at = s.cur[r].at + k /\ t.cur[r].server = s.cur[r].server
        /\ t.cur[r].typed = s.cur[r].typed /\ t.cur[r].lost = s.cur[r].lost
    BY <1>0, <1>2, <2>3, <2>4, CursorFields
  <2>6. Served(s, t, r)
    BY <2>3, MysqlServed
  <2>7. g.batch.bad = FALSE /\ g.batch.size = k
    BY <1>0, <2>2 DEF Batch
  <2>. QED BY <1>0, <1>6, <2>2, <2>3, <2>5, <2>6, <2>7 DEF Fetched, FetchedRows, Sound
<1>7. \/ g = Got(failed, NoRows)
      \/ k = BatchSize /\ g = Got(all, Batch(s.cur[r].at, k))
      \/ k # BatchSize /\ s.stale /\ g = Got(MysqlDone(all, r), NoRows)
      \/ k # BatchSize /\ ~s.stale /\ g = Got(Ended(MysqlDone(all, r), r), Batch(s.cur[r].at, k))
  BY SessionFields DEF MysqlNext
<1>. QED BY <1>3, <1>4, <1>5, <1>6, <1>7

-----------------------------------------------------------------------------
(* PostgreSQL.                                                             *)

\* A failed statement aborts the transaction and nothing else.
LEMMA AbortedReads ==
  ASSUME NEW R, NEW c \in Connections(R), NEW d, MayAbort(c, d)
  PROVE  d \in Connections(R) /\ ReadOnly(c, d) /\ (d.tx = "open" => d = c)
<1>1. /\ d \in Connections(R)
      /\ d.backend = c.backend /\ d.db = c.db /\ d.view = c.view
      /\ c.tx = "none" => d.tx = "none"
      /\ c.tx # "none" => d.tx # "none"
      /\ d.stmt = c.stmt /\ d.buffer = c.buffer
  BY AbortedFields
<1>2. d.tx = "open" => d = c
  BY DEF MayAbort, Connections
<1>. QED BY <1>1, <1>2 DEF ReadOnly, Sane, Atomic

\* Ending a transaction in which nothing was written changes no row.
LEMMA EndedReads ==
  ASSUME NEW R, NEW c \in Connections(R), NEW d, d = Committed(c) \/ d = RolledBack(c)
  PROVE  d \in Connections(R) /\ ReadOnly(c, d) /\ d.tx = "none"
<1>1. d \in Connections(R)
  BY TransactionFields
<1>2. /\ d.backend = c.backend /\ d.tx = "none" /\ d.stmt = c.stmt /\ d.buffer = c.buffer
      /\ d.view = d.db /\ (d.db = c.view \/ d.db = c.db)
  BY CommittedFields, RolledBackFields
<1>. QED BY <1>1, <1>2 DEF ReadOnly, Sane, Atomic

LEMMA ReadOnlyTwice ==
  ASSUME NEW c, NEW d, NEW e, ReadOnly(c, d), ReadOnly(d, e)
  PROVE  ReadOnly(c, e)
BY DEF ReadOnly

\* A command on the cursor of r.
LEMMA PostgresExecs ==
  ASSUME NEW R, NEW n \in Nat, NEW s \in Sessions(R, n), NEW r \in Ranges, NEW o \in PostgresExec(s, r)
  PROVE  /\ o.ok \in BOOLEAN /\ MayAbort(s.conn, o.conn)
         /\ o.ok => o.conn = s.conn /\ s.cur[r].server
<1> DEFINE c == s.conn
           a == IF c.tx = "open" THEN [c EXCEPT !.tx = "aborted"] ELSE c
<1>1. MayAbort(c, a) /\ MayAbort(c, c)
  BY DEF MayAbort
<1>2. (o = Ok(c) /\ s.cur[r].server) \/ o = Fail(c) \/ o = Fail(a)
  BY DEF PostgresExec, Postgres!execute, Postgres!Aborted, Postgres!Ok, Postgres!Fail, Ok, Fail
<1>. HIDE DEF c, a
<1>. QED BY <1>1, <1>2, ResultFields DEF c

\* CLOSE and END: PostgreSQL has no transaction afterwards.
LEMMA PostgresShuts ==
  ASSUME NEW R, NEW n \in Nat, NEW s \in Sessions(R, n), NEW r \in Ranges, NEW t \in PostgresShutdown(s, r),
         s.conn.backend = "postgres"
  PROVE  /\ t \in Sessions(R, n) /\ ReadOnly(s.conn, t.conn)
         /\ \A q \in Ranges \ {r} : SameCursor(s, t, q)
         /\ t.unread = s.unread
         /\ t.conn.tx = "open" => s.conn.tx = "open" /\ s.cur[r].end
         /\ t.cur[r].end /\ t.cur[r].at = s.cur[r].at /\ t.cur[r].typed = s.cur[r].typed
         /\ t.cur[r].lost = s.cur[r].lost /\ (t.cur[r].server => s.cur[r].server)
<1>1. CASE s.cur[r].end
  <2>1. t = s
    BY <1>1 DEF PostgresShutdown
  <2>. QED BY <1>1, <2>1 DEF SameCursor, ReadOnly
<1>2. CASE ~s.cur[r].end
  <2>1. PICK c \in PostgresExec(s, r) : \E e \in Postgres!commit(c.conn) : t = Ended(With(s, e.conn), r)
    BY <1>2 DEF PostgresShutdown
  <2>2. PICK e \in Postgres!commit(c.conn) : t = Ended(With(s, e.conn), r)
    BY <2>1
  <2>3. s.conn \in Connections(R) /\ s.cur[r] \in CursorsOf(n)
    BY SessionFields
  <2>4. c.conn \in Connections(R) /\ ReadOnly(s.conn, c.conn)
    BY <2>3, PostgresExecs, AbortedReads
  <2>5. e.conn = Committed(c.conn) \/ e.conn = RolledBack(c.conn)
    BY <2>2 DEF Postgres!commit, Postgres!Committed, Postgres!RolledBack, Postgres!Ok, Postgres!Fail,
                Committed, RolledBack
  <2>6. e.conn \in Connections(R) /\ ReadOnly(s.conn, e.conn) /\ e.conn.tx = "none"
    BY <2>4, <2>5, EndedReads, ReadOnlyTwice
  <2>. DEFINE w == With(s, e.conn)
  <2>7. /\ w \in Sessions(R, n) /\ w.conn = e.conn /\ w.unread = s.unread
        /\ \A q \in Ranges : w.cur[q] = s.cur[q] \/ w.cur[q] = [s.cur[q] EXCEPT !.server = FALSE]
    BY <2>6, WithFields
  <2>. HIDE DEF w
  <2>8. t \in Sessions(R, n) /\ OnlyCursor(w, t, r, [w.cur[r] EXCEPT !.end = TRUE])
    BY <2>2, <2>7, CursorEnded DEF w
  <2>9. \A q \in Ranges : /\ w.cur[q] \in CursorsOf(n)
                          /\ w.cur[q].end = s.cur[q].end /\ w.cur[q].at = s.cur[q].at
                          /\ w.cur[q].typed = s.cur[q].typed /\ w.cur[q].lost = s.cur[q].lost
                          /\ w.cur[q].server => s.cur[q].server
    BY <2>7, OffServer
  <2>10. /\ t.conn = e.conn /\ t.unread = s.unread /\ t.cur[r] = [w.cur[r] EXCEPT !.end = TRUE]
         /\ \A q \in Ranges \ {r} : t.cur[q] = w.cur[q]
    BY <2>7, <2>8 DEF OnlyCursor
  <2>11. /\ t.cur[r].end = TRUE /\ t.cur[r].at = w.cur[r].at /\ t.cur[r].server = w.cur[r].server
         /\ t.cur[r].typed = w.cur[r].typed /\ t.cur[r].lost = w.cur[r].lost
    BY <2>9, <2>10, CursorFields
  <2>12. \A q \in Ranges \ {r} : SameCursor(s, t, q)
    BY <2>9, <2>10 DEF SameCursor
  <2>. QED BY <2>6, <2>8, <2>9, <2>10, <2>11, <2>12
<1>. QED BY <1>1, <1>2

LEMMA PostgresFetches ==
  ASSUME NEW R, NEW n \in Nat, NEW s \in Sessions(R, n), NEW r \in Ranges, s.conn.backend = "postgres",
         NEW g \in PostgresNext(s, r, n)
  PROVE  Fetched(R, s, r, n, g)
<1> DEFINE k == Take(s, r, n)
<1>0. /\ s.conn \in Connections(R) /\ s.cur[r] \in CursorsOf(n) /\ s.cur[r].at \in 0 .. n
      /\ k \in 0 .. BatchSize /\ k \in Nat /\ s.cur[r].at + k <= n /\ s.cur[r].at + k \in 0 .. n
      /\ (Left(s, r, n) = 0 => s.cur[r].at = n) /\ (k = 0 => s.cur[r].at = n)
  <2>1. s.conn \in Connections(R) /\ s.cur[r] \in CursorsOf(n)
    BY SessionFields
  <2>. QED BY <2>1, TakeFields, IteratorsAssumption
<1>1. CASE s.cur[r].end
  <2>1. g = Got(s, NoRows)
    BY <1>1 DEF PostgresNext
  <2>2. g.session = s /\ g.batch = NoRows
    BY <2>1, GotFields
  <2>3. Served(s, s, r)
    BY DEF Served, SameCursor, ReadOnly
  <2>. QED BY <1>0, <1>1, <2>2, <2>3, SpecialBatches DEF Fetched, FetchedRows, Sound
<1>2. CASE ~s.cur[r].end
  <2>1. PICK o \in PostgresExec(s, r) :
          \/ ~o.ok /\ g = Got(IF s.cur[r].server THEN Lost(With(s, o.conn), r) ELSE With(s, o.conn), NoRows)
          \/ o.ok /\ Left(s, r, n) = 0 /\ \E t \in PostgresShutdown(With(s, o.conn), r) : g = Got(t, NoRows)
          \/ o.ok /\ Left(s, r, n) # 0 /\ g = Got(Moved(With(s, o.conn), r, k), Batch(s.cur[r].at, k))
    BY <1>2 DEF PostgresNext
  <2>. DEFINE w == With(s, o.conn)
  <2>. HIDE DEF k
  <2>2. /\ o.conn \in Connections(R) /\ ReadOnly(s.conn, o.conn)
        /\ o.conn.tx = "open" => o.conn = s.conn
        /\ o.ok => o.conn = s.conn /\ s.cur[r].server
    BY <1>0, PostgresExecs, AbortedReads
  <2>3. /\ w \in Sessions(R, n) /\ w.conn = o.conn /\ w.unread = s.unread
        /\ \A q \in Ranges : /\ w.cur[q] = s.cur[q] \/ w.cur[q] = [s.cur[q] EXCEPT !.server = FALSE]
                             /\ o.conn.tx = "open" => w.cur[q] = s.cur[q]
    BY <2>2, WithFields
  <2>. HIDE DEF w
  <2>4. \A q \in Ranges : /\ w.cur[q] \in CursorsOf(n)
                          /\ w.cur[q].end = s.cur[q].end /\ w.cur[q].at = s.cur[q].at
                          /\ w.cur[q].typed = s.cur[q].typed /\ w.cur[q].lost = s.cur[q].lost
                          /\ w.cur[q].server => s.cur[q].server
    <3>1. w \in Sessions(R, n) /\ \A q \in Ranges : w.cur[q] = s.cur[q] \/ w.cur[q] = [s.cur[q] EXCEPT !.server = FALSE]
      BY <2>3
    <3>. QED BY <3>1, OffServer
  <2>5. ASSUME NEW t, NEW d, OnlyCursor(w, t, r, d), d.end = s.cur[r].end PROVE Served(s, t, r)
    <3>1. t.conn = o.conn /\ t.unread = s.unread /\ t.cur[r] = d /\ \A q \in Ranges \ {r} : t.cur[q] = w.cur[q]
      BY <2>3, <2>5 DEF OnlyCursor
    <3>2. \A q \in Ranges \ {r} : SameCursor(s, t, q)
      BY <2>4, <3>1 DEF SameCursor
    <3>. QED BY <2>2, <2>5, <3>1, <3>2 DEF Served
  <2>6. CASE ~o.ok /\ g = Got(w, NoRows) /\ ~s.cur[r].server
    <3>1. g.session = w /\ g.batch = NoRows
      BY <2>6, GotFields
    <3>2. Served(s, w, r)
      <4>1. OnlyCursor(w, w, r, w.cur[r])
        BY DEF OnlyCursor
      <4>. QED BY <4>1, <2>4, <2>5
    <3>3. ~Sound(s, r, n)
      BY <1>2, <2>6 DEF Sound
    <3>. QED BY <1>0, <1>2, <2>3, <2>4, <3>1, <3>2, <3>3 DEF Fetched, FetchedRows
  <2>7. CASE ~o.ok /\ g = Got(Lost(w, r), NoRows)
    <3>. DEFINE t == Lost(w, r)
    <3>1. g.session = t /\ g.batch = NoRows
      BY <2>7, GotFields
    <3>2. t \in Sessions(R, n) /\ OnlyCursor(w, t, r, [w.cur[r] EXCEPT !.lost = TRUE])
      BY <2>3, CursorLost
    <3>. HIDE DEF t
    <3>3. t.cur[r] = [w.cur[r] EXCEPT !.lost = TRUE]
      BY <3>2 DEF OnlyCursor
    <3>4. /\ t.cur[r].end = w.cur[r].end /\ t.cur[r].at = w.cur[r].at /\ t.cur[r].server = w.cur[r].server
          /\ t.cur[r].typed = w.cur[r].typed /\ t.cur[r].lost = TRUE
      BY <2>4, <3>3, CursorFields
    <3>5. Served(s, t, r)
      BY <2>4, <2>5, <3>2, <3>3, <3>4
    <3>. QED BY <1>0, <1>2, <2>4, <3>1, <3>2, <3>4, <3>5 DEF Fetched, FetchedRows
  <2>8. CASE o.ok /\ Left(s, r, n) = 0 /\ \E t \in PostgresShutdown(w, r) : g = Got(t, NoRows)
    <3>1. PICK t \in PostgresShutdown(w, r) : g = Got(t, NoRows)
      BY <2>8
    <3>2. g.session = t /\ g.batch = NoRows
      BY <3>1, GotFields
    <3>3. w.conn.backend = "postgres" /\ w.conn = s.conn
      BY <2>2, <2>3, <2>8
    <3>4. /\ t \in Sessions(R, n) /\ ReadOnly(w.conn, t.conn)
          /\ \A q \in Ranges \ {r} : SameCursor(w, t, q)
          /\ t.unread = w.unread
          /\ t.conn.tx = "open" => w.conn.tx = "open" /\ w.cur[r].end
          /\ t.cur[r].end /\ t.cur[r].at = w.cur[r].at /\ t.cur[r].typed = w.cur[r].typed
          /\ t.cur[r].lost = w.cur[r].lost /\ (t.cur[r].server => w.cur[r].server)
      BY <2>3, <3>3, PostgresShuts
    <3>5. \A q \in Ranges \ {r} : SameCursor(s, t, q)
      BY <2>4, <3>4 DEF SameCursor
    <3>6. Served(s, t, r)
      BY <1>2, <2>3, <2>4, <3>3, <3>4, <3>5 DEF Served
    <3>7. t.conn.tx # "open" /\ t.conn.backend = "postgres"
      BY <1>2, <2>4, <3>3, <3>4 DEF ReadOnly
    <3>8. t.cur[r].at = n /\ s.cur[r].at = n
      BY <1>0, <2>4, <2>8, <3>4
    <3>9. Sound(t, r, n)
      BY <3>4, <3>7, <3>8 DEF Sound
    <3>. QED BY <1>0, <1>2, <2>4, <3>2, <3>4, <3>6, <3>8, <3>9, SpecialBatches DEF Fetched, FetchedRows
  <2>9. CASE o.ok /\ Left(s, r, n) # 0 /\ g = Got(Moved(w, r, k), Batch(s.cur[r].at, k))
    <3>. DEFINE t == Moved(w, r, k)
    <3>1. g.session = t /\ g.batch = Batch(s.cur[r].at, k)
      BY <2>9, GotFields
    <3>2. t \in Sessions(R, n) /\ OnlyCursor(w, t, r, [w.cur[r] EXCEPT !.at = w.cur[r].at + k])
      BY <1>0, <2>3, <2>4, CursorMoved
    <3>. HIDE DEF t
    <3>3. t.cur[r] = [w.cur[r] EXCEPT !.at = s.cur[r].at + k] /\ t.conn = s.conn
      BY <2>2, <2>3, <2>4, <2>9, <3>2 DEF OnlyCursor
    <3>4. /\ t.cur[r].end = w.cur[r].end /\ t.cur[r].at = s.cur[r].at + k /\ t.cur[r].server = w.cur[r].server
          /\ t.cur[r].typed = w.cur[r].typed /\ t.cur[r].lost = w.cur[r].lost
      BY <1>0, <2>4, <3>3, CursorFields
    <3>5. Served(s, t, r)
      BY <2>4, <2>5, <3>2, <3>3, <3>4
    <3>6. Sound(s, r, n) => Sound(t, r, n)
      <4>1. s.conn.tx = "open" => w.cur[r] = s.cur[r]
        BY <2>2, <2>3, <2>9
      <4>. QED BY <1>2, <2>4, <3>3, <3>4, <4>1 DEF Sound
    <3>7. FetchedRows(s, r, n, g)
      BY <1>0, <1>2, <2>4, <3>1, <3>4, <3>6, RowsFetched
    <3>. QED BY <3>1, <3>2, <3>5, <3>7 DEF Fetched
  <2>10. CASE ~o.ok /\ g = Got(IF s.cur[r].server THEN Lost(w, r) ELSE w, NoRows)
    BY <1>0, <2>6, <2>7, <2>10
  <2>11. \/ ~o.ok /\ g = Got(IF s.cur[r].server THEN Lost(w, r) ELSE w, NoRows)
         \/ o.ok /\ Left(s, r, n) = 0 /\ \E t \in PostgresShutdown(w, r) : g = Got(t, NoRows)
         \/ o.ok /\ Left(s, r, n) # 0 /\ g = Got(Moved(w, r, k), Batch(s.cur[r].at, k))
    BY <2>1, Zenon DEF w
  <2>. QED BY <2>8, <2>9, <2>10, <2>11
<1>. QED BY <1>1, <1>2

-----------------------------------------------------------------------------
(* Opening and closing, and the calls of the connection meanwhile.         *)

\* Opening for r, whose cursor is a new one in s: with PostgreSQL a failure
\* leaves no open transaction, and what succeeded has all it needs.
Opens(R, s, r, n, t, ok) ==
  /\ t \in Sessions(R, n) /\ ok \in BOOLEAN
  /\ \A q \in Ranges \ {r} : SameCursor(s, t, q)
  /\ t.cur[r].at = 0
  /\ ReadOnly(s.conn, t.conn)
  /\ s.conn.backend \in {"sqlite", "mysql"} => t.conn = s.conn
  /\ s.conn.backend = "duckdb" => MayAbort(s.conn, t.conn)
  /\ s.conn.backend = "postgres" => IF ok THEN ~t.cur[r].end ELSE t.conn.tx # "open"
  /\ t.unread = s.unread \/ (s.conn.backend = "mysql" /\ ok /\ t.unread = r)
  /\ ok /\ ~t.cur[r].lost /\ t.cur[r].typed => Sound(t, r, n)

\* Closing for r: its result is given up, and PostgreSQL's transaction is over
\* unless that happened when the last batch was empty.
Closes(R, s, r, n, t) ==
  /\ t \in Sessions(R, n)
  /\ \A q \in Ranges \ {r} : SameCursor(s, t, q)
  /\ ReadOnly(s.conn, t.conn)
  /\ s.conn.backend # "postgres" => t.conn = s.conn
  /\ s.conn.backend = "postgres" /\ t.conn.tx = "open" => s.conn.tx = "open" /\ s.cur[r].end
  /\ t.unread = s.unread \/ t.unread = None
  /\ s.conn.backend = "mysql" => t.unread # r

LEMMA SqliteOpens ==
  ASSUME NEW R, NEW n \in Nat, NEW s \in Sessions(R, n), NEW r \in Ranges, s.conn.backend = "sqlite",
         s.cur[r] = NewCursor, NEW t \in SqliteOpen(s, r, n)
  PROVE  Opens(R, s, r, n, t, TRUE)
<1>1. /\ t \in Sessions(R, n) /\ OnlyCursor(s, t, r, t.cur[r])
      /\ t.cur[r].at = s.cur[r].at /\ t.cur[r].server = s.cur[r].server /\ t.cur[r].typed = s.cur[r].typed
      /\ t.cur[r].lost \/ s.cur[r].end \/ (t.cur[r].end <=> s.cur[r].at = n)
  BY SqliteSteps DEF SqliteOpen
<1>2. t.conn = s.conn /\ t.unread = s.unread /\ \A q \in Ranges \ {r} : t.cur[q] = s.cur[q]
  BY <1>1 DEF OnlyCursor
<1>3. \A q \in Ranges \ {r} : SameCursor(s, t, q)
  BY <1>2 DEF SameCursor
<1>4. s.cur[r].at = 0 /\ s.cur[r].end = FALSE
  BY NewCursorFields
<1>5. Sound(t, r, n) \/ t.cur[r].lost
  BY <1>1, <1>2, <1>4 DEF Sound
<1>. QED BY <1>1, <1>2, <1>3, <1>4, <1>5 DEF Opens, ReadOnly

LEMMA MysqlOpens ==
  ASSUME NEW R, NEW n \in Nat, NEW s \in Sessions(R, n), NEW r \in Ranges, s.conn.backend = "mysql",
         s.cur[r] = NewCursor, NEW o \in MysqlOpen(s, r, n)
  PROVE  Opens(R, s, r, n, o.session, o.ok)
<1> DEFINE Refused == [s EXCEPT !.stale = TRUE]
           Answered == [s EXCEPT !.conn = s.conn, !.stale = FALSE]
           Reading == [Answered EXCEPT !.unread = r]
<1>1. /\ Refused \in Sessions(R, n)
      /\ Refused.conn = s.conn /\ Refused.cur = s.cur /\ Refused.unread = s.unread
  BY SessionFields
<1>2. /\ Answered \in Sessions(R, n) /\ Answered.conn = s.conn /\ Answered.cur = s.cur
      /\ Answered.unread = s.unread /\ Answered.stale = FALSE
  BY DEF Sessions
<1>3. /\ Reading \in Sessions(R, n) /\ Reading.conn = s.conn /\ Reading.cur = s.cur
      /\ Reading.unread = r /\ Reading.stale = FALSE
  BY <1>2 DEF Sessions
<1>4. \/ o.session = Refused /\ o.ok = FALSE
      \/ o.session = Answered /\ o.ok = FALSE
      \/ o.session = Reading /\ o.ok = TRUE
  <2>1. PICK p \in Sync(s, {Ok(s.conn), Fail(s.conn)}) : o = IF p.ok THEN [p EXCEPT !.session.unread = r] ELSE p
    BY DEF MysqlOpen
  <2>2. \/ p = [session |-> Refused, ok |-> FALSE]
        \/ p = [session |-> Answered, ok |-> TRUE]
        \/ p = [session |-> Answered, ok |-> FALSE]
    <3>1. CASE s.unread # None
      BY <3>1 DEF Sync
    <3>2. CASE s.unread = None
      <4>1. PICK q \in {Ok(s.conn), Fail(s.conn)} : p = [session |-> [s EXCEPT !.conn = q.conn, !.stale = FALSE], ok |-> q.ok]
        BY <3>2 DEF Sync
      <4>2. CASE q = Ok(s.conn)
        BY <4>1, <4>2, ResultFields
      <4>3. CASE q = Fail(s.conn)
        BY <4>1, <4>3, ResultFields
      <4>. QED BY <4>2, <4>3
    <3>. QED BY <3>1, <3>2
  <2>. HIDE DEF Refused, Answered
  <2>. QED BY <2>1, <2>2
<1>. HIDE DEF Refused, Answered, Reading
<1>5. \A t : t.cur = s.cur => \A q \in Ranges : SameCursor(s, t, q)
  BY DEF SameCursor
<1>6. s.cur[r].at = 0 /\ s.cur[r].end = FALSE
  BY NewCursorFields
<1>7. o.session.cur = s.cur /\ o.session.conn = s.conn /\ o.session \in Sessions(R, n)
  BY <1>1, <1>2, <1>3, <1>4
<1>8. \A q \in Ranges \ {r} : SameCursor(s, o.session, q)
  BY <1>5, <1>7
<1>9. o.ok => Sound(o.session, r, n)
  BY <1>3, <1>4, <1>6 DEF Sound
<1>. QED BY <1>1, <1>2, <1>3, <1>4, <1>6, <1>7, <1>8, <1>9 DEF Opens, ReadOnly

LEMMA DuckdbOpens ==
  ASSUME NEW R, NEW n \in Nat, NEW s \in Sessions(R, n), NEW r \in Ranges, s.conn.backend = "duckdb",
         s.cur[r] = NewCursor, NEW t \in DuckdbOpen(s, r, n)
  PROVE  Opens(R, s, r, n, t, TRUE)
<1>1. s.conn \in Connections(R) /\ s.cur[r] \in CursorsOf(n)
  BY SessionFields
<1>2. PICK o \in Duckdb!execute(s.conn) :
        t \in IF o.ok THEN {[s EXCEPT !.conn = o.conn, !.cur[r].typed = typed] : typed \in BOOLEAN}
                      ELSE {[s EXCEPT !.conn = o.conn, !.cur[r].server = FALSE, !.cur[r].lost = TRUE]}
  BY DEF DuckdbOpen
<1>3. MayAbort(s.conn, o.conn)
  BY DEF Duckdb!execute, Duckdb!Failures, Duckdb!Aborted, Duckdb!Ok, Duckdb!Fail, MayAbort
<1>4. o.conn \in Connections(R) /\ ReadOnly(s.conn, o.conn)
  BY <1>1, <1>3, AbortedReads
<1>5. PICK d \in CursorsOf(n) :
        /\ t = [[s EXCEPT !.conn = o.conn] EXCEPT !.cur[r] = d]
        /\ d.at = s.cur[r].at /\ d.end = s.cur[r].end /\ (d.lost \/ d.server = s.cur[r].server)
  <2>1. CASE o.ok
    <3>1. PICK typed \in BOOLEAN : t = [s EXCEPT !.conn = o.conn, !.cur[r].typed = typed]
      BY <1>2, <2>1
    <3>. DEFINE d == [s.cur[r] EXCEPT !.typed = typed]
    <3>2. d \in CursorsOf(n) /\ d.at = s.cur[r].at /\ d.end = s.cur[r].end /\ d.server = s.cur[r].server
      BY <1>1 DEF CursorsOf
    <3>3. t = [[s EXCEPT !.conn = o.conn] EXCEPT !.cur[r] = d]
      BY <3>1 DEF Sessions
    <3>. QED BY <3>2, <3>3
  <2>2. CASE ~o.ok
    <3>1. t = [s EXCEPT !.conn = o.conn, !.cur[r].server = FALSE, !.cur[r].lost = TRUE]
      BY <1>2, <2>2
    <3>. DEFINE d == [[s.cur[r] EXCEPT !.server = FALSE] EXCEPT !.lost = TRUE]
    <3>2. d \in CursorsOf(n) /\ d.at = s.cur[r].at /\ d.end = s.cur[r].end /\ d.lost = TRUE
      BY <1>1 DEF CursorsOf
    <3>3. t = [[s EXCEPT !.conn = o.conn] EXCEPT !.cur[r] = d]
      BY <3>1 DEF Sessions
    <3>. QED BY <3>2, <3>3
  <2>. QED BY <2>1, <2>2
<1>. DEFINE u == [s EXCEPT !.conn = o.conn]
<1>6. u \in Sessions(R, n) /\ u.conn = o.conn /\ u.cur = s.cur /\ u.unread = s.unread
  BY <1>4, SessionFields
<1>7. t \in Sessions(R, n) /\ OnlyCursor(u, t, r, d)
  BY <1>5, <1>6, CursorSet
<1>. HIDE DEF u
<1>8. t.conn = o.conn /\ t.unread = s.unread /\ t.cur[r] = d /\ \A q \in Ranges \ {r} : t.cur[q] = s.cur[q]
  BY <1>6, <1>7 DEF OnlyCursor
<1>9. \A q \in Ranges \ {r} : SameCursor(s, t, q)
  BY <1>8 DEF SameCursor
<1>10. s.cur[r].at = 0 /\ s.cur[r].end = FALSE /\ s.cur[r].server = TRUE
  BY NewCursorFields
<1>11. t.conn.backend = "duckdb"
  BY <1>4, <1>8 DEF ReadOnly
<1>12. Sound(t, r, n) \/ t.cur[r].lost
  BY <1>5, <1>8, <1>10, <1>11 DEF Sound
<1>. QED BY <1>3, <1>4, <1>5, <1>7, <1>8, <1>9, <1>10, <1>12 DEF Opens

LEMMA PostgresOpens ==
  ASSUME NEW R, NEW n \in Nat, NEW s \in Sessions(R, n), NEW r \in Ranges, s.conn.backend = "postgres",
         s.cur[r] = NewCursor, NEW o \in PostgresOpen(s, r, n)
  PROVE  Opens(R, s, r, n, o.session, o.ok)
<1> DEFINE c == s.conn
           b == Begun(c)
           a == [b EXCEPT !.tx = "aborted"]
<1>1. c \in Connections(R) /\ s.cur[r] \in CursorsOf(n)
  BY SessionFields
<1>2. /\ b \in Connections(R) /\ b.tx = "open" /\ b.backend = c.backend /\ b.db = c.db /\ b.view = c.view
      /\ b.stmt = c.stmt /\ b.buffer = c.buffer
  BY <1>1 DEF Begun, Connections
<1>3. /\ a \in Connections(R) /\ a.tx = "aborted" /\ a.backend = c.backend /\ a.db = c.db /\ a.view = c.view
      /\ a.stmt = c.stmt /\ a.buffer = c.buffer
  BY <1>2 DEF Connections
<1>4. PICK p : /\ o.session = With(s, p.conn) /\ o.ok = p.ok
               /\ (p = Fail(c) /\ c.tx = "aborted") \/ p = Ok(b) \/ p = Fail(a)
  <2>1. PICK p \in UNION {IF x.ok THEN Postgres!execute(x.conn) ELSE {x} : x \in Postgres!begin_transaction(c)} :
          o = [session |-> With(s, p.conn), ok |-> p.ok]
    BY DEF PostgresOpen, AndThen
  <2>2. PICK x \in Postgres!begin_transaction(c) : p \in IF x.ok THEN Postgres!execute(x.conn) ELSE {x}
    OBVIOUS
  <2>3. (x = Fail(c) /\ c.tx = "aborted") \/ x = Ok(b)
    BY DEF Postgres!begin_transaction, Postgres!Begun, Postgres!Ok, Postgres!Fail, Begun, Ok, Fail
  <2>4. \A y \in Postgres!execute(b) : y = Ok(b) \/ y = Fail(a)
    <3>. HIDE DEF b, a
    <3>1. a = [b EXCEPT !.tx = "aborted"]
      BY DEF a
    <3>. QED BY <1>2, <3>1 DEF Postgres!execute, Postgres!Aborted, Postgres!Ok, Postgres!Fail, Ok, Fail
  <2>. HIDE DEF b, a, c
  <2>5. (p = Fail(c) /\ c.tx = "aborted") \/ p = Ok(b) \/ p = Fail(a)
    BY <2>2, <2>3, <2>4, ResultFields
  <2>. QED BY <2>1, <2>5
<1>. HIDE DEF b, a
<1>5. (p.conn = c /\ p.ok = FALSE /\ c.tx = "aborted") \/ (p.conn = b /\ p.ok = TRUE) \/ (p.conn = a /\ p.ok = FALSE)
  <2>1. p = Fail(c) => p.conn = c /\ p.ok = FALSE
    BY ResultFields
  <2>2. p = Ok(b) => p.conn = b /\ p.ok = TRUE
    BY ResultFields
  <2>3. p = Fail(a) => p.conn = a /\ p.ok = FALSE
    BY ResultFields
  <2>. QED BY <1>4, <2>1, <2>2, <2>3
<1>6. p.conn \in Connections(R)
  BY <1>1, <1>2, <1>3, <1>5
<1>7. ReadOnly(c, p.conn)
  <2>1. ReadOnly(c, b)
    BY <1>2 DEF ReadOnly, Sane, Atomic
  <2>2. ReadOnly(c, a)
    BY <1>3 DEF ReadOnly, Sane, Atomic
  <2>3. ReadOnly(c, c)
    BY DEF ReadOnly
  <2>. QED BY <1>5, <2>1, <2>2, <2>3
<1>. DEFINE t == With(s, p.conn)
<1>8. /\ t \in Sessions(R, n) /\ t.conn = p.conn /\ t.unread = s.unread
      /\ \A q \in Ranges : t.cur[q] = s.cur[q] \/ t.cur[q] = [s.cur[q] EXCEPT !.server = FALSE]
      /\ p.conn.tx = "open" => t.cur[r] = s.cur[r]
  <2>1. /\ t \in Sessions(R, n) /\ t.conn = p.conn /\ t.unread = s.unread
        /\ \A q \in Ranges : /\ t.cur[q] = s.cur[q] \/ t.cur[q] = [s.cur[q] EXCEPT !.server = FALSE]
                             /\ p.conn.tx = "open" => t.cur[q] = s.cur[q]
    BY <1>6, WithFields
  <2>. HIDE DEF t
  <2>. QED BY <2>1
<1>. HIDE DEF t
<1>9. \A q \in Ranges : /\ t.cur[q] \in CursorsOf(n)
                        /\ t.cur[q].end = s.cur[q].end /\ t.cur[q].at = s.cur[q].at
                        /\ t.cur[q].typed = s.cur[q].typed /\ t.cur[q].lost = s.cur[q].lost
                        /\ t.cur[q].server => s.cur[q].server
  BY <1>8, OffServer
<1>10. \A q \in Ranges : SameCursor(s, t, q)
  BY <1>9 DEF SameCursor
<1>11. s.cur[r].at = 0 /\ s.cur[r].end = FALSE /\ s.cur[r].server = TRUE
  BY NewCursorFields
<1>12. o.ok => Sound(t, r, n)
  BY <1>2, <1>4, <1>5, <1>8, <1>11 DEF Sound
<1>13. IF o.ok THEN ~t.cur[r].end ELSE t.conn.tx # "open"
  BY <1>3, <1>4, <1>5, <1>8, <1>9, <1>11
<1>14. o.session = t /\ o.ok \in BOOLEAN
  BY <1>4, <1>5 DEF t
<1>. QED BY <1>7, <1>8, <1>9, <1>10, <1>11, <1>12, <1>13, <1>14 DEF Opens

LEMMA PostgresCloses ==
  ASSUME NEW R, NEW n \in Nat, NEW s \in Sessions(R, n), NEW r \in Ranges, s.conn.backend = "postgres",
         NEW t \in PostgresShutdown(s, r)
  PROVE  Closes(R, s, r, n, t)
BY PostgresShuts DEF Closes

LEMMA MysqlCloses ==
  ASSUME NEW R, NEW n \in Nat, NEW s \in Sessions(R, n), NEW r \in Ranges, s.conn.backend = "mysql"
  PROVE  Closes(R, s, r, n, MysqlDone(s, r))
<1> DEFINE t == MysqlDone(s, r)
<1>1. /\ t \in Sessions(R, n) /\ t.conn = s.conn /\ t.cur = s.cur
      /\ t.unread # r /\ (t.unread = s.unread \/ t.unread = None)
  BY DoneFields
<1>. HIDE DEF t
<1>2. \A q \in Ranges \ {r} : SameCursor(s, t, q)
  BY <1>1 DEF SameCursor
<1>. QED BY <1>1, <1>2 DEF Closes, ReadOnly, t

\* The answers of SQLite and DuckDB are with the client.
LEMMA ClientCloses ==
  ASSUME NEW R, NEW n \in Nat, NEW s \in Sessions(R, n), NEW r \in Ranges,
         s.conn.backend \in {"sqlite", "duckdb"}
  PROVE  Closes(R, s, r, n, s)
BY DEF Closes, SameCursor, ReadOnly

=============================================================================
