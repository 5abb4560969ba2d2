--------------------------- MODULE SessionsProofs ---------------------------
(***************************************************************************)
(* Careful users of a connection take turns as Turns has it, on every      *)
(* backend and for any number of users, ranges and rows, whatever fails.   *)
(* Each step of a session is one of Readers, so what is proved there holds *)
(* here; the rest is about who has which transaction.                      *)
(***************************************************************************)
EXTENDS Sessions, ReadersProofs

\* A connection that has no Transaction object shows what is committed, and
\* what the open one has stored is all that it shows besides.  The ranges that
\* could come between live in the session of their reader only, and not next to
\* its Transaction.
TurnInv ==
  /\ Backend \in Backends
  /\ user = Nobody => trans = "none" /\ mine = {}
  /\ Backend \in ReturnsEmpty => Live \subseteq mine
  /\ session.conn.db \subseteq kept
  /\ trans = "none" => stored = {} /\ session.conn.view = session.conn.db
  /\ trans = "open" => \/ session.conn.tx = "open" /\ session.conn.view = session.conn.db \cup stored
                       \/ session.conn.tx = "aborted" /\ Backend = "duckdb"
  /\ Backend = "postgres" /\ trans # "none" => Live = {}
  /\ Backend # "postgres" /\ trans = "none" => session.conn.tx = "none"

LEMMA TurnInit == SessionsInit => TurnInv
<1> SUFFICES ASSUME SessionsInit PROVE TurnInv
  OBVIOUS
<1>1. PICK b \in Backends : session = [conn |-> Fresh(b), cur |-> [r \in Ranges |-> NewCursor],
                                       unread |-> None, stale |-> FALSE]
  BY DEF SessionsInit, Init
<1>2. session.conn.db = {} /\ session.conn.view = {} /\ session.conn.tx = "none" /\ Backend = b
  BY <1>1 DEF Fresh, Backend
<1>3. Live = {}
  BY IteratorsAssumption DEF SessionsInit, Init, Live, Holders, NoRange, NoLoop
<1>. QED BY <1>2, <1>3 DEF SessionsInit, Init, TurnInv

\* The steps of a session are steps of Readers.
LEMMA SessionReads == [SessionsNext]_allVars => [Next]_vars
BY DEF SessionsNext, allVars, Acquire, GiveBack, ReadThrough, CallThrough, UseRange, Next

LEMMA SessionsConnection == SessionsSpec => []ConnectionInv
<1>1. SessionsInit => ConnectionInv
  BY ConnectionInit DEF SessionsInit
<1>2. ConnectionInv /\ [SessionsNext]_allVars => ConnectionInv'
  BY ConnectionSteps, SessionReads
<1>. QED BY <1>1, <1>2, PTL DEF SessionsSpec

-----------------------------------------------------------------------------
(* Reading.                                                                *)

\* What a step of a range does to the connection, whichever step it is.
Reading ==
  /\ session'.conn.backend = Backend
  /\ session.conn.view = session.conn.db => session'.conn.view = session.conn.db /\ session'.conn.db = session.conn.db
  /\ Backend \in {"sqlite", "mysql"} => session'.conn = session.conn
  /\ Backend = "duckdb" => MayAbort(session.conn, session'.conn)
  /\ trans' = trans \/ trans' = Spoilt
  /\ UNCHANGED <<user, stored, kept>>

\* On PostgreSQL nobody reads within a transaction; elsewhere it is no matter.
LEMMA ReadingTurns ==
  ASSUME ConnectionInv, TurnInv, Reading,
         Backend = "postgres" => trans = "none",
         user = Nobody => mine' = {},
         Backend \in ReturnsEmpty => Live' \subseteq mine'
  PROVE  TurnInv' /\ session'.conn.db = session.conn.db
<1> DEFINE c == session.conn
           d == session'.conn
<1>1. c \in Connections(Marks) /\ Backend' = Backend
  BY SessionTyped DEF ConnectionInv, Reading, Backend
<1>2. Backend = "duckdb" => /\ d.db = c.db /\ d.view = c.view /\ (c.tx = "none" => d.tx = "none")
                            /\ (c.tx # "none" => d.tx = c.tx \/ d.tx = "aborted")
  <2>1. Backend = "duckdb" => d = c \/ d = [c EXCEPT !.tx = "aborted"]
    BY DEF Reading, MayAbort
  <2>2. Backend = "duckdb" => /\ d \in Connections(Marks) /\ d.db = c.db /\ d.view = c.view
                              /\ (c.tx = "none" => d.tx = "none")
    BY <1>1, AbortedFields DEF Reading
  <2>. QED BY <1>1, <2>1, <2>2 DEF Connections
<1>3. (trans' = "none" <=> trans = "none") /\ (trans' = "open" => trans = "open")
  BY DEF Reading, Spoilt
<1>4. /\ user' = user /\ stored' = stored /\ kept' = kept
      /\ Backend \in {"sqlite", "mysql"} => d = c
      /\ c.view = c.db => d.view = c.db /\ d.db = c.db
  BY DEF Reading
<1>5. d.db = c.db /\ (c.view = c.db => d.view = d.db)
  BY <1>2, <1>4, BackendIsOneOf DEF ConnectionInv, TurnInv
<1>6. trans' = "open" => \/ d.tx = "open" /\ d.view = d.db \cup stored'
                         \/ d.tx = "aborted" /\ Backend' = "duckdb"
  <2>1. CASE Backend = "sqlite" \/ Backend = "mysql"
    BY <1>1, <1>3, <1>4, <2>1 DEF TurnInv
  <2>2. CASE Backend = "postgres"
    BY <1>3, <2>2
  <2>3. CASE Backend = "duckdb"
    <3>1. trans = "open" => \/ c.tx = "open" /\ c.view = c.db \cup stored
                            \/ c.tx = "aborted"
      BY DEF TurnInv
    <3>. HIDE DEF c, d
    <3>. QED BY <1>1, <1>2, <1>3, <1>4, <2>3, <3>1
  <2>. QED BY <2>1, <2>2, <2>3, BackendIsOneOf DEF ConnectionInv
<1>7. Backend' # "postgres" /\ trans' = "none" => d.tx = "none"
  BY <1>1, <1>2, <1>3, <1>4, BackendIsOneOf DEF ConnectionInv, TurnInv
<1>8. trans' = "none" => stored' = {} /\ d.view = d.db
  BY <1>3, <1>4, <1>5 DEF TurnInv
<1>9. user' = Nobody => trans' = "none" /\ mine' = {}
  BY <1>3, <1>4 DEF TurnInv
<1>10. d.db \subseteq kept'
  BY <1>4, <1>5 DEF TurnInv
<1>. QED BY <1>1, <1>3, <1>5, <1>6, <1>7, <1>8, <1>9, <1>10 DEF TurnInv

\* What a careful program may rely on.
LEMMA CarefulHere ==
  ASSUME Careful, TurnInv
  PROVE  /\ Backend \in {"postgres", "mysql"} => Backend \in CallsAlone /\ Backend \in ReturnsEmpty
         /\ Backend = "postgres" => Backend \in ReadsOutside
BY DEF Careful, TurnInv

LEMMA ReadTurns ==
  ASSUME Careful, ConnectionInv, TurnInv, NEW r \in Ranges, ReadThrough(r)
  PROVE  TurnInv' /\ UNCHANGED <<user, stored, session.conn.db>>
<1>1. /\ Types /\ Read(r) /\ user # Nobody /\ mine' = mine \cup {r} /\ user' = user
      /\ stored' = stored /\ kept' = kept
      /\ Backend = "postgres" => trans = "none"
  BY CarefulHere DEF ReadThrough, ConnectionInv, Read
<1>2. CASE /\ Opens(Marks, session, r, count, session', FALSE)
           /\ range' = range /\ Live' = Live /\ trans' = Spoilt
  <2>1. Reading
    BY <1>1, <1>2 DEF Reading, Opens, ReadOnly, Backend
  <2>2. Backend \in ReturnsEmpty => Live' \subseteq mine'
    BY <1>1, <1>2 DEF TurnInv
  <2>. QED BY <1>1, <2>1, <2>2, ReadingTurns
<1>3. CASE \E b : /\ StartsWith(Marks, session, r, count, session', b)
                  /\ range' = [range EXCEPT ![r] = [state |-> "alive", first |-> b]]
                  /\ Live' = Live \cup {r} /\ trans' = trans
  <2>1. Reading
    BY <1>1, <1>3 DEF Reading, StartsWith, ReadOnly, Backend
  <2>2. Backend \in ReturnsEmpty => Live' \subseteq mine'
    BY <1>1, <1>3 DEF TurnInv
  <2>. QED BY <1>1, <2>1, <2>2, ReadingTurns
<1>. QED BY <1>1, <1>2, <1>3, Reads

\* A step of a range or a loop that is there already.
LEMMA RangeTurns ==
  ASSUME Careful, ConnectionInv, TurnInv, Reading, Live # {}, Live' \subseteq Live, trans' = trans, UNCHANGED mine
  PROVE  TurnInv' /\ UNCHANGED <<user, stored, session.conn.db>>
<1>1. /\ Backend = "postgres" => trans = "none"
      /\ user = Nobody => mine' = {}
      /\ Backend \in ReturnsEmpty => Live' \subseteq mine'
  BY DEF TurnInv
<1>. QED BY <1>1, ReadingTurns DEF Reading

LEMMA UseTurns ==
  ASSUME Careful, ConnectionInv, TurnInv, UseRange
  PROVE  TurnInv' /\ UNCHANGED <<user, stored, session.conn.db>>
<1>0. Types /\ UNCHANGED <<user, mine>>
  BY DEF ConnectionInv, UseRange
<1>1. ASSUME session' = session, UNCHANGED <<trans, stored, kept>> PROVE Reading
  BY <1>0, <1>1 DEF Reading, MayAbort, Backend
<1>2. ASSUME NEW r \in Ranges, GivesUp(r), UNCHANGED <<trans, stored, kept>> PROVE Reading
  BY <1>0, <1>2 DEF Reading, GivesUp, Closes, ReadOnly, MayAbort, Backend
<1>3. ASSUME NEW l \in Loops, NEW r \in Ranges, BeginLoop(l, r)
      PROVE  TurnInv' /\ UNCHANGED <<user, stored, session.conn.db>>
  <2>1. /\ Show(l, r, range[r].first, 0) /\ loop[l].over = None /\ range[r].state = "alive"
        /\ UNCHANGED <<session, range, trans, stored, kept>>
    BY <1>0, <1>3 DEF BeginLoop, Types
  <2>2. Live' = Live /\ Live # {}
    BY <1>0, <2>1, ShownLive DEF Live
  <2>3. Reading
    BY <1>1, <2>1
  <2>. QED BY <1>0, <2>1, <2>2, <2>3, RangeTurns
<1>4. ASSUME NEW l \in Loops, Advance(l)
      PROVE  TurnInv' /\ UNCHANGED <<user, stored, session.conn.db>>
  <2>1. UNCHANGED <<range, trans, stored, kept>>
    BY <1>4 DEF Advance
  <2>2. PICK r \in Ranges : r = loop[l].over
    BY <1>0, <1>4, Advances
  <2>3. \E b, ix : Show(l, r, b, ix)
    BY <1>0, <1>4, <2>2, Advances
  <2>4. Live' = Live /\ Live # {}
    BY <1>0, <2>1, <2>2, <2>3, ShownLive DEF Live, Holders
  <2>5. Reading
    <3>1. CASE session' = session
      BY <1>1, <2>1, <3>1
    <3>2. CASE \E g : Fetched(Marks, session, r, count, g) /\ session' = g.session
      BY <1>0, <2>1, <3>2 DEF Reading, Fetched, Served, ReadOnly, MayAbort, Backend
    <3>. QED BY <1>0, <1>4, <2>2, <3>1, <3>2, Advances
  <2>. QED BY <1>0, <2>1, <2>4, <2>5, RangeTurns
<1>5. ASSUME NEW l \in Loops, LeaveLoop(l)
      PROVE  TurnInv' /\ UNCHANGED <<user, stored, session.conn.db>>
  <2>1. UNCHANGED <<trans, stored, kept>>
    BY <1>5 DEF LeaveLoop
  <2>2. PICK r : r = loop[l].over
    OBVIOUS
  <2>3. /\ r \in Ranges /\ r \in Live /\ Live' \subseteq Live
        /\ GivesUp(r) \/ session' = session
    BY <1>0, <1>5, <2>2, Leaves
  <2>4. Reading
    BY <1>1, <1>2, <2>1, <2>3
  <2>. QED BY <1>0, <2>1, <2>3, <2>4, RangeTurns
<1>6. ASSUME NEW r \in Ranges, DropRange(r)
      PROVE  TurnInv' /\ UNCHANGED <<user, stored, session.conn.db>>
  <2>1. UNCHANGED <<trans, stored, kept>>
    BY <1>6 DEF DropRange
  <2>2. /\ r \in Live /\ Live' \subseteq Live
        /\ GivesUp(r) \/ session' = session
    BY <1>0, <1>6, Drops
  <2>3. Reading
    BY <1>1, <1>2, <2>1, <2>2
  <2>. QED BY <1>0, <2>1, <2>2, <2>3, RangeTurns
<1>. QED BY <1>3, <1>4, <1>5, <1>6 DEF UseRange

-----------------------------------------------------------------------------
(* The calls of the Transaction.                                           *)

\* Nobody but the caller uses the connection, so the call reaches the server.
LEMMA CallReaches ==
  ASSUME ConnectionInv, Backend = "mysql" => Live = {},
         NEW P, \A p \in P : Orderly(Marks, session.conn, p), NEW o \in Called(P), Calls(o)
  PROVE  /\ Live' = Live /\ Backend' = Backend
         /\ \E p \in P : session'.conn = p.conn /\ o.ok = p.ok
<1>1. \A p \in P : p.conn \in Connections(Marks) /\ p.conn.backend = Backend
  BY DEF Orderly, Backend
<1>2. /\ ServerCalled
      /\ \/ \E p \in P : session'.conn = p.conn /\ o.ok = p.ok
         \/ Backend = "mysql" /\ session.unread # None /\ session'.conn = session.conn /\ o.ok = FALSE
  BY <1>1, BeforeCall, CallMade
<1>3. Backend = "mysql" => session.unread = None
  BY DEF ConnectionInv, TxInv
<1>4. PICK p \in P : session'.conn = p.conn /\ o.ok = p.ok
  BY <1>2, <1>3
<1>. QED BY <1>1, <1>2, <1>4 DEF ServerCalled, Backend

\* What a call has to make of the transaction.
LEMMA CallTurns ==
  ASSUME TurnInv, user # Nobody, UNCHANGED <<user, mine>>, Live' = Live, Backend' = Backend,
         Backend = "postgres" => Live = {},
         session'.conn.db \subseteq kept',
         trans' = "none" => /\ stored' = {} /\ session'.conn.view = session'.conn.db
                            /\ session'.conn.tx = "none" \/ (trans = "none" /\ session'.conn = session.conn),
         trans' = "open" => \/ session'.conn.tx = "open" /\ session'.conn.view = session'.conn.db \cup stored'
                            \/ session'.conn.tx = "aborted" /\ Backend = "duckdb"
  PROVE  TurnInv'
BY DEF TurnInv

LEMMA BeginTurns ==
  ASSUME ConnectionInv, TurnInv, user # Nobody, UNCHANGED <<user, mine>>,
         Backend \in {"postgres", "mysql"} => Live = {}, BeginTransaction
  PROVE  TurnInv' /\ UNCHANGED <<user, stored, session.conn.db>>
<1> DEFINE P == begin_transaction(session.conn)
<1>1. PICK o \in Called(P) : Calls(o) /\ trans' = IF o.ok THEN "open" ELSE "none"
  BY DEF BeginTransaction
<1>2. trans = "none" /\ UNCHANGED <<stored, kept>>
  BY DEF BeginTransaction
<1>3. \A p \in P : /\ Orderly(Marks, session.conn, p)
                   /\ IF p.ok THEN p.conn.tx = "open" ELSE p.conn = session.conn
                   /\ session.conn.view = session.conn.db => p.conn.view = session.conn.db /\ p.conn.db = session.conn.db
  BY <1>2, BeforeCall, BeginCall
<1>. HIDE DEF P
<1>4. Live' = Live /\ Backend' = Backend /\ \E p \in P : session'.conn = p.conn /\ o.ok = p.ok
  BY <1>1, <1>3, CallReaches
<1>5. PICK p \in P : session'.conn = p.conn /\ o.ok = p.ok
  BY <1>4
<1>6. /\ stored = {} /\ session.conn.view = session.conn.db /\ session.conn.db \subseteq kept
      /\ session'.conn.view = session.conn.db /\ session'.conn.db = session.conn.db
      /\ IF o.ok THEN session'.conn.tx = "open" ELSE session'.conn = session.conn
  BY <1>2, <1>3, <1>5 DEF TurnInv
<1>7. TurnInv'
  BY <1>1, <1>2, <1>4, <1>6, CallTurns
<1>. QED BY <1>2, <1>6, <1>7

LEMMA InsertTurns ==
  ASSUME ConnectionInv, TurnInv, user # Nobody, UNCHANGED <<user, mine>>,
         Backend \in {"postgres", "mysql"} => Live = {}, NEW m \in Marks, Insert(m)
  PROVE  /\ TurnInv' /\ UNCHANGED session.conn.db
         /\ stored' = stored \/ (stored' = stored \cup {m} /\ m \notin stored \cup session.conn.db)
<1> DEFINE P == insert_impl(session.conn, {m})
<1>1. PICK o \in Called(P) : /\ Calls(o)
                             /\ stored' = IF o.ok THEN stored \cup {m} ELSE stored
                             /\ trans' = IF o.ok THEN trans ELSE Spoilt
  BY DEF Insert
<1>2. trans = "open" /\ kept' = kept /\ m \notin stored \cup kept
  BY DEF Insert
<1>3. \A p \in P : /\ Orderly(Marks, session.conn, p)
                   /\ session.conn.tx = "open" =>
                        /\ p.conn.db = session.conn.db
                        /\ p.ok => p.conn.tx = "open" /\ p.conn.view = session.conn.view \cup {m}
                   /\ session.conn.tx = "aborted" => ~p.ok /\ p.conn = session.conn
  <2>1. {m} \in SUBSET Marks
    OBVIOUS
  <2>. QED BY <2>1, BeforeCall, InsertCall
<1>. HIDE DEF P
<1>4. Live' = Live /\ Backend' = Backend /\ \E p \in P : session'.conn = p.conn /\ o.ok = p.ok
  BY <1>1, <1>3, CallReaches
<1>5. PICK p \in P : session'.conn = p.conn /\ o.ok = p.ok
  BY <1>4
<1>6. /\ session.conn.db \subseteq kept
      /\ \/ session.conn.tx = "open" /\ session.conn.view = session.conn.db \cup stored
         \/ session.conn.tx = "aborted" /\ Backend = "duckdb"
  BY <1>2 DEF TurnInv
<1>7. /\ session'.conn.db = session.conn.db
      /\ o.ok => session'.conn.tx = "open" /\ session'.conn.view = session'.conn.db \cup (stored \cup {m})
  BY <1>3, <1>5, <1>6
<1>8. trans' = IF o.ok THEN "open" ELSE "spoilt"
  BY <1>1, <1>2 DEF Spoilt
<1>9. TurnInv'
  BY <1>1, <1>2, <1>4, <1>6, <1>7, <1>8, CallTurns
<1>. QED BY <1>1, <1>2, <1>6, <1>7, <1>9

LEMMA CommitTurns ==
  ASSUME ConnectionInv, TurnInv, user # Nobody, UNCHANGED <<user, mine>>,
         Backend \in {"postgres", "mysql"} => Live = {}, Commit
  PROVE  /\ TurnInv'
         /\ \/ UNCHANGED <<stored, session.conn.db>>
            \/ session'.conn.db = session.conn.db \cup stored /\ stored' = {}
<1> DEFINE P == commit(session.conn)
<1>1. PICK o \in Called(P) : /\ Calls(o)
                             /\ trans' = IF o.ok THEN "none" ELSE Spoilt
                             /\ kept' = IF o.ok THEN kept \cup stored ELSE kept
                             /\ stored' = IF o.ok THEN {} ELSE stored
  BY DEF Commit
<1>2. trans = "open"
  BY DEF Commit
<1>3. \A p \in P : /\ Orderly(Marks, session.conn, p)
                   /\ p.ok => p.conn.tx = "none" /\ p.conn.view = p.conn.db
                   /\ p.ok /\ session.conn.tx = "open" => p.conn.db = session.conn.view
                   /\ p.ok /\ session.conn.tx = "aborted" => session.conn.backend # "duckdb"
                   /\ ~p.ok => p.conn.db = session.conn.db
  BY BeforeCall, CommitCall
<1>. HIDE DEF P
<1>4. Live' = Live /\ Backend' = Backend /\ \E p \in P : session'.conn = p.conn /\ o.ok = p.ok
  BY <1>1, <1>3, CallReaches
<1>5. PICK p \in P : session'.conn = p.conn /\ o.ok = p.ok
  BY <1>4
<1>6. /\ session.conn.db \subseteq kept
      /\ \/ session.conn.tx = "open" /\ session.conn.view = session.conn.db \cup stored
         \/ session.conn.tx = "aborted" /\ session.conn.backend = "duckdb"
  BY <1>2 DEF TurnInv, Backend
<1>7. /\ o.ok => /\ session'.conn.db = session.conn.db \cup stored
                 /\ session'.conn.tx = "none" /\ session'.conn.view = session'.conn.db
      /\ ~o.ok => session'.conn.db = session.conn.db
  BY <1>3, <1>5, <1>6
<1>8. trans' = IF o.ok THEN "none" ELSE "spoilt"
  BY <1>1, <1>2 DEF Spoilt
<1>9. TurnInv'
  BY <1>1, <1>2, <1>4, <1>6, <1>7, <1>8, CallTurns
<1>. QED BY <1>1, <1>7, <1>9

LEMMA RollbackTurns ==
  ASSUME ConnectionInv, TurnInv, user # Nobody, UNCHANGED <<user, mine>>,
         Backend \in {"postgres", "mysql"} => Live = {}, Rollback
  PROVE  TurnInv' /\ UNCHANGED session.conn.db /\ stored' = {}
<1> DEFINE P == rollback(session.conn)
<1>1. PICK o \in Called(P) : Calls(o)
  BY DEF Rollback
<1>2. trans # "none" /\ trans' = "none" /\ stored' = {} /\ kept' = kept
  BY DEF Rollback
<1>3. \A p \in P : /\ Orderly(Marks, session.conn, p)
                   /\ p.conn.tx = "none" /\ p.conn.db = session.conn.db /\ p.conn.view = session.conn.db
  BY BeforeCall, RollbackCall
<1>. HIDE DEF P
<1>4. Live' = Live /\ Backend' = Backend /\ \E p \in P : session'.conn = p.conn /\ o.ok = p.ok
  BY <1>1, <1>3, CallReaches
<1>5. /\ session'.conn.tx = "none" /\ session'.conn.db = session.conn.db /\ session'.conn.view = session.conn.db
      /\ session.conn.db \subseteq kept
  BY <1>3, <1>4 DEF TurnInv
<1>6. TurnInv'
  BY <1>2, <1>4, <1>5, CallTurns
<1>. QED BY <1>2, <1>5, <1>6

-----------------------------------------------------------------------------
(* Every step is a step of the promise, or none.                           *)

LEMMA StepTurns ==
  ASSUME Careful, ConnectionInv, TurnInv, [SessionsNext]_allVars
  PROVE  TurnInv' /\ [Promise!Next]_(Promise!vars)
<1>1. ASSUME NEW u \in Users, Acquire(u) PROVE TurnInv' /\ Promise!Take(u)
  <2>1. /\ user = Nobody /\ user' = u /\ mine' = mine
        /\ UNCHANGED <<session, range, loop, trans, stored, kept>>
    BY <1>1 DEF Acquire, vars
  <2>2. Live' = Live /\ Backend' = Backend
    BY <2>1 DEF Live, Holders, Backend
  <2>. QED BY <2>1, <2>2, SessionsAssumption DEF TurnInv, Promise!Take
<1>2. CASE GiveBack
  <2>1. /\ user # Nobody /\ user' = Nobody /\ mine' = {} /\ trans = "none"
        /\ Backend \in ReturnsEmpty => Live = {}
        /\ UNCHANGED <<session, range, loop, trans, stored, kept>>
    BY <1>2 DEF GiveBack, vars
  <2>2. Live' = Live /\ Backend' = Backend
    BY <2>1 DEF Live, Holders, Backend
  <2>3. TurnInv' /\ Promise!GiveBack
    BY <2>1, <2>2 DEF TurnInv, Promise!GiveBack
  <2>. QED BY <2>3 DEF Promise!Next
<1>3. CASE (\E r \in Ranges : ReadThrough(r)) \/ UseRange
  <2>1. TurnInv' /\ UNCHANGED <<user, stored, session.conn.db>>
    BY <1>3, ReadTurns, UseTurns
  <2>. QED BY <2>1 DEF Promise!vars
<1>4. CASE CallThrough
  <2>1. /\ user # Nobody /\ UNCHANGED <<user, mine>>
        /\ Backend \in {"postgres", "mysql"} => Live = {}
    BY <1>4, CarefulHere DEF CallThrough, TurnInv
  <2>2. CASE BeginTransaction
    BY <2>1, <2>2, BeginTurns DEF Promise!vars
  <2>3. ASSUME NEW m \in Marks, Insert(m) PROVE TurnInv' /\ [Promise!Next]_(Promise!vars)
    <3>1. /\ TurnInv' /\ UNCHANGED session.conn.db
          /\ stored' = stored \/ (stored' = stored \cup {m} /\ m \notin stored \cup session.conn.db)
      BY <2>1, <2>3, InsertTurns
    <3>2. UNCHANGED Promise!vars \/ Promise!Write(m)
      BY <2>1, <3>1 DEF Promise!vars, Promise!Write
    <3>. QED BY <3>1, <3>2 DEF Promise!Next
  <2>4. CASE Commit
    <3>1. /\ TurnInv'
          /\ \/ UNCHANGED <<stored, session.conn.db>>
             \/ session'.conn.db = session.conn.db \cup stored /\ stored' = {}
      BY <2>1, <2>4, CommitTurns
    <3>2. UNCHANGED Promise!vars \/ Promise!Commit
      BY <2>1, <3>1 DEF Promise!vars, Promise!Commit
    <3>. QED BY <3>1, <3>2 DEF Promise!Next
  <2>5. CASE Rollback
    <3>1. TurnInv' /\ Promise!Discard
      BY <2>1, <2>5, RollbackTurns DEF Promise!Discard
    <3>. QED BY <3>1 DEF Promise!Next
  <2>. QED BY <1>4, <2>2, <2>3, <2>4, <2>5 DEF CallThrough
<1>5. CASE UNCHANGED allVars
  <2>1. UNCHANGED <<user, mine, session, range, loop, trans, stored, kept>>
    BY <1>5 DEF allVars, vars
  <2>2. Live' = Live /\ Backend' = Backend
    BY <2>1 DEF Live, Holders, Backend
  <2>. QED BY <2>1, <2>2 DEF TurnInv, Promise!vars
<1>6. \A u \in Users : Promise!Take(u) => Promise!Next
  BY DEF Promise!Next
<1>. QED BY <1>1, <1>2, <1>3, <1>4, <1>5, <1>6 DEF SessionsNext

LEMMA TurnsAlways == ASSUME Careful PROVE SessionsSpec => []TurnInv
<1>1. ConnectionInv /\ TurnInv /\ [SessionsNext]_allVars => TurnInv'
  BY StepTurns
<1>. QED BY <1>1, TurnInit, SessionsConnection, PTL DEF SessionsSpec

\* The connection that lies in the pool has nothing of its last user left but,
\* on PostgreSQL, the aborted transaction of a read() that failed
\* (Session::~Session clears the flag and nothing else).
THEOREM ReturnedIsClean == ASSUME Careful PROVE SessionsSpec => []ReturnedClean
<1>1. ConnectionInv /\ TurnInv => ReturnedClean
  <2> SUFFICES ASSUME ConnectionInv, TurnInv, user = Nobody
               PROVE  /\ session.unread = None
                      /\ session.conn.view = session.conn.db
                      /\ session.conn.tx = "none" \/ (Backend = "postgres" /\ session.conn.tx = "aborted")
    BY DEF ReturnedClean
  <2>1. trans = "none" /\ mine = {} /\ session.conn.view = session.conn.db
    BY DEF TurnInv
  <2>2. Backend \in {"postgres", "mysql"} => Live = {}
    BY <2>1, CarefulHere DEF TurnInv
  <2>3. session.unread = None
    BY <2>2 DEF ConnectionInv, TxInv
  <2>4. session.conn.tx \in {"none", "open", "aborted"}
    BY SessionTyped DEF ConnectionInv, Connections
  <2>5. Backend = "postgres" => session.conn.tx # "open"
    BY <2>1, <2>2 DEF ConnectionInv, TxInv
  <2>. QED BY <2>1, <2>3, <2>4, <2>5 DEF TurnInv
<1>. QED BY <1>1, SessionsConnection, TurnsAlways, PTL

\* The users of one connection take turns, and each commit() commits exactly
\* what its own user has written since the transaction began: the pool's flags
\* and Transaction keep that promise together, on every backend.
THEOREM SessionsImplementTurns == ASSUME Careful PROVE SessionsSpec => ImplementsTurns
<1>1. SessionsInit => Promise!Init
  BY TurnInit DEF SessionsInit, Init, Fresh, Promise!Init
<1>2. ConnectionInv /\ TurnInv /\ [SessionsNext]_allVars => [Promise!Next]_(Promise!vars)
  BY StepTurns
<1>. QED BY <1>1, <1>2, SessionsConnection, TurnsAlways, PTL DEF SessionsSpec, ImplementsTurns, Promise!Spec

=============================================================================
