---------------------------- MODULE ClientProofs ----------------------------
(***************************************************************************)
(* Proofs about Client, for any number of rows and Transaction objects,    *)
(* any batch size and every backend.                                       *)
(***************************************************************************)
EXTENDS Client, ConnectionProofs

\* The programs the documentation describes: they give a transaction up after
\* an error, call write() outside of transactions, do not assign to a
\* Transaction that is open, and do not rely on what a write() over DuckDB
\* reports.
Careful ==
  /\ Disciplined
  /\ Writes = "outside"
  /\ ~OverwritesOpen
  /\ Trusted = AllBackends \ {"duckdb"}

-----------------------------------------------------------------------------
\* The inductive invariant.

\* One transaction at a time, and no write() in it.
OneOpen == \A t, u \in Objects : trans[t] = "open" /\ trans[u] = "open" => t = u

OpenInv ==
  /\ OneOpen
  /\ Open # {} => pc \in {"idle", "insert"}
  /\ Open = {} => acked = {}
  /\ pc = "idle" => given = {}
  /\ pc \in {"execute", "start_write"} => todo = given

\* What state the connection is in, call by call.
ConnInv ==
  /\ Sane(conn)
  /\ pc \notin {"write", "abandon"} => ~conn.stmt
  /\ Open = {} /\ ~(pc = "write" /\ Atomic(conn)) => conn.tx = "none"
  /\ Open # {} /\ (pc = "insert" \/ result = "ok") => conn.tx = "open"

\* What a running write() has stored or holds back.
WriteInv ==
  /\ pc = "write" => conn.stmt
  /\ pc = "write" /\ Atomic(conn) =>
       conn.tx = "open" /\ conn.view = conn.db \cup (given \ todo)
  /\ pc = "write" /\ conn.backend = "postgres" => conn.buffer = given \ todo
  /\ conn.buffer \subseteq given

\* What the program knows.
KnowledgeInv ==
  /\ kept \subseteq conn.db
  /\ conn.db \subseteq kept \cup unknown
  /\ Open = {} /\ pc # "idle" /\ ~(pc # "insert" /\ Atomic(conn)) =>
       given \subseteq unknown
  /\ pc = "insert" => given \ todo \subseteq conn.view
  /\ pc = "insert" /\ Open # {} => given \cap conn.db = {}
  /\ Open # {} /\ (pc = "insert" \/ result = "ok") =>
       /\ acked \subseteq conn.view
       /\ conn.view \subseteq kept \cup acked \cup unknown \cup (given \ todo)

Inv == TypeOK /\ OpenInv /\ ConnInv /\ WriteInv /\ KnowledgeInv

LEMMA InitInv == Init => Inv
<1> SUFFICES ASSUME Init PROVE Inv
  OBVIOUS
<1>1. PICK b \in Backends : conn = Fresh(b)
  BY DEF Init
<1>2. /\ conn \in Connections(Rows) /\ conn.db = {} /\ conn.view = {} /\ conn.tx = "none"
      /\ conn.stmt = FALSE /\ conn.buffer = {}
  BY <1>1, ClientAssumption DEF Fresh, Connections
<1>3. TypeOK
  BY <1>2 DEF Init, TypeOK, Statuses, Steps
<1>. QED BY <1>2, <1>3 DEF Init, Inv, OpenInv, OneOpen, ConnInv, WriteInv, KnowledgeInv, Open, Sane

-----------------------------------------------------------------------------
\* Transaction objects.

LEMMA RefuseStep ==
  ASSUME Inv, pc = "idle", Refuse PROVE Inv'
BY DEF Refuse, callVars, knowledge, Inv, TypeOK, OpenInv, OneOpen, ConnInv, WriteInv, KnowledgeInv, Open

LEMMA BeginStep ==
  ASSUME Inv, pc = "idle", Open = {}, NEW t \in Objects, Begin(t) PROVE Inv'
<1>1. PICK o \in begin_transaction(conn) :
        /\ conn' = o.conn
        /\ trans' = IF o.ok THEN [trans EXCEPT ![t] = "open"] ELSE trans
        /\ result' = Verdict(o)
        /\ UNCHANGED <<callVars, knowledge>>
  BY DEF Begin
<1>2. conn \in Connections(Rows) /\ Sane(conn) /\ conn.tx = "none" /\ ~conn.stmt
  BY DEF Inv, TypeOK, ConnInv
<1>3. o \in {Ok(Begun(conn)), Fail(conn)}
  BY <1>2, BeginContract
<1>4. CASE o = Ok(Begun(conn))
  <2>1. conn' = Begun(conn) /\ o.ok = TRUE
    BY <1>1, <1>4, ResultFields
  <2>2. /\ conn' \in Connections(Rows) /\ conn'.backend = conn.backend /\ conn'.db = conn.db
        /\ conn'.view = conn.view /\ conn'.tx = "open" /\ conn'.stmt = conn.stmt
        /\ conn'.buffer = conn.buffer
    BY <1>2, <2>1 DEF Begun, Connections
  <2>3. trans' = [trans EXCEPT ![t] = "open"] /\ result' = "ok"
    BY <1>1, <2>1 DEF Verdict
  <2>4. TypeOK'
    BY <1>1, <2>2, <2>3 DEF Inv, TypeOK, Statuses, callVars, knowledge
  <2>5. OpenInv' /\ Open' # {}
    BY <1>1, <2>3 DEF Inv, TypeOK, OpenInv, OneOpen, Open, callVars, knowledge
  <2>6. ConnInv' /\ WriteInv' /\ KnowledgeInv'
    BY <1>1, <1>2, <2>2, <2>5 DEF Inv, OpenInv, ConnInv, WriteInv, KnowledgeInv, Sane, Atomic, callVars, knowledge
  <2>. QED BY <2>4, <2>5, <2>6 DEF Inv
<1>5. CASE o = Fail(conn)
  <2>1. conn' = conn /\ o.ok = FALSE
    BY <1>1, <1>5, ResultFields
  <2>2. trans' = trans /\ result' = "error"
    BY <1>1, <2>1 DEF Verdict
  <2>. QED BY <1>1, <2>1, <2>2
       DEF callVars, knowledge, Inv, TypeOK, OpenInv, OneOpen, ConnInv, WriteInv, KnowledgeInv, Open
<1>. QED BY <1>3, <1>4, <1>5

LEMMA CommitStep ==
  ASSUME Inv, Careful, NEW t \in Objects, Commit(t) PROVE Inv'
<1>1. CASE trans[t] \in {"ended", "moved"} /\ Refuse
  BY <1>1, RefuseStep DEF Commit, Proceeds, Idle
<1>2. CASE trans[t] = "open"
  <2>1. PICK o \in commit(conn) :
          /\ conn' = o.conn
          /\ trans' = IF o.ok THEN [trans EXCEPT ![t] = "ended"] ELSE trans
          /\ result' = Verdict(o)
          /\ kept' = IF o.ok THEN kept \cup acked ELSE kept
          /\ acked' = IF o.ok THEN {} ELSE acked
          /\ UNCHANGED <<callVars, unknown>>
    BY <1>2 DEF Commit
  <2>2. Open # {} /\ pc = "idle" /\ result = "ok"
    BY <1>2 DEF Commit, Proceeds, Idle, Open, Careful
  <2>3. conn \in Connections(Rows) /\ Sane(conn) /\ conn.tx = "open" /\ ~conn.stmt /\ given = {}
    BY <2>2 DEF Inv, TypeOK, OpenInv, ConnInv
  <2>4. o \in {Ok(Committed(conn)), Fail(RolledBack(conn)), Fail(conn)}
    BY <2>3, CommitContract
  <2>5. CASE o = Ok(Committed(conn))
    <3>1. conn' = Committed(conn) /\ o.ok = TRUE
      BY <2>1, <2>5, ResultFields
    <3>2. /\ conn' \in Connections(Rows) /\ conn'.backend = conn.backend /\ conn'.db = conn.view
          /\ conn'.view = conn.view /\ conn'.tx = "none" /\ conn'.stmt = conn.stmt
          /\ conn'.buffer = conn.buffer
      BY <2>3, <3>1, CommittedFields, TransactionFields
    <3>3. trans' = [trans EXCEPT ![t] = "ended"] /\ kept' = kept \cup acked /\ acked' = {} /\ result' = "ok"
      BY <2>1, <3>1 DEF Verdict
    <3>4. TypeOK'
      BY <2>1, <3>2, <3>3 DEF Inv, TypeOK, Statuses, callVars
    <3>5. OpenInv' /\ Open' = {}
      BY <1>2, <2>1, <3>3 DEF Inv, TypeOK, OpenInv, OneOpen, Open, callVars
    <3>6. ConnInv' /\ WriteInv'
      BY <2>1, <2>2, <2>3, <3>2, <3>5 DEF Inv, ConnInv, WriteInv, Sane, Atomic, callVars
    <3>7. KnowledgeInv'
      BY <2>1, <2>2, <2>3, <3>2, <3>3, <3>5 DEF Inv, TypeOK, ConnInv, KnowledgeInv, Sane, callVars
    <3>. QED BY <3>4, <3>5, <3>6, <3>7 DEF Inv
  <2>6. CASE o \in {Fail(RolledBack(conn)), Fail(conn)}
    <3>1. conn' \in {RolledBack(conn), conn} /\ o.ok = FALSE
      BY <2>1, <2>6, ResultFields
    <3>2. trans' = trans /\ kept' = kept /\ acked' = acked /\ result' = "error"
      BY <2>1, <3>1 DEF Verdict
    <3>3. /\ conn' \in Connections(Rows) /\ conn'.backend = conn.backend /\ conn'.db = conn.db
          /\ conn'.stmt = conn.stmt /\ conn'.buffer = conn.buffer
          /\ Sane(conn')
      BY <2>3, <3>1, RolledBackFields, TransactionFields DEF Sane, Atomic
    <3>4. TypeOK'
      BY <2>1, <3>2, <3>3 DEF Inv, TypeOK, callVars
    <3>5. OpenInv' /\ Open' # {}
      BY <2>1, <2>2, <3>2 DEF Inv, OpenInv, OneOpen, Open, callVars
    <3>6. ConnInv' /\ WriteInv' /\ KnowledgeInv'
      BY <2>1, <2>2, <2>3, <3>2, <3>3, <3>5 DEF Inv, ConnInv, WriteInv, KnowledgeInv, callVars
    <3>. QED BY <3>4, <3>5, <3>6 DEF Inv
  <2>. QED BY <2>4, <2>5, <2>6
<1>. QED BY <1>1, <1>2 DEF Commit


\* What rollback() leaves behind.
LEMMA RolledBackState ==
  ASSUME Inv, NEW o \in rollback(conn)
  PROVE  /\ o.conn \in Connections(Rows) /\ Sane(o.conn)
         /\ o.conn.backend = conn.backend /\ o.conn.db = conn.db /\ o.conn.view = conn.db
         /\ o.conn.tx = "none" /\ o.conn.stmt = conn.stmt /\ o.conn.buffer = conn.buffer
<1>1. conn \in Connections(Rows) /\ Sane(conn)
  BY DEF Inv, TypeOK, ConnInv
<1>2. o \in {Ok(RolledBack(conn)), Fail(RolledBack(conn))}
  BY <1>1, RollbackContract
<1>3. o.conn = RolledBack(conn)
  BY <1>2, ResultFields
<1>. QED BY <1>1, <1>3, RolledBackFields, TransactionFields DEF Sane, Atomic

\* A transaction that was rolled back, of which one object at most is open.
LEMMA UndoneStep ==
  ASSUME Inv, pc = "idle", UNCHANGED <<callVars, kept, unknown>>, acked' = {},
         trans' \in [Objects -> Statuses], Open' \subseteq Open, result' \in {"ok", "error"},
         Open' = {} \/ result' = "error",
         /\ conn' \in Connections(Rows) /\ Sane(conn')
         /\ conn'.backend = conn.backend /\ conn'.db = conn.db /\ conn'.view = conn.db
         /\ conn'.tx = "none" /\ conn'.stmt = conn.stmt /\ conn'.buffer = conn.buffer
  PROVE  Inv'
<1>1. TypeOK'
  BY DEF Inv, TypeOK, callVars
<1>2. OpenInv'
  <2>1. \A t \in Objects : trans'[t] = "open" => trans[t] = "open"
    BY DEF Open
  <2>. QED BY <2>1 DEF Inv, OpenInv, OneOpen, callVars
<1>3. ConnInv' /\ WriteInv' /\ KnowledgeInv'
  BY DEF Inv, OpenInv, ConnInv, WriteInv, KnowledgeInv, Atomic, Sane, callVars
<1>. QED BY <1>1, <1>2, <1>3 DEF Inv

LEMMA RollbackStep ==
  ASSUME Inv, NEW t \in Objects, Rollback(t) PROVE Inv'
<1>1. CASE trans[t] \in {"ended", "moved"} /\ Refuse
  BY <1>1, RefuseStep DEF Rollback, Idle
<1>2. CASE trans[t] = "open"
  <2>1. PICK o \in rollback(conn) :
          /\ conn' = o.conn
          /\ trans' = IF o.ok THEN [trans EXCEPT ![t] = "ended"] ELSE trans
          /\ result' = Verdict(o)
          /\ acked' = {}
          /\ UNCHANGED <<callVars, kept, unknown>>
    BY <1>2 DEF Rollback
  <2>2. \A u \in Objects : trans[u] = "open" => u = t
    BY <1>2 DEF Inv, OpenInv, OneOpen
  <2>3. trans' \in [Objects -> Statuses] /\ Open' \subseteq Open
    BY <2>1 DEF Inv, TypeOK, Statuses, Open
  <2>4. result' \in {"ok", "error"} /\ (Open' = {} \/ result' = "error")
    <3>1. CASE o.ok
      BY <2>1, <2>2, <3>1 DEF Inv, TypeOK, Open, Verdict
    <3>2. CASE ~o.ok
      BY <2>1, <3>2 DEF Verdict
    <3>. QED BY <3>1, <3>2
  <2>5. pc = "idle"
    BY DEF Rollback, Idle
  <2>. QED BY <2>1, <2>3, <2>4, <2>5, RolledBackState, UndoneStep
<1>. QED BY <1>1, <1>2 DEF Rollback

LEMMA DestroyStep ==
  ASSUME Inv, NEW t \in Objects, Destroy(t) PROVE Inv'
<1>1. /\ pc = "idle" /\ trans' = [trans EXCEPT ![t] = "dead"]
      /\ UNCHANGED <<callVars, result, kept, unknown>>
  BY DEF Destroy, Idle
<1>2. trans' \in [Objects -> Statuses] /\ Open' \subseteq Open /\ result' \in {"ok", "error"}
  BY <1>1 DEF Inv, TypeOK, Statuses, Open
<1>3. CASE trans[t] = "open"
  <2>1. PICK o \in rollback(conn) : conn' = o.conn
    BY <1>3 DEF Destroy
  <2>2. acked' = {}
    BY <1>3 DEF Destroy
  <2>3. Open' = {}
    BY <1>1, <1>3 DEF Inv, TypeOK, OpenInv, OneOpen, Open
  <2>. QED BY <1>1, <1>2, <2>1, <2>2, <2>3, RolledBackState, UndoneStep
<1>4. CASE trans[t] # "open"
  <2>1. Open' = Open /\ conn' = conn /\ acked' = acked
    BY <1>1, <1>4 DEF Destroy, Inv, TypeOK, Open
  <2>2. OneOpen'
    BY <1>1, <1>4 DEF Inv, TypeOK, OpenInv, OneOpen
  <2>. QED BY <1>1, <1>2, <2>1, <2>2 DEF callVars, Inv, TypeOK, OpenInv, ConnInv, WriteInv, KnowledgeInv
<1>. QED BY <1>3, <1>4

\* The transaction changes hands.
LEMMA HandedOver ==
  ASSUME Inv, UNCHANGED <<conn, callVars, result, knowledge>>, trans' \in [Objects -> Statuses],
         OneOpen', Open' = {} <=> Open = {}
  PROVE  Inv'
BY DEF callVars, knowledge, Inv, TypeOK, OpenInv, ConnInv, WriteInv, KnowledgeInv

LEMMA MoveStep ==
  ASSUME Inv, NEW t \in Objects, NEW u \in Objects, Move(t, u) PROVE Inv'
<1>1. /\ trans' = [trans EXCEPT ![t] = "moved", ![u] = trans[t]]
      /\ trans[t] # "dead" /\ trans[u] = "dead"
      /\ UNCHANGED <<conn, callVars, result, knowledge>>
  BY DEF Move
<1>2. trans \in [Objects -> Statuses] /\ OneOpen
  BY DEF Inv, TypeOK, OpenInv
<1>3. /\ trans' \in [Objects -> Statuses]
      /\ t # u /\ trans'[t] = "moved" /\ trans'[u] = trans[t]
      /\ \A v \in Objects \ {t, u} : trans'[v] = trans[v]
  BY <1>1, <1>2 DEF Statuses
<1>4. OneOpen'
  BY <1>1, <1>2, <1>3 DEF OneOpen
<1>5. Open' = {} <=> Open = {}
  BY <1>1, <1>3 DEF Open
<1>. QED BY <1>1, <1>3, <1>4, <1>5, HandedOver

LEMMA MoveAssignStep ==
  ASSUME Inv, Careful, NEW t \in Objects, NEW u \in Objects, MoveAssign(t, u) PROVE Inv'
<1>1. /\ trans' = [trans EXCEPT ![t] = trans[u],
                                ![u] = IF @ = "moved" THEN "moved" ELSE "ended"]
      /\ t # u /\ trans[t] # "open"
      /\ UNCHANGED <<conn, callVars, result, knowledge>>
  BY DEF MoveAssign, Careful
<1>2. trans \in [Objects -> Statuses] /\ OneOpen
  BY DEF Inv, TypeOK, OpenInv
<1>3. /\ trans' \in [Objects -> Statuses]
      /\ trans'[t] = trans[u] /\ trans'[u] \in {"moved", "ended"}
      /\ \A v \in Objects \ {t, u} : trans'[v] = trans[v]
  BY <1>1, <1>2 DEF Statuses
<1>4. OneOpen'
  BY <1>1, <1>2, <1>3 DEF OneOpen
<1>5. Open' = {} <=> Open = {}
  BY <1>1, <1>3 DEF Open
<1>. QED BY <1>1, <1>3, <1>4, <1>5, HandedOver

LEMMA BeginTransactionStep ==
  ASSUME Inv, Careful, NEW t \in Objects, BeginTransaction(t) \/ Rebegin(t) PROVE Inv'
<1>1. CASE BeginTransaction(t)
  BY <1>1, BeginStep DEF BeginTransaction, Proceeds, Idle, Careful
<1>2. CASE Rebegin(t) /\ trans[t] = "ended"
  <2>1. pc = "idle" /\ Open = {} /\ Begin(t)
    BY <1>2 DEF Rebegin, Proceeds, Idle, Careful, Open
  <2>. QED BY <2>1, BeginStep
<1>3. CASE Rebegin(t) /\ trans[t] = "open"
  <2>1. pc = "idle" /\ Refuse
    BY <1>3 DEF Rebegin, Proceeds, Idle
  <2>. QED BY <2>1, RefuseStep
<1>. QED BY <1>1, <1>2, <1>3 DEF Rebegin

-----------------------------------------------------------------------------
\* write().

LEMMA CallWriteStep ==
  ASSUME Inv, Careful, NEW rows \in SUBSET Rows, CallWrite(rows) PROVE Inv'
<1>1. Open = {} /\ pc = "idle"
  BY DEF CallWrite, Call, Careful, Proceeds, Idle
<1>2. /\ pc' = "execute" /\ given' = rows /\ todo' = rows
      /\ unknown' = IF Atomic(conn) THEN unknown ELSE unknown \cup rows
      /\ UNCHANGED <<conn, trans, result, kept, acked>>
  BY <1>1 DEF CallWrite, Call, AtomicWrite, Atomic
<1>3. TypeOK'
  BY <1>2 DEF Inv, TypeOK, Steps
<1>4. Open' = {} /\ OneOpen'
  BY <1>1, <1>2 DEF Open, Inv, OpenInv, OneOpen
<1>5. OpenInv' /\ ConnInv' /\ WriteInv' /\ KnowledgeInv'
  BY <1>1, <1>2, <1>4 DEF Inv, OpenInv, ConnInv, WriteInv, KnowledgeInv, Sane
<1>. QED BY <1>3, <1>5 DEF Inv

\* A step of write() before the first batch fails: nothing has changed.
LEMMA GivenUpStep ==
  ASSUME Inv, pc \in {"execute", "start_write"}, Return("error"), conn' = conn PROVE Inv'
<1>1. /\ pc' = "idle" /\ given' = {} /\ todo' = {} /\ result' = "error"
      /\ kept' = kept /\ acked' = acked /\ unknown' = unknown /\ trans' = trans
  <2>1. Learned("error") = {}
    BY DEF Learned
  <2>. QED BY <2>1 DEF Return
<1>2. TypeOK'
  BY <1>1 DEF Inv, TypeOK, Steps
<1>3. Open = {} /\ Open' = {} /\ OneOpen'
  BY <1>1 DEF Open, Inv, OpenInv, OneOpen
<1>4. OpenInv' /\ ConnInv' /\ WriteInv' /\ KnowledgeInv'
  BY <1>1, <1>3 DEF Inv, OpenInv, ConnInv, WriteInv, KnowledgeInv, Sane
<1>. QED BY <1>2, <1>4 DEF Inv

LEMMA CreateTableStep ==
  ASSUME Inv, CreateTable PROVE Inv'
<1>1. pc = "execute" /\ conn \in Connections(Rows) /\ Sane(conn) /\ conn.tx = "none"
  BY DEF CreateTable, Inv, TypeOK, OpenInv, ConnInv
<1>2. PICK o \in execute(conn) : Continue(o, "start_write")
  BY DEF CreateTable
<1>3. o \in {Ok(conn), Fail(conn)}
  BY <1>1, <1>2, ExecuteContract
<1>4. CASE o = Ok(conn)
  <2>1. conn' = conn /\ pc' = "start_write" /\ UNCHANGED <<trans, given, todo, result, knowledge>>
    BY <1>2, <1>4, ResultFields DEF Continue
  <2>2. TypeOK'
    BY <2>1 DEF knowledge, Inv, TypeOK, Steps
  <2>3. Open' = Open /\ OneOpen'
    BY <2>1 DEF Open, Inv, OpenInv, OneOpen
  <2>4. OpenInv' /\ ConnInv' /\ WriteInv' /\ KnowledgeInv'
    BY <1>1, <2>1, <2>3 DEF knowledge, Inv, OpenInv, ConnInv, WriteInv, KnowledgeInv
  <2>. QED BY <2>2, <2>4 DEF Inv
<1>5. CASE o = Fail(conn)
  <2>1. conn' = conn /\ Return("error")
    BY <1>2, <1>5, ResultFields DEF Continue
  <2>. QED BY <1>1, <2>1, GivenUpStep
<1>. QED BY <1>3, <1>4, <1>5

LEMMA StartWriteStep ==
  ASSUME Inv, StartWrite PROVE Inv'
<1>1. /\ pc = "start_write" /\ conn \in Connections(Rows) /\ Sane(conn)
      /\ conn.tx = "none" /\ ~conn.stmt
  BY DEF StartWrite, Inv, TypeOK, OpenInv, ConnInv
<1>2. PICK o \in start_write(conn) : Continue(o, "write")
  BY DEF StartWrite
<1>3. o \in {Ok(Started(conn)), Fail(conn)}
  BY <1>1, <1>2, StartContract
<1>4. CASE o = Ok(Started(conn))
  <2>1. conn' = Started(conn) /\ pc' = "write" /\ UNCHANGED <<trans, given, todo, result, knowledge>>
    BY <1>2, <1>4, ResultFields DEF Continue
  <2>2. /\ conn' \in Connections(Rows) /\ conn'.backend = conn.backend /\ conn'.db = conn.db
        /\ conn'.view = conn.db /\ conn'.buffer = {} /\ conn'.stmt
        /\ Atomic(conn) => conn'.tx = "open"
        /\ ~Atomic(conn) => conn'.tx = "none"
    <3>1. CASE Atomic(conn)
      BY <1>1, <2>1, <3>1 DEF Started, Connections, Sane
    <3>2. CASE ~Atomic(conn)
      BY <1>1, <2>1, <3>2 DEF Started, Connections, Sane
    <3>. QED BY <3>1, <3>2
  <2>3. TypeOK'
    BY <2>1, <2>2 DEF knowledge, Inv, TypeOK, Steps
  <2>4. Open = {} /\ Open' = {} /\ OneOpen' /\ given = todo
    <3>1. Open = {}
      BY <1>1 DEF Inv, OpenInv
    <3>2. given = todo
      BY <1>1 DEF Inv, OpenInv
    <3>. QED BY <2>1, <3>1, <3>2 DEF Open, Inv, OpenInv, OneOpen
  <2>5. OpenInv' /\ ConnInv' /\ WriteInv' /\ KnowledgeInv'
    BY <1>1, <2>1, <2>2, <2>4 DEF knowledge, Inv, OpenInv, ConnInv, WriteInv, KnowledgeInv, Atomic, Sane
  <2>. QED BY <2>3, <2>5 DEF Inv
<1>5. CASE o = Fail(conn)
  <2>1. conn' = conn /\ Return("error")
    BY <1>2, <1>5, ResultFields DEF Continue
  <2>. QED BY <1>1, <2>1, GivenUpStep
<1>. QED BY <1>3, <1>4, <1>5

LEMMA BatchesAreTaken == ASSUME NEW b \in Batches PROVE b \subseteq todo
<1>1. CASE conn.backend = "duckdb"
  BY <1>1 DEF Batches
<1>2. CASE conn.backend # "duckdb"
  BY <1>2, Zenon DEF Batches
<1>. QED BY <1>1, <1>2

LEMMA WriteBatchStep ==
  ASSUME Inv, WriteBatch PROVE Inv'
<1>1. PICK b \in Batches : \E o \in write_impl(conn, b) :
         /\ conn' = o.conn
         /\ pc' = IF o.ok THEN "write" ELSE "abandon"
         /\ todo' = todo \ b
  BY DEF WriteBatch
<1>2. PICK o \in write_impl(conn, b) :
         /\ conn' = o.conn
         /\ pc' = IF o.ok THEN "write" ELSE "abandon"
         /\ todo' = todo \ b
  BY <1>1
<1>3. b \subseteq todo
  BY BatchesAreTaken
<1>4. /\ pc = "write" /\ UNCHANGED <<trans, given, result, kept, acked, unknown>>
      /\ conn \in Connections(Rows) /\ Sane(conn) /\ conn.stmt /\ Open = {}
  BY DEF WriteBatch, knowledge, Inv, TypeOK, OpenInv, ConnInv, WriteInv
<1>5. b \in SUBSET Rows /\ given \ (todo \ b) = (given \ todo) \cup b
  BY <1>3 DEF Inv, TypeOK
<1>6. Open' = {} /\ OneOpen' /\ pc' \in {"write", "abandon"}
  BY <1>2, <1>4 DEF Open, Inv, OpenInv, OneOpen
<1>7. OpenInv'
  BY <1>4, <1>6 DEF Inv, OpenInv
<1>8. CASE Atomic(conn)
  <2>1. o.conn \in Connections(Rows) /\ o.ok \in BOOLEAN /\ AtomicallyWritten(conn, b, o.conn, o.ok)
    BY <1>4, <1>5, <1>8, AtomicWriteContract DEF Inv, WriteInv
  <2>2. /\ conn'.backend = conn.backend /\ conn'.db = conn.db /\ conn'.buffer = {}
        /\ pc' = "write" => conn'.stmt /\ conn'.tx = "open" /\ conn'.view = conn.view \cup b
        /\ pc' = "abandon" => conn'.tx = "none" /\ conn'.view = conn.db
    BY <1>2, <2>1 DEF AtomicallyWritten
  <2>3. conn.view = conn.db \cup (given \ todo)
    BY <1>4, <1>8 DEF Inv, WriteInv
  <2>4. TypeOK'
    BY <1>2, <1>3, <1>4, <1>6, <2>1 DEF Inv, TypeOK, Steps
  <2>5. ConnInv'
    BY <1>4, <1>6, <1>8, <2>2, <2>3 DEF ConnInv, Sane, Atomic
  <2>6. conn'.view = conn'.db \cup (given' \ todo') \/ pc' = "abandon"
    BY <1>2, <1>4, <1>5, <1>6, <2>2, <2>3
  <2>7. WriteInv'
    BY <1>4, <1>6, <1>8, <2>2, <2>6 DEF WriteInv, Atomic
  <2>8. KnowledgeInv'
    <3>1. CASE pc' = "write"
      BY <1>4, <1>6, <1>8, <2>2, <3>1 DEF Inv, KnowledgeInv, Atomic
    <3>2. CASE pc' = "abandon"
      BY <1>4, <1>6, <1>8, <2>2, <3>2 DEF Inv, KnowledgeInv, Atomic
    <3>. QED BY <1>6, <3>1, <3>2
  <2>. QED BY <1>7, <2>4, <2>5, <2>7, <2>8 DEF Inv
<1>9. CASE ~Atomic(conn)
  <2>1. conn.tx = "none" /\ conn.view = conn.db /\ conn.buffer \subseteq given /\ given \subseteq unknown
    BY <1>4, <1>9 DEF Inv, ConnInv, Sane, WriteInv, KnowledgeInv
  <2>2. o.conn \in Connections(Rows) /\ o.ok \in BOOLEAN /\ Streamed(conn, b, o.conn, o.ok)
    BY <1>4, <1>5, <1>9, <2>1, StreamContract
  <2>3. /\ conn'.backend = conn.backend
        /\ conn.db \subseteq conn'.db /\ conn'.db \subseteq conn.db \cup (conn.buffer \cup b)
        /\ conn'.tx = "none" /\ conn'.view = conn'.db
        /\ conn'.buffer \subseteq conn.buffer \cup b
        /\ ~conn'.stmt => conn'.buffer = {}
        /\ pc' = "write" => conn'.stmt
        /\ pc' = "write" /\ conn.backend = "postgres" => conn'.buffer = conn.buffer \cup b
    BY <1>2, <2>1, <2>2 DEF Streamed, Grew
  <2>4. TypeOK'
    BY <1>2, <1>3, <1>4, <1>6, <2>2 DEF Inv, TypeOK, Steps
  <2>5. ConnInv'
    BY <1>4, <1>6, <1>9, <2>3 DEF ConnInv, Sane, Atomic
  <2>6. b \subseteq given
    BY <1>3 DEF Inv, TypeOK
  <2>7. pc' = "write" /\ conn.backend = "postgres" => conn'.buffer = given' \ todo'
    <3>1. conn.backend = "postgres" => conn.buffer = given \ todo
      BY <1>4 DEF Inv, WriteInv
    <3>. QED BY <1>2, <1>4, <1>5, <2>3, <3>1
  <2>8. WriteInv'
    BY <1>4, <1>6, <1>9, <2>1, <2>3, <2>6, <2>7 DEF WriteInv, Atomic
  <2>9. KnowledgeInv'
    BY <1>4, <1>6, <1>9, <2>1, <2>3, <2>6 DEF Inv, KnowledgeInv, Atomic
  <2>. QED BY <1>7, <2>4, <2>5, <2>8, <2>9 DEF Inv
<1>. QED BY <1>8, <1>9

\* A write() returns: what end_write() does and what the program concludes.
LEMMA WriteReturns ==
  ASSUME Inv, Careful, pc \in {"write", "abandon"}, pc = "write" => todo = {},
         NEW o \in end_write(conn), conn' = o.conn,
         NEW verdict \in {"ok", "error"}, verdict = "ok" => pc = "write" /\ o.ok,
         Return(verdict),
         pc = "write" /\ Atomic(conn) => (verdict = "ok" <=> o.ok)
  PROVE  Inv'
<1>1. /\ conn \in Connections(Rows) /\ Sane(conn) /\ Open = {} /\ acked = {}
      /\ conn.tx = "none" \/ (pc = "write" /\ Atomic(conn) /\ conn.tx = "open" /\ conn.stmt)
  BY DEF Inv, TypeOK, OpenInv, ConnInv, WriteInv
<1>2. o.conn \in Connections(Rows) /\ o.ok \in BOOLEAN /\ WriteEnded(conn, o.conn, o.ok)
  BY <1>1, EndWriteContract
<1>3. /\ conn' \in Connections(Rows)
      /\ conn'.backend = conn.backend /\ conn'.tx = "none" /\ conn'.view = conn'.db
      /\ conn'.stmt = FALSE /\ conn'.buffer = {}
      /\ conn.db \subseteq conn'.db /\ conn'.db \subseteq conn.view \cup conn.buffer
      /\ ~o.ok /\ Atomic(conn) => conn'.db = conn.db
      /\ o.ok /\ conn.stmt /\ conn.backend # "duckdb" => conn'.db = conn.view \cup conn.buffer
  BY <1>2 DEF WriteEnded
<1> DEFINE new == Learned(verdict)
<1>4. /\ pc' = "idle" /\ given' = {} /\ todo' = {} /\ result' = verdict /\ trans' = trans
      /\ kept' = kept \cup new /\ acked' = {} /\ unknown' = unknown \ new
  BY <1>1 DEF Return
<1>5. new \subseteq given /\ (verdict = "ok" /\ conn.backend # "duckdb" => new = given)
      /\ (conn.backend = "duckdb" => new = {}) /\ (verdict = "error" => new = {})
  BY <1>1 DEF Learned, Careful, Connections
<1>6. Open' = {} /\ OneOpen'
  BY <1>1, <1>4 DEF Open, Inv, OpenInv, OneOpen
<1>7. TypeOK'
  BY <1>3, <1>4, <1>5 DEF Inv, TypeOK, Steps
<1>8. OpenInv' /\ ConnInv' /\ WriteInv'
  BY <1>3, <1>4, <1>6 DEF OpenInv, ConnInv, WriteInv, Sane
<1>9. new \subseteq conn'.db
  <2>1. CASE verdict = "ok" /\ conn.backend = "postgres"
    BY <1>3, <1>5, <2>1 DEF Inv, TypeOK, WriteInv
  <2>2. CASE verdict = "ok" /\ Atomic(conn)
    BY <1>3, <1>5, <2>2 DEF Inv, TypeOK, WriteInv, Atomic
  <2>3. CASE verdict = "error" \/ conn.backend = "duckdb"
    BY <1>5, <2>3
  <2>. QED BY <1>1, <2>1, <2>2, <2>3, FourBackends DEF Atomic
<1>10. conn'.db \subseteq kept' \cup unknown'
  <2>1. conn.db \subseteq kept \cup unknown
    BY DEF Inv, KnowledgeInv
  <2>2. CASE Atomic(conn) /\ verdict = "ok"
    <3>1. conn'.db \subseteq conn.db \cup given /\ new = given
      BY <1>3, <1>5, <2>2 DEF Inv, WriteInv, Atomic, Sane
    <3>. QED BY <1>4, <2>1, <3>1
  <2>3. CASE Atomic(conn) /\ verdict = "error"
    <3>1. conn'.db \subseteq conn.db
      <4>1. CASE pc = "write"
        BY <1>3, <2>3, <4>1
      <4>2. CASE pc = "abandon"
        BY <1>1, <1>3, <2>3, <4>2 DEF Sane
      <4>. QED BY <4>1, <4>2
    <3>. QED BY <1>4, <1>5, <2>1, <2>3, <3>1
  <2>4. CASE ~Atomic(conn)
    <3>1. conn.view = conn.db /\ conn.buffer \subseteq given /\ given \subseteq unknown
      BY <1>1, <2>4 DEF Inv, Sane, WriteInv, KnowledgeInv
    <3>. QED BY <1>3, <1>4, <2>1, <3>1
  <2>. QED BY <2>2, <2>3, <2>4
<1>11. KnowledgeInv'
  <2>1. kept' \subseteq conn'.db
    BY <1>3, <1>4, <1>9 DEF Inv, KnowledgeInv
  <2>. QED BY <1>4, <1>6, <1>10, <2>1 DEF KnowledgeInv
<1>. QED BY <1>7, <1>8, <1>11 DEF Inv

LEMMA AbandonStep ==
  ASSUME Inv, Careful, Abandon PROVE Inv'
<1>1. pc = "abandon" /\ Return("error")
  BY DEF Abandon
<1>2. PICK o \in end_write(conn) : conn' = o.conn
  BY DEF Abandon
<1>. QED BY <1>1, <1>2, WriteReturns

LEMMA EndWriteStep ==
  ASSUME Inv, Careful, EndWrite PROVE Inv'
<1>1. PICK o \in end_write(conn) : conn' = o.conn /\ Return(Verdict(o))
  BY DEF EndWrite
<1>2. pc = "write" /\ todo = {}
  BY DEF EndWrite
<1>3. Verdict(o) \in {"ok", "error"} /\ (Verdict(o) = "ok" <=> o.ok)
  BY DEF Verdict
<1>. QED BY <1>1, <1>2, <1>3, WriteReturns

-----------------------------------------------------------------------------
\* insert().

LEMMA CallInsertStep ==
  ASSUME Inv, Careful, NEW rows \in SUBSET Rows, CallInsert(rows) PROVE Inv'
<1>1. /\ pc = "idle" /\ rows \cap conn.view = {} /\ (Open = {} \/ result = "ok")
      /\ pc' = "insert" /\ given' = rows /\ todo' = rows
      /\ unknown' = IF Open = {} THEN unknown \cup rows ELSE unknown
      /\ UNCHANGED <<conn, trans, result, kept, acked>>
  BY DEF CallInsert, Call, Careful, Proceeds, Idle
<1>2. TypeOK'
  BY <1>1 DEF Inv, TypeOK, Steps
<1>3. Open' = Open /\ OneOpen'
  BY <1>1 DEF Open, Inv, OpenInv, OneOpen
<1>4. OpenInv' /\ ConnInv' /\ WriteInv'
  BY <1>1, <1>3 DEF Inv, OpenInv, ConnInv, WriteInv, Sane
<1>5. given' \ todo' = {} /\ rows \cap conn.db = {}
  BY <1>1 DEF Inv, ConnInv, Sane
<1>6. KnowledgeInv'
  <2>1. given = {} /\ kept \subseteq conn.db /\ conn.db \subseteq kept \cup unknown
    BY <1>1 DEF Inv, OpenInv, KnowledgeInv
  <2>2. Open # {} => acked \subseteq conn.view /\ conn.view \subseteq kept \cup acked \cup unknown
    BY <1>1, <2>1 DEF Inv, KnowledgeInv
  <2>. QED BY <1>1, <1>3, <1>5, <2>1, <2>2 DEF KnowledgeInv
<1>. QED BY <1>2, <1>4, <1>6 DEF Inv

LEMMA InsertBatchStep ==
  ASSUME Inv, InsertBatch PROVE Inv'
<1>1. PICK b \in Batches : \E o \in insert_impl(conn, b) :
         /\ conn' = o.conn
         /\ IF o.ok THEN todo' = todo \ b /\ UNCHANGED <<trans, pc, given, result, knowledge>>
                    ELSE Return("error")
  BY DEF InsertBatch
<1>2. PICK o \in insert_impl(conn, b) :
         /\ conn' = o.conn
         /\ IF o.ok THEN todo' = todo \ b /\ UNCHANGED <<trans, pc, given, result, knowledge>>
                    ELSE Return("error")
  BY <1>1
<1>3. b \subseteq todo /\ todo \subseteq given
  BY BatchesAreTaken DEF Inv, TypeOK
<1>4. /\ pc = "insert" /\ conn \in Connections(Rows) /\ Sane(conn) /\ ~conn.stmt /\ conn.buffer = {}
      /\ conn.tx = IF Open = {} THEN "none" ELSE "open"
  BY DEF InsertBatch, Inv, TypeOK, OpenInv, ConnInv, Sane
<1>5. b \in SUBSET Rows
  BY <1>3 DEF Inv, TypeOK
<1>6. o.conn \in Connections(Rows) /\ o.ok \in BOOLEAN /\ Inserted(conn, b, o.conn, o.ok)
  BY <1>4, <1>5, InsertContract
<1>7. /\ conn' \in Connections(Rows) /\ Sane(conn')
      /\ conn'.backend = conn.backend /\ conn'.stmt = FALSE /\ conn'.buffer = {}
      /\ Open = {} => /\ conn'.tx = "none" /\ conn'.view = conn'.db
                      /\ conn.db \subseteq conn'.db /\ conn'.db \subseteq conn.db \cup b
                      /\ o.ok => b \subseteq conn'.db
      /\ Open # {} => /\ conn'.db = conn.db
                      /\ o.ok => conn'.tx = "open" /\ conn'.view = conn.view \cup b
  BY <1>2, <1>4, <1>6 DEF Inserted, Sane
<1>8. CASE o.ok
  <2>1. todo' = todo \ b /\ UNCHANGED <<trans, pc, given, result, kept, acked, unknown>>
    BY <1>2, <1>8 DEF knowledge
  <2>2. TypeOK'
    BY <1>3, <1>7, <2>1 DEF Inv, TypeOK
  <2>3. Open' = Open /\ OneOpen'
    BY <2>1 DEF Open, Inv, OpenInv, OneOpen
  <2>4. OpenInv' /\ ConnInv' /\ WriteInv'
    BY <1>4, <1>7, <1>8, <2>1, <2>3 DEF Inv, OpenInv, ConnInv, WriteInv, Sane
  <2>5. given' \ todo' = (given \ todo) \cup b
    BY <1>3, <2>1
  <2>6. CASE Open = {}
    <3>1. given \subseteq unknown /\ given \ todo \subseteq conn.view /\ conn.view = conn.db
      BY <1>4, <2>6 DEF Inv, KnowledgeInv, Sane
    <3>2. kept \subseteq conn'.db /\ conn'.db \subseteq kept \cup unknown
      BY <1>3, <1>7, <2>6, <3>1 DEF Inv, KnowledgeInv
    <3>3. given' \ todo' \subseteq conn'.view
      BY <1>7, <1>8, <2>5, <2>6, <3>1
    <3>4. KnowledgeInv'
      BY <1>4, <2>1, <2>3, <2>6, <3>1, <3>2, <3>3 DEF KnowledgeInv
    <3>. QED BY <2>2, <2>4, <3>4 DEF Inv
  <2>7. CASE Open # {}
    <3>1. /\ given \ todo \subseteq conn.view /\ given \cap conn.db = {}
          /\ acked \subseteq conn.view
          /\ conn.view \subseteq kept \cup acked \cup unknown \cup (given \ todo)
      BY <1>4, <2>7 DEF Inv, KnowledgeInv
    <3>2. conn'.view = conn.view \cup b /\ conn'.db = conn.db
      BY <1>7, <1>8, <2>7
    <3>3. /\ given' \ todo' \subseteq conn'.view
          /\ acked' \subseteq conn'.view
          /\ conn'.view \subseteq kept' \cup acked' \cup unknown' \cup (given' \ todo')
      BY <2>1, <2>5, <3>1, <3>2
    <3>4. KnowledgeInv'
      BY <1>4, <2>1, <2>3, <2>7, <3>1, <3>2, <3>3 DEF Inv, KnowledgeInv
    <3>. QED BY <2>2, <2>4, <3>4 DEF Inv
  <2>. QED BY <2>6, <2>7
<1>9. CASE ~o.ok
  <2>1. /\ pc' = "idle" /\ given' = {} /\ todo' = {} /\ result' = "error"
        /\ kept' = kept /\ acked' = acked /\ unknown' = unknown /\ trans' = trans
    <3>1. Learned("error") = {}
      BY DEF Learned
    <3>. QED BY <1>2, <1>9, <3>1 DEF Return
  <2>2. TypeOK'
    BY <1>7, <2>1 DEF Inv, TypeOK, Steps
  <2>3. Open' = Open /\ OneOpen'
    BY <2>1 DEF Open, Inv, OpenInv, OneOpen
  <2>4. OpenInv' /\ ConnInv' /\ WriteInv'
    BY <1>7, <2>1, <2>3 DEF Inv, OpenInv, ConnInv, WriteInv
  <2>5. kept \subseteq conn'.db /\ conn'.db \subseteq kept \cup unknown
    <3>1. CASE Open = {}
      <4>1. given \subseteq unknown
        BY <1>4, <3>1 DEF Inv, KnowledgeInv
      <4>. QED BY <1>3, <1>7, <3>1, <4>1 DEF Inv, KnowledgeInv
    <3>2. CASE Open # {}
      BY <1>7, <3>2 DEF Inv, KnowledgeInv
    <3>. QED BY <3>1, <3>2
  <2>6. KnowledgeInv'
    BY <2>1, <2>3, <2>5 DEF KnowledgeInv
  <2>. QED BY <2>2, <2>4, <2>6 DEF Inv
<1>. QED BY <1>6, <1>8, <1>9

LEMMA InsertReturnsStep ==
  ASSUME Inv, InsertReturns PROVE Inv'
<1>1. pc = "insert" /\ todo = {} /\ conn' = conn
  BY DEF InsertReturns
<1>2. /\ pc' = "idle" /\ given' = {} /\ todo' = {} /\ result' = "ok"
      /\ kept' = IF Open = {} THEN kept \cup given ELSE kept
      /\ acked' = IF Open = {} THEN acked ELSE acked \cup given
      /\ unknown' = unknown \ given /\ trans' = trans
  <2>1. Learned("ok") = given
    BY <1>1 DEF Learned
  <2>. QED BY <2>1 DEF InsertReturns, Return
<1>3. /\ Sane(conn) /\ ~conn.stmt /\ conn.tx = IF Open = {} THEN "none" ELSE "open"
      /\ given \ todo = given
  BY <1>1 DEF Inv, ConnInv
<1>4. TypeOK'
  BY <1>1, <1>2 DEF Inv, TypeOK, Steps
<1>5. Open' = Open /\ OneOpen'
  BY <1>2 DEF Open, Inv, OpenInv, OneOpen
<1>6. OpenInv' /\ ConnInv' /\ WriteInv'
  BY <1>1, <1>2, <1>3, <1>5 DEF Inv, OpenInv, ConnInv, WriteInv, Sane
<1>7. kept' \subseteq conn.db /\ conn.db \subseteq kept' \cup unknown'
  <2>1. kept \subseteq conn.db /\ conn.db \subseteq kept \cup unknown /\ given \subseteq conn.view
    BY <1>1, <1>3 DEF Inv, KnowledgeInv
  <2>2. CASE Open = {}
    BY <1>2, <1>3, <2>1, <2>2 DEF Sane
  <2>3. CASE Open # {}
    <3>1. given \cap conn.db = {}
      BY <1>1, <2>3 DEF Inv, KnowledgeInv
    <3>. QED BY <1>2, <2>1, <2>3, <3>1
  <2>. QED BY <2>2, <2>3
<1>8. Open # {} => acked' \subseteq conn.view /\ conn.view \subseteq kept' \cup acked' \cup unknown'
  <2>. SUFFICES ASSUME Open # {}
                PROVE  acked' \subseteq conn.view /\ conn.view \subseteq kept' \cup acked' \cup unknown'
    OBVIOUS
  <2>1. /\ given \subseteq conn.view /\ acked \subseteq conn.view
        /\ conn.view \subseteq kept \cup acked \cup unknown \cup given
    BY <1>1, <1>3 DEF Inv, KnowledgeInv
  <2>. QED BY <1>2, <2>1
<1>9. KnowledgeInv'
  BY <1>1, <1>2, <1>5, <1>7, <1>8 DEF KnowledgeInv
<1>. QED BY <1>4, <1>6, <1>9 DEF Inv

-----------------------------------------------------------------------------
LEMMA InvStep ==
  ASSUME Inv, Careful, [Next]_vars PROVE Inv'
<1>1. ASSUME NEW t \in Objects, BeginTransaction(t) \/ Rebegin(t) PROVE Inv'
  BY <1>1, BeginTransactionStep
<1>2. ASSUME NEW t \in Objects, Commit(t) PROVE Inv'
  BY <1>2, CommitStep
<1>3. ASSUME NEW t \in Objects, Rollback(t) PROVE Inv'
  BY <1>3, RollbackStep
<1>4. ASSUME NEW t \in Objects, Destroy(t) PROVE Inv'
  BY <1>4, DestroyStep
<1>5. ASSUME NEW t \in Objects, NEW u \in Objects, Move(t, u) PROVE Inv'
  BY <1>5, MoveStep
<1>6. ASSUME NEW t \in Objects, NEW u \in Objects, MoveAssign(t, u) PROVE Inv'
  BY <1>6, MoveAssignStep
<1>7. ASSUME NEW rows \in SUBSET Rows, CallWrite(rows) PROVE Inv'
  BY <1>7, CallWriteStep
<1>8. ASSUME NEW rows \in SUBSET Rows, CallInsert(rows) PROVE Inv'
  BY <1>8, CallInsertStep
<1>9. CASE CreateTable \/ StartWrite \/ WriteBatch
  BY <1>9, CreateTableStep, StartWriteStep, WriteBatchStep
<1>10. CASE Abandon \/ EndWrite
  BY <1>10, AbandonStep, EndWriteStep
<1>11. CASE InsertBatch \/ InsertReturns
  BY <1>11, InsertBatchStep, InsertReturnsStep
<1>12. CASE UNCHANGED vars
  BY <1>12 DEF vars, callVars, knowledge, Inv, TypeOK, OpenInv, OneOpen, ConnInv, WriteInv, KnowledgeInv, Open
<1>. QED BY <1>1, <1>2, <1>3, <1>4, <1>5, <1>6, <1>7, <1>8, <1>9, <1>10, <1>11, <1>12 DEF Next

\* For a careful program the invariant is inductive: each call finds the
\* connection as the call before it has left it, whatever failed.
THEOREM InvHolds == ASSUME Careful PROVE Spec => []Inv
<1>1. Init => Inv
  BY InitInv
<1>2. Inv /\ [Next]_vars => Inv'
  BY InvStep
<1>. QED BY <1>1, <1>2, PTL DEF Spec

\* Every variable keeps its type; an outcome of a call is a connection again.
THEOREM TypeCorrect == ASSUME Careful PROVE Spec => []TypeOK
BY InvHolds, PTL DEF Inv

\* What write(), insert() and commit() report as stored stays committed, on
\* every backend whose write() can be believed.
THEOREM RowsAreKept == ASSUME Careful PROVE Spec => []NothingLost
<1>1. Inv => NothingLost
  BY DEF Inv, KnowledgeInv, NothingLost
<1>. QED BY <1>1, InvHolds, PTL

\* A failed write(), and a transaction that was not committed, leave nothing
\* behind.
THEOREM RowsAreInvited == ASSUME Careful PROVE Spec => []NothingUninvited
<1>1. Inv => NothingUninvited
  BY DEF Inv, KnowledgeInv, NothingUninvited
<1>. QED BY <1>1, InvHolds, PTL

\* A program that may go on reads what it was told it has stored.
THEOREM ProgramSeesItsWork == ASSUME Careful PROVE Spec => []SeesOwnWork
<1>1. Inv => SeesOwnWork
  <2>. SUFFICES ASSUME Inv, Proceeds
                PROVE  conn.view \ unknown = (kept \cup acked) \ unknown
    BY DEF SeesOwnWork
  <2>1. CASE Open = {}
    <3>1. conn.view = conn.db /\ acked = {}
      BY <2>1 DEF Proceeds, Idle, Inv, OpenInv, ConnInv, Sane
    <3>. QED BY <3>1 DEF Inv, KnowledgeInv
  <2>2. CASE Open # {}
    <3>1. result = "ok" /\ given = {}
      BY <2>2 DEF Proceeds, Idle, Careful, Inv, OpenInv
    <3>2. kept \subseteq conn.view
      BY DEF Inv, KnowledgeInv, ConnInv, Sane
    <3>3. acked \subseteq conn.view /\ conn.view \subseteq kept \cup acked \cup unknown
      BY <2>2, <3>1 DEF Inv, KnowledgeInv
    <3>. QED BY <3>2, <3>3
  <2>. QED BY <2>1, <2>2
<1>. QED BY <1>1, InvHolds, PTL

\* After each transaction and each call the connection is free of transactions
\* and of writes, whatever failed.
THEOREM ConnectionIsReusable == ASSUME Careful PROVE Spec => []Reusable
<1>1. Inv => Reusable
  BY DEF Reusable, Idle, Inv, ConnInv, Sane
<1>. QED BY <1>1, InvHolds, PTL

=============================================================================
