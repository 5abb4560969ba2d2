------------------------------- MODULE Client -------------------------------
(***************************************************************************)
(* A program that uses one connection of any backend, through Transaction  *)
(* objects, write() and insert().                                          *)
(*                                                                         *)
(* The last three variables are what the program knows from the results it *)
(* got: the rows it may rely on (kept), those of the transaction it is in  *)
(* (acked), and those an insert outside a transaction may or may not have  *)
(* stored (unknown).                                                       *)
(***************************************************************************)
EXTENDS Connection, FiniteSets, FiniteSetsExt, Naturals

CONSTANTS
  Rows,            \* rows a program may store, each at most once
  Objects,         \* places for Transaction objects
  BatchSize,       \* SQLGEN_BATCH_SIZE
  Backends,        \* the connection is of one of these
  Trusted,         \* the backends whose write() the program believes
  Disciplined,     \* after an error the transaction is given up, and a
                   \* connection has one open transaction at a time
  Writes,          \* where write() is called: "outside" a transaction only,
                   \* or "anywhere"
  OverwritesOpen   \* the program assigns to a Transaction that is open

ASSUME ClientAssumption ==
  /\ BatchSize \in Nat \ {0}
  /\ Backends \subseteq AllBackends
  /\ Disciplined \in BOOLEAN
  /\ OverwritesOpen \in BOOLEAN

VARIABLES
  conn,      \* the connection
  trans,     \* the state of each Transaction object
  pc,        \* where the running call is, or "idle"
  given,     \* [_begin, _end) of the call
  todo,      \* the part of it that no batch has taken yet
  result,    \* what the last call returned
  kept, acked, unknown

callVars == <<pc, given, todo>>
knowledge == <<kept, acked, unknown>>
vars == <<conn, trans, callVars, result, knowledge>>

\* transaction_ended_ is FALSE for "open" objects only; the conn_ of a "moved"
\* one is gone.
Statuses == {"dead", "open", "ended", "moved"}
Steps == {"idle", "execute", "start_write", "write", "abandon", "insert"}

Open == {t \in Objects : trans[t] = "open"}
Idle == pc = "idle"
Proceeds == Idle /\ (Disciplined => result = "ok" \/ Open = {})

Verdict(o) == IF o.ok THEN "ok" ELSE "error"

Init ==
  /\ conn \in {Fresh(b) : b \in Backends}
  /\ trans = [t \in Objects |-> "dead"]
  /\ pc = "idle" /\ given = {} /\ todo = {} /\ result = "ok"
  /\ kept = {} /\ acked = {} /\ unknown = {}

-----------------------------------------------------------------------------
\* Transaction objects.

Begin(t) ==
  \E o \in begin_transaction(conn) :
    /\ conn' = o.conn
    /\ trans' = IF o.ok THEN [trans EXCEPT ![t] = "open"] ELSE trans
    /\ result' = Verdict(o)
    /\ UNCHANGED <<callVars, knowledge>>

\* sqlgen::begin_transaction(conn) makes an object if BEGIN succeeds.
BeginTransaction(t) ==
  /\ Proceeds
  /\ Disciplined => Open = {}
  /\ trans[t] = "dead"
  /\ Begin(t)

Refuse ==
  /\ result' = "error"
  /\ UNCHANGED <<conn, trans, callVars, knowledge>>

\* The member begin_transaction(); it dereferences conn_.
Rebegin(t) ==
  /\ Proceeds
  /\ Disciplined => Open \subseteq {t}
  /\ \/ trans[t] = "open" /\ Refuse
     \/ trans[t] = "ended" /\ Begin(t)

Commit(t) ==
  /\ Proceeds
  /\ \/ trans[t] \in {"ended", "moved"} /\ Refuse
     \/ /\ trans[t] = "open"
        /\ \E o \in commit(conn) :
             /\ conn' = o.conn
             /\ trans' = IF o.ok THEN [trans EXCEPT ![t] = "ended"] ELSE trans
             /\ result' = Verdict(o)
             /\ kept' = IF o.ok THEN kept \cup acked ELSE kept
             /\ acked' = IF o.ok THEN {} ELSE acked
        /\ UNCHANGED <<callVars, unknown>>

Rollback(t) ==
  /\ Idle
  /\ \/ trans[t] \in {"ended", "moved"} /\ Refuse
     \/ /\ trans[t] = "open"
        /\ \E o \in rollback(conn) :
             /\ conn' = o.conn
             /\ trans' = IF o.ok THEN [trans EXCEPT ![t] = "ended"] ELSE trans
             /\ result' = Verdict(o)
             /\ acked' = {}
        /\ UNCHANGED <<callVars, kept, unknown>>

\* The destructor rolls back a transaction nobody ended, whatever that returns.
Destroy(t) ==
  /\ Idle
  /\ trans[t] # "dead"
  /\ trans' = [trans EXCEPT ![t] = "dead"]
  /\ IF trans[t] = "open"
       THEN (\E o \in rollback(conn) : conn' = o.conn) /\ acked' = {}
       ELSE UNCHANGED <<conn, acked>>
  /\ UNCHANGED <<callVars, result, kept, unknown>>

\* Transaction u(std::move(t)).
Move(t, u) ==
  /\ Idle
  /\ trans[t] # "dead" /\ trans[u] = "dead"
  /\ trans' = [trans EXCEPT ![t] = "moved", ![u] = trans[t]]
  /\ UNCHANGED <<conn, callVars, result, knowledge>>

\* t = std::move(u): conn_ is copied, the flag taken over.
MoveAssign(t, u) ==
  /\ Idle
  /\ t # u /\ trans[t] # "dead" /\ trans[u] # "dead"
  /\ trans[t] = "open" => OverwritesOpen
  /\ trans' = [trans EXCEPT ![t] = trans[u],
                            ![u] = IF @ = "moved" THEN "moved" ELSE "ended"]
  /\ UNCHANGED <<conn, callVars, result, knowledge>>

-----------------------------------------------------------------------------
\* write() and insert(), on the connection or through a Transaction, which
\* forwards every call.

\* DuckDB's connection has no batches: it passes the whole range on.
Batches ==
  IF conn.backend = "duckdb" THEN {todo}
  ELSE {b \in SUBSET todo : Cardinality(b) = Min({BatchSize, Cardinality(todo)})}

\* These backends roll a failed write() back.
AtomicWrite == conn.backend \in {"sqlite", "mysql"}

Call(step, rows, atomic) ==
  /\ Proceeds
  /\ rows \cap conn.view = {}
  /\ pc' = step /\ given' = rows /\ todo' = rows
  /\ unknown' = IF Open = {} /\ ~atomic THEN unknown \cup rows ELSE unknown
  /\ UNCHANGED <<conn, trans, result, kept, acked>>

\* The rows of its call that the program now takes for stored.
Learned(verdict) ==
  IF verdict = "ok" /\ (pc = "insert" \/ conn.backend \in Trusted) THEN given ELSE {}

\* Mutant: The rows not taken yet are left for the next call.
ReturnKeepsTodo(verdict) ==
  /\ pc' = "idle" /\ given' = {} /\ UNCHANGED todo
  /\ result' = verdict
  /\ kept' = IF Open = {} THEN kept \cup Learned(verdict) ELSE kept
  /\ acked' = IF Open = {} THEN acked ELSE acked \cup Learned(verdict)
  /\ unknown' = unknown \ Learned(verdict)
  /\ UNCHANGED trans

\* What the program concludes from a result for the rows of its call.
Return(verdict) ==
  /\ pc' = "idle" /\ given' = {} /\ todo' = {}
  /\ result' = verdict
  /\ kept' = IF Open = {} THEN kept \cup Learned(verdict) ELSE kept
  /\ acked' = IF Open = {} THEN acked ELSE acked \cup Learned(verdict)
  /\ unknown' = unknown \ Learned(verdict)
  /\ UNCHANGED trans

\* Goes on to the next step, or returns the error.
Continue(o, step) ==
  /\ conn' = o.conn
  /\ IF o.ok THEN pc' = step /\ UNCHANGED <<trans, given, todo, result, knowledge>>
             ELSE Return("error")

CallWrite(rows) ==
  /\ Open # {} => Writes = "anywhere"
  /\ Call("execute", rows, AtomicWrite)

CreateTable == pc = "execute" /\ \E o \in execute(conn) : Continue(o, "start_write")

StartWrite == pc = "start_write" /\ \E o \in start_write(conn) : Continue(o, "write")

WriteBatch ==
  /\ pc = "write" /\ todo # {}
  /\ \E b \in Batches : \E o \in write_impl(conn, b) :
       /\ conn' = o.conn
       /\ pc' = IF o.ok THEN "write" ELSE "abandon"
       /\ todo' = todo \ b
  /\ UNCHANGED <<trans, given, result, knowledge>>

\* A failed write ends the write and returns its own error.
Abandon ==
  /\ pc = "abandon"
  /\ \E o \in end_write(conn) : conn' = o.conn
  /\ Return("error")

EndWrite ==
  /\ pc = "write" /\ todo = {}
  /\ \E o \in end_write(conn) : conn' = o.conn /\ Return(Verdict(o))

CallInsert(rows) == Call("insert", rows, FALSE)

InsertBatch ==
  /\ pc = "insert" /\ todo # {}
  /\ \E b \in Batches : \E o \in insert_impl(conn, b) :
       /\ conn' = o.conn
       /\ IF o.ok THEN /\ todo' = todo \ b
                       /\ UNCHANGED <<trans, pc, given, result, knowledge>>
                  ELSE Return("error")

InsertReturns == pc = "insert" /\ todo = {} /\ Return("ok") /\ UNCHANGED conn

Next ==
  \/ \E t \in Objects :
       \/ BeginTransaction(t) \/ Rebegin(t)
       \/ Commit(t) \/ Rollback(t) \/ Destroy(t)
       \/ \E u \in Objects : Move(t, u) \/ MoveAssign(t, u)
  \/ \E rows \in SUBSET Rows : CallWrite(rows) \/ CallInsert(rows)
  \/ CreateTable \/ StartWrite \/ WriteBatch \/ Abandon \/ EndWrite
  \/ InsertBatch \/ InsertReturns

Spec == Init /\ [][Next]_vars

-----------------------------------------------------------------------------
TypeOK ==
  /\ conn \in Connections(Rows)
  /\ trans \in [Objects -> Statuses]
  /\ pc \in Steps
  /\ given \subseteq Rows /\ todo \subseteq given
  /\ result \in {"ok", "error"}
  /\ kept \subseteq Rows /\ acked \subseteq Rows /\ unknown \subseteq Rows

\* Every row that was reported as stored outside a transaction, or in one that
\* was reported as committed, is committed.
NothingLost == kept \subseteq conn.db

\* Nothing is committed of a transaction that is open or was rolled back, nor
\* of a write() that is running or has failed, at whichever row or step.  Only
\* a call that promises no atomicity may leave a part of its own rows.
NothingUninvited == conn.db \subseteq kept \cup unknown

\* A program that may go on reads exactly what it was told it has stored.
SeesOwnWork == Proceeds => conn.view \ unknown = (kept \cup acked) \ unknown

\* "sqlgen provides automatic rollback protection through RAII": when no
\* Transaction object is open and no call is running, the connection has no
\* transaction and no write under way, whatever failed before.
Reusable ==
  Idle /\ Open = {} => conn.tx = "none" /\ ~conn.stmt /\ conn.buffer = {}

=============================================================================
