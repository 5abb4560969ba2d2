------------------------------ MODULE Sessions ------------------------------
(***************************************************************************)
(* The sessions of one connection of the pool, one after the other         *)
(* (ConnectionPool keeps them apart), with what each does over it: the     *)
(* Transaction and the ranges of Readers.  A Session gives the connection  *)
(* back as it is.  A Transaction keeps its Session, by a Ref, but a Range  *)
(* has the raw handle of the connection and may outlive the Session.       *)
(*                                                                         *)
(* The calls of two users on one handle at the same time are taken one     *)
(* after the other: what the drivers make of them is theirs.               *)
(***************************************************************************)
EXTENDS Readers

CONSTANTS
  Users,         \* the tasks that ask the pool for a session
  Nobody,        \* nobody: the flag of the connection is clear
  \* How careful programs are, by the backends over which they are:
  CallsAlone,    \* no call of a Transaction while the session's ranges live
  ReadsOutside,  \* no read() within a Transaction
  ReturnsEmpty   \* no range outlives its session

ASSUME SessionsAssumption == Nobody \notin Users

VARIABLES
  user,          \* who has the Session
  mine           \* the ranges that were read through it

allVars == <<vars, user, mine>>

SessionsInit == Init /\ user = Nobody /\ mine = {}

\* ConnectionPool::acquire() has found the flag clear.
Acquire(u) ==
  /\ user = Nobody
  /\ user' = u
  /\ UNCHANGED <<vars, mine>>

\* Mutant: a Transaction does not keep its Session.
GiveBackAnytime ==
  /\ user # Nobody
  /\ Backend \in ReturnsEmpty => Live = {}
  /\ user' = Nobody /\ mine' = {}
  /\ UNCHANGED vars

\* ~Session(): the flag is cleared, and nothing else.
GiveBack ==
  /\ user # Nobody /\ trans = "none"
  /\ Backend \in ReturnsEmpty => Live = {}
  /\ user' = Nobody /\ mine' = {}
  /\ UNCHANGED vars

\* What the Session passes on to its connection.
ReadThrough(r) ==
  /\ user # Nobody
  /\ Backend \in ReadsOutside => trans = "none"
  /\ Read(r)
  /\ mine' = mine \cup {r}
  /\ UNCHANGED user

CallThrough ==
  /\ user # Nobody
  /\ Backend \in CallsAlone => Live \cap mine = {}
  /\ BeginTransaction \/ (\E m \in Marks : Insert(m)) \/ Commit \/ Rollback
  /\ UNCHANGED <<user, mine>>

\* What goes past the Session.
UseRange ==
  /\ \/ \E l \in Loops : (\E r \in Ranges : BeginLoop(l, r)) \/ Advance(l) \/ LeaveLoop(l)
     \/ \E r \in Ranges : DropRange(r)
  /\ UNCHANGED <<user, mine>>

SessionsNext ==
  \/ (\E u \in Users : Acquire(u)) \/ GiveBack
  \/ (\E r \in Ranges : ReadThrough(r)) \/ CallThrough \/ UseRange

SessionsSpec == SessionsInit /\ [][SessionsNext]_allVars

-----------------------------------------------------------------------------
\* What the users of a connection need of each other.  SQLite and DuckDB need
\* nothing: their ranges touch no transaction and refuse no call.
Careful ==
  /\ Backends \cap {"postgres", "mysql"} \subseteq CallsAlone \cap ReturnsEmpty
  /\ Backends \cap {"postgres"} \subseteq ReadsOutside

\* "Connections are returned to the pool when sessions go out of scope", and
\* nobody looks at them: the connection that lies in the pool has no result that
\* is unread, shows nothing uncommitted and has no transaction, but for the
\* aborted one of a read() that has failed on PostgreSQL.
ReturnedClean ==
  user = Nobody =>
    /\ session.unread = None
    /\ session.conn.view = session.conn.db
    /\ session.conn.tx = "none" \/ (Backend = "postgres" /\ session.conn.tx = "aborted")

\* A range of an earlier session never comes between a user and the
\* transaction: each user's commit() commits what this user has written, all of
\* it and nothing else, whoever had the connection before and whatever failed.
Promise == INSTANCE Turns WITH
  holder <- user, pending <- stored, committed <- session.conn.db

ImplementsTurns == Promise!Spec

=============================================================================
