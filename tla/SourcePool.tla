----------------------------- MODULE SourcePool -----------------------------
(***************************************************************************)
(* The pool of MySQL connections that every worker process of RankVista    *)
(* keeps in apps/common/sourcedb.py.  The threads of one process (gunicorn *)
(* starts four) share the list _pool under _lock: a thread pops a          *)
(* connection or opens one, checks that it is alive, runs one query on it  *)
(* outside the lock, and appends it again, or closes it when the pool is   *)
(* full.  reset_pool closes whatever is pooled at that moment.             *)
(*                                                                         *)
(* A block under _lock is one action: no other block can run inside it.    *)
(* Everything between two blocks is a separate action, because connecting, *)
(* pinging and querying all wait for the network.                          *)
(*                                                                         *)
(* The warehouse is outside the program: it goes up and down, and a        *)
(* connection can be dropped under the client at any time.  "up" stands    *)
(* for "answers within connect_timeout and read_timeout"; SQL is valid.    *)
(***************************************************************************)
EXTENDS Integers, Sequences, FiniteSets, SequencesExt

CONSTANTS
  Threads,      \* the threads of one worker process
  Conns,        \* pymysql connection objects; one that is unreferenced is reused
  MAX_POOLED,   \* the most connections the pool keeps
  NoConn        \* what a thread holds when it holds no connection

ASSUME ThreadsFinite == IsFiniteSet(Threads)
ASSUME MaxPooledNat == MAX_POOLED \in Nat
ASSUME NoConnIsNoConn == NoConn \notin Conns

VARIABLES
  pool,     \* _pool, a list whose right end is popped and appended to
  socket,   \* socket[c]: "closed", "open", or "dropped" (dead, not noticed yet)
  pc,       \* pc[t]: where thread t is in connection()
  conn,     \* conn[t]: the connection thread t borrowed
  up        \* the warehouse answers

vars == <<pool, socket, pc, conn, up>>

Location == {"idle", "connect", "ping", "query", "health", "give_back"}

Pooled == ToSet(pool)
Held == {conn[t] : t \in Threads} \ {NoConn}
Referenced == Pooled \cup Held

(* The threads between the two locked blocks of connection(). *)
Borrowers == {t \in Threads : pc[t] # "idle"}

(* fetch_all and fetch_one run one statement; ping() asks the connection for
   a second sign of life. *)
Purpose == {"query", "health"}

Init ==
  /\ pool = <<>>
  /\ socket = [c \in Conns |-> "closed"]
  /\ pc = [t \in Threads |-> "idle"]
  /\ conn = [t \in Threads |-> NoConn]
  /\ up \in BOOLEAN

-----------------------------------------------------------------------------
(* Entering connection(): the first locked block. *)

(* Mutant: _pool[-1] instead of _pool.pop(). *)
PopPooled_Peeks(t) ==
  /\ pc[t] = "idle"
  /\ pool # <<>>
  /\ conn' = [conn EXCEPT ![t] = Last(pool)]
  /\ pc' = [pc EXCEPT ![t] = "ping"]
  /\ UNCHANGED <<pool, socket, up>>

PopPooled(t) ==
  /\ pc[t] = "idle"
  /\ pool # <<>>
  /\ conn' = [conn EXCEPT ![t] = Last(pool)]
  /\ pool' = Front(pool)
  /\ pc' = [pc EXCEPT ![t] = "ping"]
  /\ UNCHANGED <<socket, up>>

PoolEmpty(t) ==
  /\ pc[t] = "idle"
  /\ pool = <<>>
  /\ pc' = [pc EXCEPT ![t] = "connect"]
  /\ UNCHANGED <<pool, socket, conn, up>>

(* Outside the lock: _connect(), or ping(reconnect=True) on a pooled one.  A
   connection that cannot be revived is forgotten, its socket closed by the
   driver, and the caller gets SourceUnavailable. *)

Connect(t) ==
  /\ pc[t] = "connect"
  /\ up
  /\ \E c \in Conns \ Referenced, use \in Purpose :
        /\ socket[c] = "closed"
        /\ conn' = [conn EXCEPT ![t] = c]
        /\ socket' = [socket EXCEPT ![c] = "open"]
        /\ pc' = [pc EXCEPT ![t] = use]
  /\ UNCHANGED <<pool, up>>

(* Mutant: a pooled connection is used without the ping. *)
Revive_Trusts(t) ==
  /\ pc[t] = "ping"
  /\ \E use \in Purpose : pc' = [pc EXCEPT ![t] = use]
  /\ UNCHANGED <<pool, socket, conn, up>>

Revive(t) ==
  /\ pc[t] = "ping"
  /\ up
  /\ socket' = [socket EXCEPT ![conn[t]] = "open"]
  /\ \E use \in Purpose : pc' = [pc EXCEPT ![t] = use]
  /\ UNCHANGED <<pool, conn, up>>

(* Mutant: the finally clause covers the connecting as well. *)
CannotConnect_GivesBack(t) ==
  /\ pc[t] = "connect"
  /\ ~up
  /\ pc' = [pc EXCEPT ![t] = "give_back"]
  /\ UNCHANGED <<pool, socket, conn, up>>

CannotConnect(t) ==
  /\ pc[t] = "connect"
  /\ ~up
  /\ pc' = [pc EXCEPT ![t] = "idle"]
  /\ UNCHANGED <<pool, socket, conn, up>>

(* Mutant: ping again until the warehouse answers. *)
CannotRevive_Retries(t) ==
  /\ pc[t] = "ping"
  /\ ~up
  /\ socket' = [socket EXCEPT ![conn[t]] = "closed"]
  /\ UNCHANGED <<pool, pc, conn, up>>

CannotRevive(t) ==
  /\ pc[t] = "ping"
  /\ ~up
  /\ socket' = [socket EXCEPT ![conn[t]] = "closed"]
  /\ conn' = [conn EXCEPT ![t] = NoConn]
  /\ pc' = [pc EXCEPT ![t] = "idle"]
  /\ UNCHANGED <<pool, up>>

-----------------------------------------------------------------------------
(* The body of the with statement.  A statement that fails because the
   connection or the warehouse is gone makes the driver close the socket; the
   object is still handed back, dead, to the pool.  A health check reconnects. *)

Answered(t) ==
  /\ pc[t] = "query"
  /\ up /\ socket[conn[t]] = "open"
  /\ pc' = [pc EXCEPT ![t] = "give_back"]
  /\ UNCHANGED <<pool, socket, conn, up>>

QueryFailed(t) ==
  /\ pc[t] = "query"
  /\ ~up \/ socket[conn[t]] # "open"
  /\ socket' = [socket EXCEPT ![conn[t]] = "closed"]
  /\ pc' = [pc EXCEPT ![t] = "give_back"]
  /\ UNCHANGED <<pool, conn, up>>

HealthChecked(t) ==
  /\ pc[t] = "health"
  /\ socket' = [socket EXCEPT ![conn[t]] = IF up THEN "open" ELSE "closed"]
  /\ pc' = [pc EXCEPT ![t] = "give_back"]
  /\ UNCHANGED <<pool, conn, up>>

(* Mutants of the last block: a limit that is one too high or too low, and a
   surplus connection that is not closed. *)
GiveBack_Limit(t, limit) ==
  /\ pc[t] = "give_back"
  /\ IF Len(pool) < limit
       THEN /\ pool' = Append(pool, conn[t])
            /\ UNCHANGED socket
       ELSE /\ socket' = [socket EXCEPT ![conn[t]] = "closed"]
            /\ UNCHANGED pool
  /\ conn' = [conn EXCEPT ![t] = NoConn]
  /\ pc' = [pc EXCEPT ![t] = "idle"]
  /\ UNCHANGED up
GiveBack_OneMore(t) == GiveBack_Limit(t, MAX_POOLED + 1)
GiveBack_Forgets(t) ==
  /\ pc[t] = "give_back"
  /\ pool' = IF Len(pool) < MAX_POOLED THEN Append(pool, conn[t]) ELSE pool
  /\ conn' = [conn EXCEPT ![t] = NoConn]
  /\ pc' = [pc EXCEPT ![t] = "idle"]
  /\ UNCHANGED <<socket, up>>

(* The second locked block, in the finally clause. *)
GiveBack(t) ==
  /\ pc[t] = "give_back"
  /\ IF Len(pool) < MAX_POOLED
       THEN /\ pool' = Append(pool, conn[t])
            /\ UNCHANGED socket
       ELSE /\ socket' = [socket EXCEPT ![conn[t]] = "closed"]
            /\ UNCHANGED pool
  /\ conn' = [conn EXCEPT ![t] = NoConn]
  /\ pc' = [pc EXCEPT ![t] = "idle"]
  /\ UNCHANGED up

(* reset_pool(): close what is pooled and start over with an empty list. *)
ResetPool ==
  /\ pool # <<>>
  /\ socket' = [c \in Conns |-> IF c \in Pooled THEN "closed" ELSE socket[c]]
  /\ pool' = <<>>
  /\ UNCHANGED <<pc, conn, up>>

-----------------------------------------------------------------------------
(* The warehouse and the network. *)

WarehouseUpDown ==
  /\ up' = ~up
  /\ UNCHANGED <<pool, socket, pc, conn>>

DropConnection ==
  /\ \E c \in Conns :
        /\ socket[c] = "open"
        /\ socket' = [socket EXCEPT ![c] = "dropped"]
  /\ UNCHANGED <<pool, pc, conn, up>>

Step(t) ==
  \/ PopPooled(t) \/ PoolEmpty(t)
  \/ Connect(t) \/ Revive(t) \/ CannotConnect(t) \/ CannotRevive(t)
  \/ Answered(t) \/ QueryFailed(t) \/ HealthChecked(t)
  \/ GiveBack(t)

Next ==
  \/ \E t \in Threads : Step(t)
  \/ ResetPool
  \/ WarehouseUpDown
  \/ DropConnection

(* Connecting has a timeout, and so has waiting for the answer to a ping or a query
   (connect_timeout and read_timeout; none is set for sending one), and a worker does
   not stop scheduling its threads: a thread that entered connection() takes its next
   step.  Nobody is obliged to ask for a connection. *)
Fairness == \A t \in Threads : WF_vars(pc[t] # "idle" /\ Step(t))

Spec == Init /\ [][Next]_vars /\ Fairness

-----------------------------------------------------------------------------
TypeOK ==
  /\ pool \in Seq(Conns)
  /\ socket \in [Conns -> {"closed", "open", "dropped"}]
  /\ pc \in [Threads -> Location]
  /\ conn \in [Threads -> Conns \cup {NoConn}]
  /\ up \in BOOLEAN

(* sourcedb.py:18-20, 62-64, 77-79.  pymysql connections are not thread safe:
   a connection is in one place only, in the pool once or with one thread,
   whatever the threads, the outages and the resets do. *)
OneOwner ==
  /\ \A i, j \in 1..Len(pool) : pool[i] = pool[j] => i = j
  /\ \A t \in Threads : conn[t] \notin Pooled
  /\ \A s, t \in Threads : conn[s] = conn[t] /\ conn[s] # NoConn => s = t

(* sourcedb.py:78-84, 126-135.  No socket is left open with nobody to close it:
   a connection that is neither pooled nor borrowed has been closed. *)
NoLeakedSocket == \A c \in Conns \ Referenced : socket[c] = "closed"

(* sourcedb.py:61-67.  A thread opens a connection only when it found the pool
   empty, so the connections a process pools and borrows never exceed its
   threads, although nothing counts them, and the pool its limit. *)
ConnectionsBounded ==
  /\ Len(pool) + Cardinality(Borrowers) <= Cardinality(Threads)
  /\ Len(pool) <= MAX_POOLED

(* sourcedb.py:20, 78-84 and Dockerfile:48.  With no more threads than
   MAX_POOLED, the four and the four that are deployed, a connection handed back
   always fits: the branch that closes it is never taken. *)
NeverClosedOnReturn ==
  [][\A t \in Threads : GiveBack(t) => Len(pool') = Len(pool) + 1]_vars

(* sourcedb.py:55-56, 65-72.  A caller never starts on a dead connection: the
   one it is given is open at that moment, however long it was pooled and
   whatever happened to it there. *)
BorrowedAlive ==
  [][\A t \in Threads :
        pc[t] \in {"connect", "ping"} /\ pc'[t] \in Purpose
          => socket'[conn'[t]] = "open"]_vars

(* sourcedb.py:55-84.  Whoever asks for a connection gets through connection()
   and gives back what it borrowed, through outages as well. *)
BorrowEnds ==
  \A t \in Threads : pc[t] # "idle" ~> (pc[t] = "idle" /\ conn[t] = NoConn)
=============================================================================
