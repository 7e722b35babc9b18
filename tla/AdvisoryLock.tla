---------------------------- MODULE AdvisoryLock ----------------------------
(***************************************************************************)
(* The same job lock on PostgreSQL: pg_try_advisory_lock and               *)
(* pg_advisory_unlock, sent through a SQLAlchemy session.  The server ties *)
(* the lock to the connection that took it; the session gives its          *)
(* connection back to the process's pool at every commit and takes the     *)
(* one that has been idle longest for its next statement.  The pool keeps  *)
(* PoolSize idle connections, opens at most MaxOverflow beyond them, and   *)
(* closes a connection that comes back when it is full.                    *)
(*                                                                         *)
(* A process runs one instance of the job at a time (one scheduler job id) *)
(* beside any number of other sessions: requests and other jobs.           *)
(***************************************************************************)
EXTENDS Integers, Sequences, FiniteSets

CONSTANTS
  Procs,        \* processes that run the scheduler
  NoConn,       \* no connection
  PoolSize,     \* QueuePool's pool_size: idle connections kept (5 in the code)
  MaxOverflow,  \* QueuePool's max_overflow: connections beyond it (10)
  MaxDepth,     \* bound: how often one connection may take the lock again
  MayFail       \* whether a statement of the job's body may fail

ASSUME MaxDepthAssumption == MaxDepth \in Nat \ {0}
ASSUME PoolAssumption == PoolSize \in Nat /\ PoolSize >= 2 /\ MaxOverflow \in Nat

Conns(p) == {p} \X (1 .. PoolSize + MaxOverflow)
AllConns == Procs \X (1 .. PoolSize + MaxOverflow)

ASSUME NoConnAssumption == NoConn \notin AllConns

VARIABLES
  open,      \* connections each process has opened
  idle,      \* the pool: its idle connections, longest idle first
  pc,        \* the job of each process
  jobConn,   \* the connection the job's session holds
  lent,      \* the connections other sessions of the process hold
  owner,     \* server: the connection that holds the advisory lock
  depth,     \* server: how many times that connection has taken it
  failed,    \* history: processes whose job has had a failing statement
  exposed    \* history: running jobs whose lock the pool has closed

vars == <<open, idle, pc, jobConn, lent, owner, depth, failed, exposed>>

JobStages == {"idle", "body", "done"}

TypeOK ==
  /\ open \in [Procs -> SUBSET AllConns]
  /\ idle \in [Procs -> Seq(AllConns)]
  /\ pc \in [Procs -> JobStages]
  /\ jobConn \in [Procs -> AllConns \cup {NoConn}]
  /\ lent \in [Procs -> SUBSET AllConns]
  /\ owner \in AllConns \cup {NoConn}
  /\ depth \in 0 .. MaxDepth
  /\ failed \in SUBSET Procs
  /\ exposed \in SUBSET Procs
  /\ owner = NoConn <=> depth = 0

Init ==
  /\ open = [p \in Procs |-> {}]
  /\ idle = [p \in Procs |-> <<>>]
  /\ pc = [p \in Procs |-> "idle"]
  /\ jobConn = [p \in Procs |-> NoConn]
  /\ lent = [p \in Procs |-> {}]
  /\ owner = NoConn
  /\ depth = 0
  /\ failed = {}
  /\ exposed = {}

Move(p, l) == pc' = [pc EXCEPT ![p] = l]

\* QueuePool, first in first out: c is the connection a session of p gets.
\* With no idle connection the pool opens a new one, while it may.
CheckOut(p, c) ==
  IF idle[p] # <<>>
  THEN /\ c = Head(idle[p])
       /\ idle' = [idle EXCEPT ![p] = Tail(@)]
       /\ UNCHANGED open
  ELSE /\ c \in Conns(p) \ open[p]
       /\ open' = [open EXCEPT ![p] = @ \cup {c}]
       /\ UNCHANGED idle

\* A session of p gives c back.  A full pool closes it, and the server drops
\* the lock that it owns, from under the job if that is still running.
CheckIn(p, c) ==
  \/ /\ Len(idle[p]) < PoolSize
     /\ idle' = [idle EXCEPT ![p] = Append(@, c)]
     /\ UNCHANGED <<open, owner, depth, exposed>>
  \/ /\ Len(idle[p]) >= PoolSize
     /\ open' = [open EXCEPT ![p] = @ \ {c}]
     /\ UNCHANGED idle
     /\ \/ /\ owner = c
           /\ owner' = NoConn /\ depth' = 0
           /\ exposed' = IF pc[p] = "body" THEN exposed \cup {p} ELSE exposed
        \/ owner # c /\ UNCHANGED <<owner, depth, exposed>>

Free(c) == owner \in {NoConn, c}

\* Mutant: the answer of pg_try_advisory_lock is not looked at.
JobStart_IgnoreAnswer(p) ==
  /\ pc[p] = "idle"
  /\ \E c \in Conns(p) :
       /\ CheckOut(p, c)
       /\ IF Free(c)
          THEN owner' = c /\ depth' = depth + 1 /\ depth < MaxDepth
          ELSE UNCHANGED <<owner, depth>>
       /\ jobConn' = [jobConn EXCEPT ![p] = c]
  /\ Move(p, "body")
  /\ UNCHANGED <<lent, failed, exposed>>

\* The job starts and pg_try_advisory_lock answers true.  The server counts
\* the locks of one connection, so the owner may take it again.
JobStart(p) ==
  /\ pc[p] = "idle"
  /\ depth < MaxDepth
  /\ \E c \in Conns(p) :
       /\ CheckOut(p, c)
       /\ Free(c)
       /\ owner' = c
       /\ jobConn' = [jobConn EXCEPT ![p] = c]
  /\ depth' = depth + 1
  /\ Move(p, "body")
  /\ UNCHANGED <<lent, failed, exposed>>

\* It answers false, and the task returns.
JobBusy(p) ==
  /\ pc[p] = "idle"
  /\ \E c \in Conns(p) :
       /\ CheckOut(p, c)
       /\ ~Free(c)
       /\ jobConn' = [jobConn EXCEPT ![p] = c]
  /\ Move(p, "done")
  /\ UNCHANGED <<lent, owner, depth, failed, exposed>>

\* A statement of the job after a commit: the expired attributes of the next
\* item, or the unlock itself, make the session check out a connection.
Touch(p) ==
  /\ pc[p] = "body"
  /\ jobConn[p] = NoConn
  /\ \E c \in Conns(p) :
       /\ CheckOut(p, c)
       /\ jobConn' = [jobConn EXCEPT ![p] = c]
  /\ UNCHANGED <<pc, lent, owner, depth, failed, exposed>>

\* A commit in the body: mark_telegram_notified, or the single commit of
\* run_source_url_checks.
BodyCommit(p) ==
  /\ pc[p] = "body"
  /\ jobConn[p] # NoConn
  /\ CheckIn(p, jobConn[p])
  /\ jobConn' = [jobConn EXCEPT ![p] = NoConn]
  /\ UNCHANGED <<pc, lent, failed>>

\* Mutant: the job ends without the finally clause.
JobUnlock_Nothing(p) ==
  /\ pc[p] = "body"
  /\ jobConn[p] # NoConn
  /\ Move(p, "done")
  /\ exposed' = exposed \ {p}
  /\ UNCHANGED <<open, idle, jobConn, lent, owner, depth, failed>>

\* The finally clause: pg_advisory_unlock on the connection the session has
\* now.  On one that does not own the lock the server only warns.
JobUnlock(p) ==
  /\ pc[p] = "body"
  /\ jobConn[p] # NoConn
  /\ IF owner = jobConn[p]
     THEN /\ depth' = depth - 1
          /\ owner' = IF depth = 1 THEN NoConn ELSE owner
     ELSE UNCHANGED <<owner, depth>>
  /\ Move(p, "done")
  /\ exposed' = exposed \ {p}
  /\ UNCHANGED <<open, idle, jobConn, lent, failed>>

\* A statement of the body fails on the server; the finally clause does not
\* roll back, so in the failed transaction the unlock fails as well.  Or the
\* body and then the unlock wait in vain for a connection of the pool.
JobFail(p) ==
  /\ MayFail
  /\ pc[p] = "body"
  /\ jobConn[p] = NoConn => idle[p] = <<>> /\ open[p] = Conns(p)
  /\ failed' = failed \cup {p}
  /\ Move(p, "done")
  /\ exposed' = exposed \ {p}
  /\ UNCHANGED <<open, idle, jobConn, lent, owner, depth>>

\* The commit after the unlock, or closing the session, gives the job's
\* connection back, with a lock that was not released.
JobEnd(p) ==
  /\ pc[p] = "done"
  /\ IF jobConn[p] # NoConn
     THEN CheckIn(p, jobConn[p])
     ELSE UNCHANGED <<open, idle, owner, depth, exposed>>
  /\ jobConn' = [jobConn EXCEPT ![p] = NoConn]
  /\ Move(p, "idle")
  /\ UNCHANGED <<lent, failed>>

\* A request of the API, or another job, takes a connection of the same pool
\* for its session and gives it back.
RequestBegin(p) ==
  /\ \E c \in Conns(p) :
       /\ CheckOut(p, c)
       /\ lent' = [lent EXCEPT ![p] = @ \cup {c}]
  /\ UNCHANGED <<pc, jobConn, owner, depth, failed, exposed>>

RequestEnd(p) ==
  /\ \E c \in lent[p] :
       /\ CheckIn(p, c)
       /\ lent' = [lent EXCEPT ![p] = @ \ {c}]
  /\ UNCHANGED <<pc, jobConn, failed>>

\* The process dies: the server closes its connections and drops their lock.
Crash(p) ==
  /\ open[p] # {}
  /\ open' = [open EXCEPT ![p] = {}]
  /\ idle' = [idle EXCEPT ![p] = <<>>]
  /\ Move(p, "idle")
  /\ failed' = failed \ {p}
  /\ exposed' = exposed \ {p}
  /\ jobConn' = [jobConn EXCEPT ![p] = NoConn]
  /\ lent' = [lent EXCEPT ![p] = {}]
  /\ IF owner \in open[p]
     THEN owner' = NoConn /\ depth' = 0
     ELSE UNCHANGED <<owner, depth>>

Next == \E p \in Procs :
          \/ JobStart(p) \/ JobBusy(p) \/ Touch(p) \/ BodyCommit(p) \/ JobUnlock(p)
          \/ JobFail(p) \/ JobEnd(p) \/ RequestBegin(p) \/ RequestEnd(p) \/ Crash(p)

Spec == Init /\ [][Next]_vars
-----------------------------------------------------------------------------
Running == {p \in Procs : pc[p] = "body"}

\* The jobs whose lock is still on the server.
Guarded == Running \ exposed

\* At most one process is inside the job with its lock, although the
\* connection that owns the lock may be idle in its pool, or lent to a
\* request, while the body runs.  A job leaves this mutex before its body ends
\* only when its pool, full of idle connections, closes the one that owns the
\* lock (core/database.py sets no pool_size); from then on another process
\* may run the same job beside it.
Mutex == INSTANCE JobMutex WITH active <- Guarded
MutexSpec == Mutex!Spec

\* Two processes never run the job at once.  This is what the tasks expect of
\* the lock; it holds of a pool that opens no connection beyond PoolSize.
Exclusive == \A p, q \in Running : p = q

\* A lock that nobody's job holds any more is stuck on a process that has had
\* a failing statement or has opened a second connection: a process whose job
\* is the only user of the pool unlocks the connection it locked, whatever it
\* commits in between.
OrphanIsExplained ==
  (owner # NoConn /\ Running = {}) =>
    \E p \in Procs :
      /\ owner \in open[p]
      /\ p \in failed \/ Cardinality(open[p]) > 1
=============================================================================
