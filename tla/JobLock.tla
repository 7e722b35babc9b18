------------------------------- MODULE JobLock -------------------------------
(***************************************************************************)
(* The row of app_job_locks that serialises one scheduled job (the         *)
(* Telegram digest, the source URL check) when the database is not         *)
(* PostgreSQL: JobLockRepository and the two tasks that use it.            *)
(*                                                                         *)
(* Time is relative to the present.  `left' is locked_until - now and      *)
(* age[p] is how long ago process p read the clock in try_acquire; Tick    *)
(* moves both.  locked_until <= now(p), the WHERE clause of the UPDATE,    *)
(* is left + age[p] <= 0.  The columns locked_until and holder are always  *)
(* written together, so holder = Nobody also stands for                    *)
(* locked_until IS NULL.                                                   *)
(***************************************************************************)
EXTENDS Integers

CONSTANTS
  Workers,   \* processes that run the scheduler
  Nobody,    \* the empty holder column
  TTL,       \* ttl_seconds, in ticks
  MaxRun     \* ticks from reading the clock to the end of the job, at most

ASSUME TTLAssumption == TTL \in Nat \ {0}
ASSUME MaxRunAssumption == MaxRun \in Nat \ {0}
ASSUME NobodyAssumption == Nobody \notin Workers

VARIABLES
  rowExists,  \* the job's row has been inserted
  holder,     \* column holder
  left,       \* column locked_until, relative to the present
  rowPc,      \* where each process is
  age         \* ticks since the process read the clock

rowVars == <<rowExists, holder, left, rowPc, age>>

Stages == {"idle", "insert", "clock", "update", "job"}

RowTypeOK ==
  /\ rowExists \in BOOLEAN
  /\ holder \in Workers \cup {Nobody}
  /\ left \in -MaxRun .. TTL
  /\ rowPc \in [Workers -> Stages]
  /\ age \in [Workers -> 0 .. MaxRun]

RowInit ==
  /\ rowExists = FALSE
  /\ holder = Nobody
  /\ left = 0
  /\ rowPc = [p \in Workers |-> "idle"]
  /\ age = [p \in Workers |-> 0]

Goto(p, stage) == rowPc' = [rowPc EXCEPT ![p] = stage]

\* The cron trigger fires and _ensure_row looks the row up.
Begin(p) ==
  /\ rowPc[p] = "idle"
  /\ Goto(p, IF rowExists THEN "clock" ELSE "insert")
  /\ UNCHANGED <<rowExists, holder, left, age>>

\* Mutant: the row is merged instead of added, over a row that exists.
InsertRow_Overwrite(p) ==
  /\ rowPc[p] = "insert"
  /\ rowExists' = TRUE
  /\ holder' = Nobody
  /\ left' = 0
  /\ Goto(p, "clock")
  /\ UNCHANGED age

\* _ensure_row commits a new row; when another process was first, the
\* IntegrityError is rolled back and the row stays as it is.
InsertRow(p) ==
  /\ rowPc[p] = "insert"
  /\ IF rowExists
     THEN UNCHANGED <<rowExists, holder, left>>
     ELSE /\ rowExists' = TRUE
          /\ holder' = Nobody
          /\ left' = 0
  /\ Goto(p, "clock")
  /\ UNCHANGED age

\* now = datetime.utcnow(), before the UPDATE is sent.
ReadClock(p) ==
  /\ rowPc[p] = "clock"
  /\ age' = [age EXCEPT ![p] = 0]
  /\ Goto(p, "update")
  /\ UNCHANGED <<rowExists, holder, left>>

\* Mutant: only a released row is taken, an expired one is not.
RowMatches_NoExpiry(a) == rowExists /\ holder = Nobody

\* The WHERE clause of the UPDATE, for a clock value read `a' ticks ago.
RowMatches(a) == rowExists /\ (holder = Nobody \/ left + a <= 0)

\* Mutant: the UPDATE looks at the key only.
Acquirable_KeyOnly(p) == rowExists

Acquirable(p) == RowMatches(age[p])

\* The UPDATE matched the row: rowcount = 1 and the job's body starts.
Acquire(p) ==
  /\ rowPc[p] = "update"
  /\ Acquirable(p)
  /\ holder' = p
  /\ left' = TTL - age[p]
  /\ Goto(p, "job")
  /\ UNCHANGED <<rowExists, age>>

\* The UPDATE matched no row: the task logs "busy" and returns.
Busy(p) ==
  /\ rowPc[p] = "update"
  /\ ~Acquirable(p)
  /\ Goto(p, "idle")
  /\ UNCHANGED <<rowExists, holder, left, age>>

\* The finally clause: the row is cleared whoever holds it.
Release(p) ==
  /\ rowPc[p] = "job"
  /\ holder' = Nobody
  /\ left' = 0
  /\ Goto(p, "idle")
  /\ UNCHANGED <<rowExists, age>>

\* The database is locked or unreachable (SQLite waits 20 seconds, then
\* raises): the statement in hand is lost and the task ends where it is.
DbError(p) ==
  /\ rowPc[p] \in {"insert", "update", "job"}
  /\ Goto(p, "idle")
  /\ UNCHANGED <<rowExists, holder, left, age>>

\* The process dies and is started again; the row survives.
RowCrash(p) ==
  /\ rowPc[p] # "idle"
  /\ Goto(p, "idle")
  /\ UNCHANGED <<rowExists, holder, left, age>>

\* A process between reading the clock and the end of the job.
Timed(p) == rowPc[p] \in {"update", "job"}

\* One tick.  No process is given more than MaxRun ticks.  A lease that has
\* been over for MaxRun ticks is over for every clock value still in use, so
\* `left' stops there.
Tick ==
  /\ \A p \in Workers : Timed(p) => age[p] < MaxRun
  /\ age' = [p \in Workers |-> IF Timed(p) THEN age[p] + 1 ELSE age[p]]
  /\ left' = IF holder # Nobody /\ left > -MaxRun THEN left - 1 ELSE left
  /\ UNCHANGED <<rowExists, holder, rowPc>>

Step(p) ==
  \/ Begin(p) \/ InsertRow(p) \/ ReadClock(p)
  \/ Acquire(p) \/ Busy(p) \/ Release(p)

RowNext == Tick \/ \E p \in Workers : Step(p) \/ DbError(p) \/ RowCrash(p)

RowSpec == RowInit /\ [][RowNext]_rowVars

\* Time passes, and a process that has begun goes on to its next statement.
\* Nothing makes the cron trigger fire, and errors and crashes may always
\* come first.
Fairness ==
  /\ WF_rowVars(Tick)
  /\ \A p \in Workers : WF_rowVars(rowPc[p] # "idle" /\ Step(p))

FairSpec == RowSpec /\ Fairness
-----------------------------------------------------------------------------
RowRunning == {p \in Workers : rowPc[p] = "job"}

(***************************************************************************)
(* Safety.                                                                 *)
(***************************************************************************)

\* The process inside the job's body owns the row, and its lease, counted
\* from the clock value it sent with the UPDATE, is not over.  No step of
\* another process, not even one that lost the race to insert the row or
\* that compares with an old clock value, takes it away.
LeaseHeldWhileRunning ==
  \A p \in RowRunning : /\ holder = p
                     /\ left = TTL - age[p]
                     /\ left > 0

\* The row implements the abstract mutex: at most one process is inside.
RowMutex == INSTANCE JobMutex WITH Procs <- Workers, active <- RowRunning
RowMutexSpec == RowMutex!Spec

(***************************************************************************)
(* Liveness.                                                               *)
(***************************************************************************)

\* A row left locked by a process that died or failed before its release
\* does not block the job for ever: again and again a process that reads the
\* clock now would get it.
LockComesBack == rowExists ~> RowMatches(0)
=============================================================================
