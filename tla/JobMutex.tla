------------------------------ MODULE JobMutex ------------------------------
(***************************************************************************)
(* What a scheduled job is promised by either of its locks (the            *)
(* app_job_locks row on SQLite, the session-level advisory lock on         *)
(* PostgreSQL): at any moment at most one process of the deployment is     *)
(* inside the job's body.                                                  *)
(***************************************************************************)
CONSTANT Procs      \* the application processes that run the scheduler

VARIABLE active     \* the processes inside the body of the job

Init == active = {}

Enter(p) ==
  /\ active = {}
  /\ active' = {p}

\* A process leaves the body by finishing, by an exception, or by dying; a
\* job whose lock is lost while it runs leaves with it.
Leave(p) ==
  /\ p \in active
  /\ active' = active \ {p}

Next == \E p \in Procs : Enter(p) \/ Leave(p)

Spec == Init /\ [][Next]_active
=============================================================================
