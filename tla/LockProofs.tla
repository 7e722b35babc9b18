------------------------------ MODULE LockProofs ------------------------------
(***************************************************************************)
(* What the locks of the scheduled jobs guarantee.  The PostgreSQL         *)
(* advisory lock, for any processes and any pool: a mutex of the jobs      *)
(* whose lock the pool has not closed, and of all jobs if the pool opens   *)
(* no connection beyond those it keeps.  The row of app_job_locks, for any *)
(* processes and TTL: a mutex if no job outlives its lease (MaxRun < TTL). *)
(***************************************************************************)
EXTENDS AdvisoryLock, JobLock, SequenceTheorems, FiniteSetTheorems, TLAPS

\* No connection of p is in two hands.
Unshared(p) ==
  /\ \A i, j \in 1 .. Len(idle[p]) : idle[p][i] = idle[p][j] => i = j
  /\ \A i \in 1 .. Len(idle[p]) : idle[p][i] # jobConn[p] /\ idle[p][i] \notin lent[p]
  /\ jobConn[p] \notin lent[p]

\* Connections stay with the process that opened them.
ConnInv ==
  /\ open \in [Procs -> SUBSET AllConns]
  /\ idle \in [Procs -> Seq(AllConns)]
  /\ pc \in [Procs -> JobStages]
  /\ jobConn \in [Procs -> AllConns \cup {NoConn}]
  /\ lent \in [Procs -> SUBSET AllConns]
  /\ failed \in SUBSET Procs
  /\ exposed \in SUBSET Procs
  /\ \A p \in Procs :
       /\ open[p] \subseteq Conns(p)
       /\ idle[p] \in Seq(open[p])
       /\ jobConn[p] \in open[p] \cup {NoConn}
       /\ lent[p] \subseteq open[p]
       /\ Unshared(p)

\* The server's side: the owner is an open connection, and the process of a
\* job that is not exposed owns the lock, on whichever connection it took it.
OwnerInv ==
  /\ depth \in 0 .. MaxDepth
  /\ owner = NoConn <=> depth = 0
  /\ owner # NoConn => \E p \in Procs : owner \in open[p]
  /\ \A p \in Guarded : owner \in open[p]

Several(p) == \E c, d \in open[p] : c # d

\* A process without a failing statement and with one connection holds the
\* lock once, and only while its job runs.
CleanInv ==
  \A p \in Procs :
    (owner \in open[p] /\ p \notin failed /\ ~Several(p)) =>
      pc[p] = "body" /\ depth = 1

IInv == ConnInv /\ OwnerInv /\ CleanInv
-----------------------------------------------------------------------------
\* Two processes have no connection in common, and NoConn is none.
LEMMA Apart ==
  ASSUME ConnInv, NEW p \in Procs, NEW q \in Procs, NEW c \in open[p]
  PROVE  /\ c # NoConn
         /\ c \in open[q] => p = q
<1>1. c \in AllConns /\ c \in Conns(p)
  BY DEF ConnInv
<1>2. c # NoConn
  BY <1>1, NoConnAssumption
<1>3. ASSUME c \in open[q] PROVE p = q
  <2>1. c \in Conns(q)
    BY <1>3 DEF ConnInv
  <2>2. QED BY <1>1, <2>1 DEF Conns
<1>4. QED BY <1>2, <1>3

\* What a session gets from the pool is a connection of its own process that
\* nobody else holds, and the other processes are not concerned.
LEMMA CheckOutWell ==
  ASSUME ConnInv, NEW p \in Procs, NEW c \in Conns(p), CheckOut(p, c)
  PROVE  /\ c \in AllConns /\ c # NoConn /\ c # jobConn[p] /\ c \notin lent[p]
         /\ open' = [open EXCEPT ![p] = open[p] \cup {c}]
         /\ idle' \in [Procs -> Seq(AllConns)]
         /\ \A q \in Procs : q # p => idle'[q] = idle[q]
         /\ idle'[p] \in Seq(open[p])
         /\ \A i, j \in 1 .. Len(idle'[p]) : idle'[p][i] = idle'[p][j] => i = j
         /\ \A i \in 1 .. Len(idle'[p]) :
              idle'[p][i] # c /\ idle'[p][i] # jobConn[p] /\ idle'[p][i] \notin lent[p]
<1>0. c \in AllConns /\ c # NoConn
  BY NoConnAssumption DEF Conns, AllConns
<1> USE DEF ConnInv, Unshared
<1>1. CASE idle[p] # <<>>
  <2>1. idle[p] \in Seq(open[p]) /\ idle[p] \in Seq(AllConns)
    OBVIOUS
  <2>2. /\ Head(idle[p]) \in open[p] /\ Head(idle[p]) = idle[p][1] /\ Len(idle[p]) \in Nat /\ Len(idle[p]) > 0
        /\ Tail(idle[p]) \in Seq(open[p]) /\ Tail(idle[p]) \in Seq(AllConns)
        /\ Len(Tail(idle[p])) = Len(idle[p]) - 1
        /\ \A i \in 1 .. Len(Tail(idle[p])) : Tail(idle[p])[i] = idle[p][i + 1]
    BY <1>1, <2>1, HeadTailProperties, LenProperties, EmptySeq
  <2>3. c = Head(idle[p]) /\ idle' = [idle EXCEPT ![p] = Tail(@)] /\ open' = open
    BY <1>1 DEF CheckOut
  <2>4. c = idle[p][1] /\ 1 \in 1 .. Len(idle[p]) /\ c \in open[p]
    BY <2>2, <2>3
  <2>5. c # jobConn[p] /\ c \notin lent[p]
    BY <2>4
  <2>6. open' = [open EXCEPT ![p] = open[p] \cup {c}]
    BY <2>3, <2>4
  <2>7. idle'[p] = Tail(idle[p]) /\ idle' \in [Procs -> Seq(AllConns)] /\ \A q \in Procs : q # p => idle'[q] = idle[q]
    BY <2>2, <2>3
  <2>8. \A i \in 1 .. Len(idle'[p]) : /\ i + 1 \in 1 .. Len(idle[p]) /\ i + 1 # 1
                                      /\ idle'[p][i] = idle[p][i + 1]
    BY <2>2, <2>7
  <2>9. \A i, j \in 1 .. Len(idle'[p]) : idle'[p][i] = idle'[p][j] => i = j
    <3> SUFFICES ASSUME NEW i \in 1 .. Len(idle'[p]), NEW j \in 1 .. Len(idle'[p]), idle'[p][i] = idle'[p][j]
                 PROVE  i = j
      OBVIOUS
    <3>1. i + 1 = j + 1
      BY <2>8
    <3>2. QED BY <3>1, <2>2, <2>7
  <2>10. \A i \in 1 .. Len(idle'[p]) : idle'[p][i] # c /\ idle'[p][i] # jobConn[p] /\ idle'[p][i] \notin lent[p]
    <3> SUFFICES ASSUME NEW i \in 1 .. Len(idle'[p])
                 PROVE  idle'[p][i] # c /\ idle'[p][i] # jobConn[p] /\ idle'[p][i] \notin lent[p]
      OBVIOUS
    <3>1. /\ \A j, k \in 1 .. Len(idle[p]) : idle[p][j] = idle[p][k] => j = k
          /\ \A j \in 1 .. Len(idle[p]) : idle[p][j] # jobConn[p] /\ idle[p][j] \notin lent[p]
      OBVIOUS
    <3> HIDE DEF ConnInv, Unshared
    <3>2. PICK j \in 1 .. Len(idle[p]) : j # 1 /\ idle'[p][i] = idle[p][j]
      BY <2>8
    <3>3. idle[p][j] # idle[p][1]
      BY <2>4, <3>1, <3>2
    <3>4. QED BY <2>4, <3>1, <3>2, <3>3
  <2>11. QED BY <1>0, <2>2, <2>5, <2>6, <2>7, <2>9, <2>10
<1>2. CASE idle[p] = <<>>
  <2>1. /\ c \notin open[p] /\ idle' = idle /\ idle[p] \in Seq(open[p])
        /\ open' = [open EXCEPT ![p] = open[p] \cup {c}]
    BY <1>2 DEF CheckOut
  <2>2. c # jobConn[p] /\ c \notin lent[p]
    BY <1>0, <2>1
  <2>3. Len(idle'[p]) = 0
    BY <1>2, <2>1, EmptySeq
  <2>4. QED BY <1>0, <2>1, <2>2, <2>3
<1>3. QED BY <1>1, <1>2

\* Giving back a connection that is not idle leaves a pool of idle, distinct
\* connections; if the pool closes it, two others stay open.
LEMMA CheckInWell ==
  ASSUME ConnInv, NEW p \in Procs, NEW c \in open[p], CheckIn(p, c),
         \A i \in 1 .. Len(idle[p]) : idle[p][i] # c
  PROVE  /\ open' \in [Procs -> SUBSET AllConns]
         /\ idle' \in [Procs -> Seq(AllConns)]
         /\ exposed' \in SUBSET Procs
         /\ \A q \in Procs : q # p => idle'[q] = idle[q] /\ open'[q] = open[q]
         /\ open[p] \ {c} \subseteq open'[p] /\ open'[p] \subseteq open[p]
         /\ idle'[p] \in Seq(open'[p])
         /\ \A i, j \in 1 .. Len(idle'[p]) : idle'[p][i] = idle'[p][j] => i = j
         /\ \A i \in 1 .. Len(idle'[p]) : \/ idle'[p][i] = c
                                          \/ \E j \in 1 .. Len(idle[p]) : idle'[p][i] = idle[p][j]
         /\ c \notin open'[p] => \E d, e \in open'[p] : d # e
<1> USE DEF ConnInv, Unshared
<1>1. c \in AllConns /\ idle[p] \in Seq(open[p]) /\ idle[p] \in Seq(AllConns)
  OBVIOUS
<1>2. Len(idle[p]) \in Nat /\ \A i \in 1 .. Len(idle[p]) : idle[p][i] \in open[p] \ {c}
  BY <1>1, LenProperties, ElementOfSeq
<1>3. CASE Len(idle[p]) < PoolSize
  <2>1. idle' = [idle EXCEPT ![p] = Append(@, c)] /\ open' = open /\ exposed' = exposed
    BY <1>2, <1>3, PoolAssumption DEF CheckIn
  <2>2. /\ Append(idle[p], c) \in Seq(open[p]) /\ Append(idle[p], c) \in Seq(AllConns)
        /\ Len(Append(idle[p], c)) = Len(idle[p]) + 1
        /\ \A i \in 1 .. Len(idle[p]) : Append(idle[p], c)[i] = idle[p][i]
        /\ Append(idle[p], c)[Len(idle[p]) + 1] = c
    BY <1>1, AppendProperties
  <2>3. idle'[p] = Append(idle[p], c)
    BY <2>1
  <2>4. \A i \in 1 .. Len(idle'[p]) : i \in 1 .. Len(idle[p]) \/ i = Len(idle[p]) + 1
    BY <1>2, <2>2, <2>3
  <2>5. \A i, j \in 1 .. Len(idle'[p]) : idle'[p][i] = idle'[p][j] => i = j
    BY <1>2, <2>2, <2>3, <2>4
  <2>6. \A i \in 1 .. Len(idle'[p]) : \/ idle'[p][i] = c
                                      \/ \E j \in 1 .. Len(idle[p]) : idle'[p][i] = idle[p][j]
    BY <2>2, <2>3, <2>4
  <2>7. QED BY <2>1, <2>2, <2>3, <2>5, <2>6
<1>4. CASE Len(idle[p]) >= PoolSize
  <2>1. open' = [open EXCEPT ![p] = @ \ {c}] /\ idle' = idle /\ exposed' \in SUBSET Procs
    BY <1>2, <1>4, PoolAssumption DEF CheckIn
  <2>2. open'[p] = open[p] \ {c} /\ open' \in [Procs -> SUBSET AllConns]
    BY <2>1
  <2>3. idle[p] \in [1 .. Len(idle[p]) -> open[p] \ {c}]
    BY <1>1, <1>2, LenProperties
  <2>4. idle'[p] \in Seq(open'[p])
    BY <1>2, <2>1, <2>2, <2>3, SeqDef
  <2>5. 1 \in 1 .. Len(idle[p]) /\ 2 \in 1 .. Len(idle[p])
    BY <1>2, <1>4, PoolAssumption
  <2>6. idle[p][1] # idle[p][2] /\ idle[p][1] \in open'[p] /\ idle[p][2] \in open'[p]
    BY <1>2, <2>2, <2>5
  <2>7. \E d, e \in open'[p] : d # e
    BY <2>6
  <2>8. QED BY <2>1, <2>2, <2>4, <2>7
<1>5. QED BY <1>2, <1>3, <1>4, PoolAssumption

\* What the pool does to the server's lock when it takes a connection back.
LEMMA CheckInOwner ==
  ASSUME ConnInv, NEW p \in Procs, NEW c \in open[p], CheckIn(p, c)
  PROVE  \/ owner' = owner /\ depth' = depth /\ exposed' = exposed /\ (owner = c => open' = open)
         \/ /\ owner = c /\ owner' = NoConn /\ depth' = 0
            /\ exposed' = IF pc[p] = "body" THEN exposed \cup {p} ELSE exposed
BY DEF CheckIn
-----------------------------------------------------------------------------
LEMMA InvInit == Init => IInv
<1> SUFFICES ASSUME Init PROVE IInv
  OBVIOUS
<1>1. \A S : <<>> \in Seq(S) /\ Len(<<>>) = 0
  BY EmptySeq
<1>2. ConnInv
  <2>1. \A p \in Procs : /\ open[p] = {} /\ idle[p] = <<>> /\ jobConn[p] = NoConn /\ lent[p] = {}
    BY DEF Init
  <2>2. \A p \in Procs : Unshared(p)
    BY <1>1, <2>1 DEF Unshared
  <2>3. QED BY <1>1, <2>1, <2>2 DEF Init, ConnInv, JobStages
<1>3. OwnerInv /\ CleanInv
  BY MaxDepthAssumption DEF Init, OwnerInv, CleanInv, Guarded, Running
<1>4. QED BY <1>2, <1>3 DEF IInv

\* Connections stay with their process, in one hand, when a session takes one.
LEMMA ConnOut ==
  ASSUME ConnInv, NEW p \in Procs, NEW c \in Conns(p), CheckOut(p, c),
         failed' = failed, exposed' = exposed, pc' \in [Procs -> JobStages],
         \/ jobConn' = [jobConn EXCEPT ![p] = c] /\ lent' = lent
         \/ lent' = [lent EXCEPT ![p] = @ \cup {c}] /\ jobConn' = jobConn
  PROVE  ConnInv'
<1>1. /\ c \in AllConns /\ c # NoConn /\ c # jobConn[p] /\ c \notin lent[p]
      /\ open' = [open EXCEPT ![p] = open[p] \cup {c}]
      /\ idle' \in [Procs -> Seq(AllConns)]
      /\ \A q \in Procs : q # p => idle'[q] = idle[q]
      /\ idle'[p] \in Seq(open[p])
      /\ \A i, j \in 1 .. Len(idle'[p]) : idle'[p][i] = idle'[p][j] => i = j
      /\ \A i \in 1 .. Len(idle'[p]) :
           idle'[p][i] # c /\ idle'[p][i] # jobConn[p] /\ idle'[p][i] \notin lent[p]
  BY CheckOutWell
<1>2. idle'[p] \in Seq(open'[p])
  <2>1. open'[p] = open[p] \cup {c}
    BY <1>1 DEF ConnInv
  <2>2. QED BY <1>1, <2>1
<1>3. /\ open' \in [Procs -> SUBSET AllConns]
      /\ jobConn' \in [Procs -> AllConns \cup {NoConn}] /\ lent' \in [Procs -> SUBSET AllConns]
      /\ \A q \in Procs : /\ open'[q] \subseteq Conns(q)
                          /\ jobConn'[q] \in open'[q] \cup {NoConn}
                          /\ lent'[q] \subseteq open'[q]
  <2>1. open' \in [Procs -> SUBSET AllConns] /\ \A q \in Procs : open'[q] \subseteq Conns(q)
    BY <1>1 DEF ConnInv
  <2>2. c \in open'[p] /\ \A q \in Procs : open[q] \subseteq open'[q]
    BY <1>1 DEF ConnInv
  <2>3. jobConn' \in [Procs -> AllConns \cup {NoConn}] /\ lent' \in [Procs -> SUBSET AllConns]
    <3>1. lent[p] \cup {c} \in SUBSET AllConns
      BY <1>1 DEF ConnInv
    <3>2. jobConn' \in [Procs -> AllConns \cup {NoConn}]
      BY <1>1 DEF ConnInv
    <3>3. lent' \in [Procs -> SUBSET AllConns]
      BY <3>1 DEF ConnInv
    <3>4. QED BY <3>2, <3>3
  <2>4. ASSUME NEW q \in Procs PROVE jobConn'[q] \in open'[q] \cup {NoConn} /\ lent'[q] \subseteq open'[q]
    <3>1. jobConn'[q] \in {jobConn[q]} \cup (IF q = p THEN {c} ELSE {})
      BY DEF ConnInv
    <3>2. lent'[q] \subseteq lent[q] \cup (IF q = p THEN {c} ELSE {})
      BY DEF ConnInv
    <3>3. jobConn[q] \in open[q] \cup {NoConn} /\ lent[q] \subseteq open[q]
      BY DEF ConnInv
    <3>4. QED BY <2>2, <3>1, <3>2, <3>3
  <2>5. QED BY <2>1, <2>3, <2>4
<1>4. Unshared(p)'
  BY <1>1 DEF ConnInv, Unshared
<1>5. ASSUME NEW q \in Procs, q # p PROVE Unshared(q)' /\ idle'[q] \in Seq(open'[q])
  <2>1. /\ open'[q] = open[q] /\ idle'[q] = idle[q] /\ jobConn'[q] = jobConn[q] /\ lent'[q] = lent[q]
        /\ Unshared(q) /\ idle[q] \in Seq(open[q])
    BY <1>1, <1>5 DEF ConnInv
  <2>2. QED BY <2>1 DEF Unshared
<1>6. \A q \in Procs : Unshared(q)' /\ idle'[q] \in Seq(open'[q])
  BY <1>2, <1>4, <1>5
<1>7. QED BY <1>1, <1>3, <1>6 DEF ConnInv

\* And when it gives it back.
LEMMA ConnIn ==
  ASSUME ConnInv, NEW p \in Procs, NEW c \in open[p], CheckIn(p, c),
         failed' = failed, pc' \in [Procs -> JobStages],
         \/ c = jobConn[p] /\ jobConn' = [jobConn EXCEPT ![p] = NoConn] /\ lent' = lent
         \/ c \in lent[p] /\ lent' = [lent EXCEPT ![p] = @ \ {c}] /\ jobConn' = jobConn
  PROVE  /\ ConnInv'
         /\ \A q \in Procs : q # p => open'[q] = open[q]
         /\ open[p] \ {c} \subseteq open'[p] /\ open'[p] \subseteq open[p]
         /\ c \notin open'[p] => \E d, e \in open'[p] : d # e
<1>0. \A i \in 1 .. Len(idle[p]) : idle[p][i] # c
  BY DEF ConnInv, Unshared
<1>1. /\ open' \in [Procs -> SUBSET AllConns]
      /\ idle' \in [Procs -> Seq(AllConns)]
      /\ exposed' \in SUBSET Procs
      /\ \A q \in Procs : q # p => idle'[q] = idle[q] /\ open'[q] = open[q]
      /\ open[p] \ {c} \subseteq open'[p] /\ open'[p] \subseteq open[p]
      /\ idle'[p] \in Seq(open'[p])
      /\ \A i, j \in 1 .. Len(idle'[p]) : idle'[p][i] = idle'[p][j] => i = j
      /\ \A i \in 1 .. Len(idle'[p]) : \/ idle'[p][i] = c
                                       \/ \E j \in 1 .. Len(idle[p]) : idle'[p][i] = idle[p][j]
      /\ c \notin open'[p] => \E d, e \in open'[p] : d # e
  BY <1>0, CheckInWell
<1>2. c # NoConn /\ jobConn[p] \notin lent[p]
  BY Apart DEF ConnInv, Unshared
<1>3. /\ jobConn' \in [Procs -> AllConns \cup {NoConn}] /\ lent' \in [Procs -> SUBSET AllConns]
      /\ \A q \in Procs : q # p => jobConn'[q] = jobConn[q] /\ lent'[q] = lent[q]
      /\ jobConn'[p] \in (open[p] \ {c}) \cup {NoConn} /\ lent'[p] \subseteq open[p] \ {c}
      /\ jobConn'[p] \notin lent'[p]
      /\ jobConn'[p] \in {jobConn[p], NoConn} /\ lent'[p] \subseteq lent[p]
  <2>1. lent[p] \subseteq open[p] /\ NoConn \notin open[p] /\ jobConn[p] \in open[p] \cup {NoConn}
    BY Apart DEF ConnInv
  <2>2. QED BY <1>2, <2>1 DEF ConnInv
<1>4. \A q \in Procs : /\ open'[q] \subseteq Conns(q)
                       /\ jobConn'[q] \in open'[q] \cup {NoConn}
                       /\ lent'[q] \subseteq open'[q]
  BY <1>1, <1>3 DEF ConnInv
<1>5. Unshared(p)'
  <2>1. ASSUME NEW i \in 1 .. Len(idle'[p])
        PROVE  idle'[p][i] # jobConn'[p] /\ idle'[p][i] \notin lent'[p]
    <3>1. CASE idle'[p][i] = c
      BY <1>2, <1>3, <3>1
    <3>2. CASE \E j \in 1 .. Len(idle[p]) : idle'[p][i] = idle[p][j]
      <4>1. PICK j \in 1 .. Len(idle[p]) : idle'[p][i] = idle[p][j]
        BY <3>2
      <4>2. idle[p][j] \in open[p]
        BY ElementOfSeq DEF ConnInv
      <4>3. idle[p][j] # NoConn /\ idle[p][j] # jobConn[p] /\ idle[p][j] \notin lent[p]
        BY <4>2, Apart DEF ConnInv, Unshared
      <4>4. QED BY <1>3, <4>1, <4>3
    <3>3. QED BY <1>1, <3>1, <3>2
  <2>2. QED BY <1>1, <1>3, <2>1 DEF Unshared
<1>6. ASSUME NEW q \in Procs, q # p PROVE Unshared(q)' /\ idle'[q] \in Seq(open'[q])
  <2>1. /\ open'[q] = open[q] /\ idle'[q] = idle[q] /\ jobConn'[q] = jobConn[q] /\ lent'[q] = lent[q]
        /\ Unshared(q) /\ idle[q] \in Seq(open[q])
    BY <1>1, <1>3, <1>6 DEF ConnInv
  <2>2. QED BY <2>1 DEF Unshared
<1>7. \A q \in Procs : Unshared(q)' /\ idle'[q] \in Seq(open'[q])
  BY <1>1, <1>5, <1>6
<1>8. failed' \in SUBSET Procs
  BY DEF ConnInv
<1>9. QED BY <1>1, <1>3, <1>4, <1>7, <1>8 DEF ConnInv

\* Connections stay with their process through every step.
LEMMA ConnStep == ConnInv /\ [Next]_vars => ConnInv'
<1> SUFFICES ASSUME ConnInv, [Next]_vars PROVE ConnInv'
  OBVIOUS
<1>1. ASSUME NEW p \in Procs, JobStart(p) \/ JobBusy(p) \/ Touch(p) PROVE ConnInv'
  <2>1. PICK c \in Conns(p) : CheckOut(p, c) /\ jobConn' = [jobConn EXCEPT ![p] = c]
    BY <1>1 DEF JobStart, JobBusy, Touch
  <2>2. lent' = lent /\ failed' = failed /\ exposed' = exposed /\ pc' \in [Procs -> JobStages]
    BY <1>1 DEF JobStart, JobBusy, Touch, ConnInv, JobStages, Move
  <2>3. QED BY <2>1, <2>2, ConnOut
<1>2. ASSUME NEW p \in Procs, RequestBegin(p) PROVE ConnInv'
  <2>1. PICK c \in Conns(p) : CheckOut(p, c) /\ lent' = [lent EXCEPT ![p] = @ \cup {c}]
    BY <1>2 DEF RequestBegin
  <2>2. jobConn' = jobConn /\ failed' = failed /\ exposed' = exposed /\ pc' \in [Procs -> JobStages]
    BY <1>2 DEF RequestBegin, ConnInv
  <2>3. QED BY <2>1, <2>2, ConnOut
<1>3. ASSUME NEW p \in Procs, BodyCommit(p) \/ (JobEnd(p) /\ jobConn[p] # NoConn) PROVE ConnInv'
  <2>1. /\ CheckIn(p, jobConn[p]) /\ jobConn[p] \in open[p]
        /\ jobConn' = [jobConn EXCEPT ![p] = NoConn]
        /\ lent' = lent /\ failed' = failed /\ pc' \in [Procs -> JobStages]
    BY <1>3 DEF BodyCommit, JobEnd, ConnInv, JobStages, Move
  <2>2. QED BY <2>1, ConnIn
<1>4. ASSUME NEW p \in Procs, RequestEnd(p) PROVE ConnInv'
  <2>1. PICK c \in lent[p] : CheckIn(p, c) /\ lent' = [lent EXCEPT ![p] = @ \ {c}]
    BY <1>4 DEF RequestEnd
  <2>2. c \in open[p] /\ jobConn' = jobConn /\ failed' = failed /\ pc' \in [Procs -> JobStages]
    BY <1>4, <2>1 DEF RequestEnd, ConnInv
  <2>3. QED BY <2>1, <2>2, ConnIn
<1>5. ASSUME NEW p \in Procs, JobUnlock(p) \/ JobFail(p) \/ (JobEnd(p) /\ jobConn[p] = NoConn)
      PROVE  ConnInv'
  <2>1. /\ open' = open /\ idle' = idle /\ lent' = lent /\ jobConn' = jobConn
        /\ failed' \in SUBSET Procs /\ exposed' \in SUBSET Procs /\ pc' \in [Procs -> JobStages]
    BY <1>5 DEF JobUnlock, JobFail, JobEnd, ConnInv, JobStages, Move
  <2>2. QED BY <2>1 DEF ConnInv, Unshared
<1>6. ASSUME NEW p \in Procs, Crash(p) PROVE ConnInv'
  <2>1. \A S : <<>> \in Seq(S) /\ Len(<<>>) = 0
    BY EmptySeq
  <2>2. /\ open' = [open EXCEPT ![p] = {}] /\ idle' = [idle EXCEPT ![p] = <<>>]
        /\ jobConn' = [jobConn EXCEPT ![p] = NoConn] /\ lent' = [lent EXCEPT ![p] = {}]
        /\ failed' \in SUBSET Procs /\ exposed' \in SUBSET Procs /\ pc' \in [Procs -> JobStages]
    BY <1>6 DEF Crash, ConnInv, JobStages, Move
  <2>3. \A q \in Procs : Unshared(q)'
    BY <2>1, <2>2 DEF ConnInv, Unshared
  <2>4. \A q \in Procs : idle'[q] \in Seq(open'[q])
    BY <2>1, <2>2 DEF ConnInv
  <2>5. idle' \in [Procs -> Seq(AllConns)]
    BY <2>1, <2>2 DEF ConnInv
  <2>6. QED BY <2>2, <2>3, <2>4, <2>5 DEF ConnInv
<1>7. CASE UNCHANGED vars
  BY <1>7 DEF vars, ConnInv, Unshared
<1>8. QED BY <1>1, <1>2, <1>3, <1>4, <1>5, <1>6, <1>7 DEF Next

\* The steps at which the pool takes a connection back.
Returns(p, c) ==
  /\ c \in open[p] /\ CheckIn(p, c) /\ failed' = failed
  /\ \A q \in Procs : pc'[q] = "body" <=> pc[q] = "body"
  /\ \A q \in Procs : q # p => open'[q] = open[q]
  /\ open[p] \ {c} \subseteq open'[p] /\ open'[p] \subseteq open[p]
  /\ c \notin open'[p] => \E d, e \in open'[p] : d # e

LEMMA Returning ==
  ASSUME ConnInv, NEW p \in Procs,
         BodyCommit(p) \/ RequestEnd(p) \/ (JobEnd(p) /\ jobConn[p] # NoConn)
  PROVE  \E c \in open[p] : Returns(p, c)
<1>1. CASE BodyCommit(p) \/ (JobEnd(p) /\ jobConn[p] # NoConn)
  <2>1. /\ CheckIn(p, jobConn[p]) /\ jobConn[p] \in open[p]
        /\ jobConn' = [jobConn EXCEPT ![p] = NoConn]
        /\ lent' = lent /\ failed' = failed /\ pc' \in [Procs -> JobStages]
        /\ \A q \in Procs : pc'[q] = "body" <=> pc[q] = "body"
    BY <1>1 DEF BodyCommit, JobEnd, ConnInv, JobStages, Move
  <2>2. QED BY <2>1, ConnIn DEF Returns
<1>2. CASE RequestEnd(p)
  <2>1. PICK c \in lent[p] : CheckIn(p, c) /\ lent' = [lent EXCEPT ![p] = @ \ {c}]
    BY <1>2 DEF RequestEnd
  <2>2. c \in open[p] /\ jobConn' = jobConn /\ failed' = failed /\ pc' = pc /\ pc' \in [Procs -> JobStages]
    BY <1>2, <2>1 DEF RequestEnd, ConnInv
  <2>3. QED BY <2>1, <2>2, ConnIn DEF Returns
<1>3. QED BY <1>1, <1>2

\* With an unchanged owner and pools that only grow, owners stay where they were.
LEMMA OwnerKept ==
  ASSUME ConnInv, OwnerInv, ConnInv', owner' = owner, NEW q \in Procs, owner \in open'[q]
  PROVE  owner \in open[q]
<1>1. owner # NoConn
  BY NoConnAssumption DEF ConnInv
<1>2. PICK r \in Procs : owner \in open[r]
  BY <1>1 DEF OwnerInv
<1>3. owner \in Conns(q) /\ owner \in Conns(r)
  BY <1>2 DEF ConnInv
<1>4. QED BY <1>2, <1>3 DEF Conns

\* Nobody is guarded by the lock when a connection of p gets it.
LEMMA FreeToTake ==
  ASSUME ConnInv, OwnerInv, NEW p \in Procs, pc[p] # "body", NEW c \in Conns(p), Free(c)
  PROVE  Guarded = {}
<1> SUFFICES ASSUME NEW q \in Guarded PROVE FALSE
  OBVIOUS
<1>1. q \in Procs /\ pc[q] = "body" /\ owner \in open[q]
  BY DEF Guarded, Running, OwnerInv
<1>2. owner = c
  BY <1>1, Apart DEF Free
<1>3. c \in Conns(q)
  BY <1>1, <1>2 DEF ConnInv
<1>4. QED BY <1>1, <1>3 DEF Conns

\* No step takes the lock from the process of a guarded job without exposing it.
LEMMA OwnerStep == ConnInv /\ OwnerInv /\ [Next]_vars => OwnerInv'
<1> SUFFICES ASSUME ConnInv, OwnerInv, [Next]_vars PROVE OwnerInv'
  OBVIOUS
<1>0. ConnInv'
  BY ConnStep
<1>1. ASSUME owner' = owner, depth' = depth,
             \A q \in Procs : open[q] \subseteq open'[q], Guarded' \subseteq Guarded
      PROVE  OwnerInv'
  BY <1>1 DEF OwnerInv, Guarded, Running
<1>2. ASSUME NEW p \in Procs, JobStart(p) PROVE OwnerInv'
  <2>1. PICK c \in Conns(p) : CheckOut(p, c) /\ Free(c) /\ owner' = c
    BY <1>2 DEF JobStart
  <2>2. c # NoConn /\ c \in open'[p]
    BY <2>1, CheckOutWell DEF ConnInv
  <2>3. depth' \in 0 .. MaxDepth /\ depth' # 0
    BY <1>2, MaxDepthAssumption DEF JobStart, OwnerInv
  <2>4. Guarded = {}
    BY <1>2, <2>1, FreeToTake DEF JobStart
  <2>5. Guarded' \subseteq {p}
    BY <1>2, <2>4 DEF JobStart, Move, Guarded, Running, ConnInv
  <2>6. QED BY <2>1, <2>2, <2>3, <2>5 DEF OwnerInv
<1>3. ASSUME NEW p \in Procs, JobBusy(p) \/ Touch(p) \/ RequestBegin(p) PROVE OwnerInv'
  <2>1. PICK c \in Conns(p) : CheckOut(p, c)
    BY <1>3 DEF JobBusy, Touch, RequestBegin
  <2>2. \A q \in Procs : open[q] \subseteq open'[q]
    <3>1. open' = [open EXCEPT ![p] = open[p] \cup {c}]
      BY <2>1, CheckOutWell
    <3>2. QED BY <3>1 DEF ConnInv
  <2>3. Guarded' \subseteq Guarded
    BY <1>3 DEF JobBusy, Touch, RequestBegin, Move, Guarded, Running, ConnInv
  <2>4. QED BY <1>1, <1>3, <2>2, <2>3 DEF JobBusy, Touch, RequestBegin
<1>4. ASSUME NEW p \in Procs, BodyCommit(p) \/ RequestEnd(p) \/ (JobEnd(p) /\ jobConn[p] # NoConn)
      PROVE  OwnerInv'
  <2>1. PICK c \in open[p] : Returns(p, c)
    BY <1>4, Returning
  <2>2. CASE owner' = owner /\ depth' = depth /\ exposed' = exposed /\ (owner = c => open' = open)
    <3>1. \A q \in Procs : owner \in open[q] => owner \in open'[q]
      BY <2>1, <2>2 DEF Returns
    <3>2. Guarded' \subseteq Guarded
      BY <2>1, <2>2 DEF Returns, Guarded, Running
    <3>3. QED BY <2>2, <3>1, <3>2 DEF OwnerInv, Guarded, Running
  <2>3. CASE /\ owner = c /\ owner' = NoConn /\ depth' = 0
             /\ exposed' = IF pc[p] = "body" THEN exposed \cup {p} ELSE exposed
    <3>1. \A q \in Guarded : q = p
      BY <2>3, Apart DEF OwnerInv, Guarded, Running
    <3>2. Guarded' = {}
      BY <2>1, <2>3, <3>1 DEF Returns, Guarded, Running
    <3>3. QED BY <2>3, <3>2, MaxDepthAssumption DEF OwnerInv
  <2>4. QED BY <2>1, <2>2, <2>3, CheckInOwner DEF Returns
<1>5. ASSUME NEW p \in Procs, JobFail(p) \/ (JobEnd(p) /\ jobConn[p] = NoConn) PROVE OwnerInv'
  <2>1. Guarded' \subseteq Guarded
    BY <1>5 DEF JobFail, JobEnd, Move, Guarded, Running, ConnInv
  <2>2. QED BY <1>1, <1>5, <2>1 DEF JobFail, JobEnd
<1>6. ASSUME NEW p \in Procs, JobUnlock(p) PROVE OwnerInv'
  <2>1. open' = open /\ jobConn[p] \in open[p] /\ Guarded' = Guarded \ {p}
    BY <1>6 DEF JobUnlock, Move, Guarded, Running, ConnInv
  <2>2. CASE owner # jobConn[p]
    BY <1>1, <1>6, <2>1, <2>2 DEF JobUnlock
  <2>3. CASE owner = jobConn[p]
    <3>1. owner # NoConn
      BY <2>1, <2>3, Apart
    <3>2. Guarded' = {}
      <4>1. \A q \in Guarded : q = p
        BY <2>1, <2>3, Apart DEF OwnerInv, Guarded, Running
      <4>2. QED BY <2>1, <4>1
    <3>3. depth' = depth - 1 /\ owner' = IF depth = 1 THEN NoConn ELSE owner
      BY <1>6, <2>3 DEF JobUnlock
    <3>4. QED BY <2>1, <3>1, <3>2, <3>3, MaxDepthAssumption DEF OwnerInv
  <2>4. QED BY <2>2, <2>3
<1>7. ASSUME NEW p \in Procs, Crash(p) PROVE OwnerInv'
  <2>1. /\ Guarded' = Guarded \ {p} /\ open' = [open EXCEPT ![p] = {}]
        /\ IF owner \in open[p]
           THEN owner' = NoConn /\ depth' = 0
           ELSE owner' = owner /\ depth' = depth
    BY <1>7 DEF Crash, Move, Guarded, Running, ConnInv
  <2>2. CASE owner \in open[p]
    <3>1. Guarded' = {}
      <4>1. \A q \in Guarded : q = p
        BY <2>2, Apart DEF OwnerInv, Guarded, Running
      <4>2. QED BY <2>1, <4>1
    <3>2. QED BY <2>1, <2>2, <3>1, MaxDepthAssumption DEF OwnerInv
  <2>3. CASE owner \notin open[p]
    BY <2>1, <2>3 DEF ConnInv, OwnerInv, Guarded, Running
  <2>4. QED BY <2>2, <2>3
<1>8. CASE UNCHANGED vars
  BY <1>1, <1>8 DEF vars, Guarded, Running
<1>9. QED BY <1>2, <1>3, <1>4, <1>5, <1>6, <1>7, <1>8 DEF Next

\* A process without failures and with one connection gives back what it took.
LEMMA CleanStep == IInv /\ [Next]_vars => CleanInv'
<1> SUFFICES ASSUME ConnInv, OwnerInv, CleanInv, [Next]_vars PROVE CleanInv'
  BY DEF IInv
<1>0. ConnInv' /\ OwnerInv'
  BY ConnStep, OwnerStep
<1> SUFFICES ASSUME NEW q \in Procs,
                    owner' \in open'[q], q \notin failed', ~\E c, d \in open'[q] : c # d
             PROVE  pc'[q] = "body" /\ depth' = 1
  BY DEF CleanInv, Several
<1>1. ASSUME owner' = owner, depth' = depth, open[q] \subseteq open'[q],
             q \in failed => q \in failed', pc[q] = "body" => pc'[q] = "body"
      PROVE  pc'[q] = "body" /\ depth' = 1
  <2>1. owner \in open[q]
    BY <1>0, <1>1, OwnerKept
  <2>2. ~Several(q) /\ q \notin failed
    BY <1>1 DEF Several
  <2>3. QED BY <1>1, <2>1, <2>2 DEF CleanInv
<1>2. ASSUME NEW p \in Procs, JobStart(p) PROVE pc'[q] = "body" /\ depth' = 1
  <2>1. PICK c \in Conns(p) : CheckOut(p, c) /\ Free(c) /\ owner' = c
    BY <1>2 DEF JobStart
  <2>2. open[p] \subseteq open'[p]
    BY <2>1, CheckOutWell DEF ConnInv
  <2>3. q = p
    <3>1. c \in Conns(q)
      BY <1>0, <2>1 DEF ConnInv
    <3>2. QED BY <3>1 DEF Conns
  <2>4. failed' = failed /\ pc[p] = "idle" /\ pc'[p] = "body" /\ depth' = depth + 1
    BY <1>2 DEF JobStart, Move, ConnInv
  <2>5. owner \notin open[p]
    BY <2>2, <2>3, <2>4 DEF CleanInv, Several
  <2>6. owner = NoConn
    <3>1. ASSUME owner # NoConn PROVE FALSE
      <4>1. PICK r \in Procs : owner \in open[r]
        BY <3>1 DEF OwnerInv
      <4>2. owner \in Conns(p) /\ owner \in Conns(r)
        BY <2>1, <3>1, <4>1 DEF Free, ConnInv
      <4>3. QED BY <2>5, <4>1, <4>2 DEF Conns
    <3>2. QED BY <3>1
  <2>7. depth = 0
    BY <2>6 DEF OwnerInv
  <2>8. QED BY <2>3, <2>4, <2>7
<1>3. ASSUME NEW p \in Procs, JobBusy(p) \/ Touch(p) \/ RequestBegin(p)
      PROVE  pc'[q] = "body" /\ depth' = 1
  <2>1. PICK c \in Conns(p) : CheckOut(p, c)
    BY <1>3 DEF JobBusy, Touch, RequestBegin
  <2>2. open[q] \subseteq open'[q]
    <3>1. open' = [open EXCEPT ![p] = open[p] \cup {c}]
      BY <2>1, CheckOutWell
    <3>2. QED BY <3>1 DEF ConnInv
  <2>3. pc[q] = "body" => pc'[q] = "body"
    BY <1>3 DEF JobBusy, Touch, RequestBegin, Move, ConnInv
  <2>4. QED BY <1>1, <1>3, <2>2, <2>3 DEF JobBusy, Touch, RequestBegin
<1>4. ASSUME NEW p \in Procs, BodyCommit(p) \/ RequestEnd(p) \/ (JobEnd(p) /\ jobConn[p] # NoConn)
      PROVE  pc'[q] = "body" /\ depth' = 1
  <2>1. PICK c \in open[p] : Returns(p, c)
    BY <1>4, Returning
  <2>2. owner' # NoConn
    BY <1>0, NoConnAssumption DEF ConnInv
  <2>3. owner' = owner /\ depth' = depth
    BY <2>1, <2>2, CheckInOwner DEF Returns
  <2>4. q = p => c \in open'[p]
    BY <2>1 DEF Returns
  <2>5. open[q] \subseteq open'[q]
    BY <2>1, <2>4 DEF Returns
  <2>6. QED BY <1>1, <2>1, <2>3, <2>5 DEF Returns
<1>5. ASSUME NEW p \in Procs, JobFail(p) PROVE pc'[q] = "body" /\ depth' = 1
  <2>1. q # p
    BY <1>5 DEF JobFail
  <2>2. pc'[q] = pc[q]
    BY <1>5, <2>1 DEF JobFail, Move, ConnInv
  <2>3. QED BY <1>1, <1>5, <2>2 DEF JobFail
<1>6. ASSUME NEW p \in Procs, JobEnd(p), jobConn[p] = NoConn PROVE pc'[q] = "body" /\ depth' = 1
  BY <1>1, <1>6 DEF JobEnd, Move, ConnInv
<1>7. ASSUME NEW p \in Procs, JobUnlock(p) PROVE pc'[q] = "body" /\ depth' = 1
  <2>1. open' = open /\ failed' = failed /\ pc[p] = "body" /\ jobConn[p] \in open[p]
    BY <1>7 DEF JobUnlock, ConnInv
  <2>2. owner' = owner
    <3>1. owner' # NoConn
      BY <1>0, Apart, NoConnAssumption DEF ConnInv
    <3>2. QED BY <1>7, <3>1 DEF JobUnlock
  <2>3. q # p
    <3>1. ASSUME q = p PROVE FALSE
      <4>1. depth = 1
        BY <2>1, <2>2, <3>1 DEF CleanInv, Several
      <4>2. owner = jobConn[p]
        BY <2>1, <2>2, <3>1
      <4>3. owner' = NoConn
        BY <1>7, <4>1, <4>2 DEF JobUnlock
      <4>4. QED BY <2>1, <2>2, <4>2, <4>3, Apart
    <3>2. QED BY <3>1
  <2>4. owner # jobConn[p]
    BY <2>1, <2>2, <2>3, Apart
  <2>5. depth' = depth /\ pc'[q] = pc[q]
    BY <1>7, <2>3, <2>4 DEF JobUnlock, Move, ConnInv
  <2>6. QED BY <1>1, <2>1, <2>2, <2>5
<1>8. ASSUME NEW p \in Procs, Crash(p) PROVE pc'[q] = "body" /\ depth' = 1
  <2>1. q # p
    BY <1>8 DEF Crash, ConnInv
  <2>2. open'[q] = open[q] /\ pc'[q] = pc[q] /\ (q \in failed => q \in failed')
    BY <1>8, <2>1 DEF Crash, Move, ConnInv
  <2>3. owner' # NoConn
    BY <1>0, NoConnAssumption DEF ConnInv
  <2>4. owner' = owner /\ depth' = depth
    BY <1>8, <2>3 DEF Crash
  <2>5. QED BY <1>1, <2>2, <2>4
<1>9. CASE UNCHANGED vars
  BY <1>1, <1>9 DEF vars
<1>10. QED BY <1>2, <1>3, <1>4, <1>5, <1>6, <1>7, <1>8, <1>9 DEF Next

LEMMA InvStep == IInv /\ [Next]_vars => IInv'
BY ConnStep, OwnerStep, CleanStep DEF IInv
-----------------------------------------------------------------------------
\* Every variable keeps its type, and the server counts the locks of an owner only.
THEOREM TypeCorrect == Spec => []TypeOK
<1>1. ASSUME IInv PROVE TypeOK
  <2>1. owner \in AllConns \cup {NoConn}
    BY <1>1 DEF IInv, ConnInv, OwnerInv
  <2>2. QED BY <1>1, <2>1 DEF IInv, ConnInv, OwnerInv, TypeOK
<1>2. QED BY <1>1, InvInit, InvStep, PTL DEF Spec

\* The jobs whose lock is on the server implement the abstract mutex, although
\* the connection that owns the lock is mostly not the one the job is using: a
\* job enters when no other is guarded, and loses the lock without ending only
\* by the pool closing the connection that owns it.
THEOREM LockIsMutex == Spec => MutexSpec
<1>1. Init => Mutex!Init
  BY DEF Init, Mutex!Init, Guarded, Running
<1>2. IInv /\ [Next]_vars => [Mutex!Next]_Guarded
  <2> SUFFICES ASSUME IInv, [Next]_vars PROVE [Mutex!Next]_Guarded
    OBVIOUS
  <2> USE DEF IInv
  <2>1. ASSUME NEW p \in Procs, Guarded' = Guarded \ {p} PROVE [Mutex!Next]_Guarded
    <3>1. CASE p \in Guarded
      BY <2>1, <3>1 DEF Mutex!Next, Mutex!Leave
    <3>2. CASE p \notin Guarded
      BY <2>1, <3>2
    <3>3. QED BY <3>1, <3>2
  <2>2. ASSUME NEW p \in Procs, JobStart(p) PROVE [Mutex!Next]_Guarded
    <3>1. Guarded = {}
      BY <2>2, FreeToTake DEF JobStart
    <3>2. Guarded' = {p} \ exposed
      BY <2>2, <3>1 DEF JobStart, Move, Guarded, Running, ConnInv
    <3>3. QED BY <3>1, <3>2 DEF Mutex!Next, Mutex!Enter
  <2>3. ASSUME NEW p \in Procs, JobUnlock(p) \/ JobFail(p) \/ Crash(p) PROVE Guarded' = Guarded \ {p}
    BY <2>3 DEF JobUnlock, JobFail, Crash, Move, Guarded, Running, ConnInv
  <2>4. ASSUME NEW p \in Procs, BodyCommit(p) \/ RequestEnd(p) \/ (JobEnd(p) /\ jobConn[p] # NoConn)
        PROVE  Guarded' = Guarded \/ Guarded' = Guarded \ {p}
    <3>1. PICK c \in open[p] : Returns(p, c)
      BY <2>4, Returning
    <3>2. QED BY <3>1, CheckInOwner DEF Returns, Guarded, Running
  <2>5. ASSUME NEW p \in Procs,
               JobBusy(p) \/ Touch(p) \/ RequestBegin(p) \/ (JobEnd(p) /\ jobConn[p] = NoConn)
        PROVE  Guarded' = Guarded
    BY <2>5 DEF JobBusy, Touch, RequestBegin, JobEnd, Move, Guarded, Running, ConnInv
  <2>6. CASE UNCHANGED vars
    BY <2>6 DEF vars, Guarded, Running
  <2>7. QED BY <2>1, <2>2, <2>3, <2>4, <2>5, <2>6 DEF Next
<1>3. QED BY <1>1, <1>2, InvInit, InvStep, PTL DEF Spec, MutexSpec, Mutex!Spec

\* A pool without overflow never closes a connection: with all PoolSize
\* connections open, the one that comes back is not among the idle ones.
LEMMA NeverSurplus ==
  ASSUME MaxOverflow = 0, ConnInv, NEW p \in Procs, NEW c \in open[p],
         \A i \in 1 .. Len(idle[p]) : idle[p][i] # c
  PROVE  Len(idle[p]) < PoolSize
<1>1. idle[p] \in Seq(open[p]) /\ c \in Conns(p) /\ open[p] \subseteq Conns(p)
  BY DEF ConnInv
<1>2. Len(idle[p]) \in Nat /\ \A i \in 1 .. Len(idle[p]) : idle[p][i] \in Conns(p) \ {c}
  BY <1>1, LenProperties, ElementOfSeq
<1>3. SUFFICES ASSUME Len(idle[p]) >= PoolSize PROVE FALSE
  BY <1>2, PoolAssumption
<1> DEFINE n == PoolSize
           f == [i \in 1 .. n |-> idle[p][i][2]]
           T == (1 .. n) \ {c[2]}
<1>4. c[2] \in 1 .. n /\ c = <<p, c[2]>>
  BY <1>1, PoolAssumption DEF Conns
<1>5. \A i \in 1 .. n : /\ i \in 1 .. Len(idle[p])
                        /\ idle[p][i][2] \in 1 .. n /\ idle[p][i] = <<p, idle[p][i][2]>>
  BY <1>2, <1>3, PoolAssumption DEF Conns
<1>6. f \in [1 .. n -> T]
  BY <1>2, <1>4, <1>5
<1>7. IsFiniteSet(1 .. n) /\ Cardinality(1 .. n) = n
  BY PoolAssumption, FS_Interval
<1>8. IsFiniteSet(T) /\ Cardinality(T) = n - 1
  BY <1>4, <1>7, FS_RemoveElement
<1>9. Cardinality(T) < Cardinality(1 .. n)
  BY <1>7, <1>8, PoolAssumption
<1>10. PICK i, j \in 1 .. n : i # j /\ f[i] = f[j]
  <2> HIDE DEF f, T
  <2> QED BY <1>6, <1>7, <1>8, <1>9, FS_PigeonHole
<1>11. idle[p][i] = idle[p][j]
  BY <1>5, <1>10
<1>12. QED BY <1>5, <1>10, <1>11 DEF ConnInv, Unshared

\* With a pool that opens no connection beyond those it keeps, no two
\* processes run the job at once, whatever statements fail, whichever sessions
\* borrow the connection with the lock, and whenever processes die.
THEOREM ExclusiveWithoutOverflow ==
  ASSUME MaxOverflow = 0
  PROVE  Spec => []Exclusive
<1> DEFINE J == IInv /\ exposed = {}
<1>1. Init => J
  BY InvInit DEF Init
<1>2. J /\ [Next]_vars => J'
  <2> SUFFICES ASSUME IInv, exposed = {}, [Next]_vars PROVE exposed' = {}
    BY InvStep
  <2>1. ASSUME NEW p \in Procs, NEW c \in open[p], CheckIn(p, c), c = jobConn[p] \/ c \in lent[p]
        PROVE  exposed' = {}
    <3>1. Len(idle[p]) < PoolSize
      <4>1. ConnInv /\ \A i \in 1 .. Len(idle[p]) : idle[p][i] # c
        BY <2>1 DEF IInv, ConnInv, Unshared
      <4>2. QED BY <4>1, NeverSurplus
    <3>2. Len(idle[p]) \in Nat
      BY LenProperties DEF IInv, ConnInv
    <3>3. QED BY <2>1, <3>1, <3>2, PoolAssumption DEF CheckIn
  <2>2. ASSUME NEW p \in Procs, BodyCommit(p) \/ (JobEnd(p) /\ jobConn[p] # NoConn) PROVE exposed' = {}
    BY <2>1, <2>2 DEF BodyCommit, JobEnd, IInv, ConnInv
  <2>3. ASSUME NEW p \in Procs, RequestEnd(p) PROVE exposed' = {}
    BY <2>1, <2>3 DEF RequestEnd, IInv, ConnInv
  <2>4. ASSUME NEW p \in Procs,
               \/ JobStart(p) \/ JobBusy(p) \/ Touch(p) \/ JobUnlock(p) \/ JobFail(p)
               \/ (JobEnd(p) /\ jobConn[p] = NoConn) \/ RequestBegin(p) \/ Crash(p)
        PROVE  exposed' = {}
    BY <2>4 DEF JobStart, JobBusy, Touch, JobUnlock, JobFail, JobEnd, RequestBegin, Crash
  <2>5. CASE UNCHANGED vars
    BY <2>5 DEF vars
  <2>6. QED BY <2>2, <2>3, <2>4, <2>5 DEF Next
<1>3. J => Exclusive
  BY Apart DEF IInv, OwnerInv, Exclusive, Guarded, Running
<1>4. QED BY <1>1, <1>2, <1>3, PTL DEF Spec

\* A lock that outlives its job sits on a process that has had a failing
\* statement or a second connection: nothing else keeps the finally clause of
\* the tasks from giving it back.
THEOREM OrphansExplained == Spec => []OrphanIsExplained
<1>1. ASSUME IInv PROVE OrphanIsExplained
  <2> SUFFICES ASSUME owner # NoConn, Running = {}
               PROVE  \E p \in Procs : owner \in open[p] /\ (p \in failed \/ Cardinality(open[p]) > 1)
    BY DEF OrphanIsExplained
  <2>1. PICK p \in Procs : owner \in open[p]
    BY <1>1 DEF IInv, OwnerInv
  <2>2. p \in failed \/ Several(p)
    BY <1>1, <2>1 DEF IInv, CleanInv, Running
  <2>3. ASSUME Several(p) PROVE Cardinality(open[p]) > 1
    <3>1. PICK c, d \in open[p] : c # d
      BY <2>3 DEF Several
    <3>2. IsFiniteSet(open[p])
      <4>1. IsFiniteSet({p}) /\ IsFiniteSet(1 .. PoolSize + MaxOverflow)
        <5>1. 1 \in Int /\ PoolSize + MaxOverflow \in Int
          BY PoolAssumption
        <5>2. IsFiniteSet(1 .. PoolSize + MaxOverflow)
          BY <5>1, FS_Interval
        <5>3. QED BY <5>2, FS_Singleton
      <4>2. IsFiniteSet(Conns(p))
        BY <4>1, FS_Product DEF Conns
      <4>3. QED BY <1>1, <4>2, FS_Subset DEF IInv, ConnInv
    <3>3. Cardinality({c, d}) = 2 /\ IsFiniteSet({c, d})
      <4>1. IsFiniteSet({c}) /\ Cardinality({c}) = 1
        BY FS_Singleton
      <4>2. {c} \cup {d} = {c, d} /\ d \notin {c}
        BY <3>1
      <4>3. IsFiniteSet({c} \cup {d}) /\ Cardinality({c} \cup {d}) = Cardinality({c}) + 1
        BY <4>1, <4>2, FS_AddElement, Zenon
      <4>4. QED BY <4>1, <4>2, <4>3
    <3>4. Cardinality(open[p]) \in Nat /\ Cardinality({c, d}) <= Cardinality(open[p])
      BY <3>1, <3>2, FS_Subset, FS_CardinalityType
    <3>5. QED BY <3>3, <3>4
  <2>4. QED BY <2>1, <2>2, <2>3
<1>2. QED BY <1>1, InvInit, InvStep, PTL DEF Spec
-----------------------------------------------------------------------------
(***************************************************************************)
(* The lock row.                                                           *)
(***************************************************************************)
\* The initial row and processes are well typed.
LEMMA RowInitTyped == RowInit => RowTypeOK
<1> SUFFICES ASSUME RowInit PROVE RowTypeOK
  OBVIOUS
<1> USE TTLAssumption, MaxRunAssumption, NobodyAssumption DEF RowInit, Stages
<1>1. rowExists \in BOOLEAN
  OBVIOUS
<1>2. holder \in Workers \cup {Nobody} /\ left \in -MaxRun .. TTL
  OBVIOUS
<1>3. rowPc \in [Workers -> Stages] /\ age \in [Workers -> 0 .. MaxRun]
  OBVIOUS
<1>4. QED BY <1>1, <1>2, <1>3 DEF RowTypeOK

\* One step keeps every variable in its type, for any TTL and MaxRun.
LEMMA RowStepTyped == RowTypeOK /\ [RowNext]_rowVars => RowTypeOK'
<1> SUFFICES ASSUME RowTypeOK, [RowNext]_rowVars PROVE RowTypeOK'
  OBVIOUS
<1> USE TTLAssumption, MaxRunAssumption, NobodyAssumption DEF RowTypeOK, Stages, Goto
<1>1. CASE Tick
  BY <1>1 DEF Tick, Timed
<1>2. ASSUME NEW p \in Workers, Step(p) PROVE RowTypeOK'
  <2>1. CASE Begin(p)
    BY <2>1 DEF Begin
  <2>2. CASE InsertRow(p)
    <3>1. rowExists' \in BOOLEAN
      BY <2>2 DEF InsertRow
    <3>2. holder' \in Workers \cup {Nobody} /\ left' \in -MaxRun .. TTL
      BY <2>2 DEF InsertRow
    <3>3. rowPc' \in [Workers -> Stages] /\ age' \in [Workers -> 0 .. MaxRun]
      BY <2>2 DEF InsertRow
    <3>4. QED BY <3>1, <3>2, <3>3
  <2>3. CASE ReadClock(p)
    BY <2>3 DEF ReadClock
  <2>4. CASE Acquire(p)
    BY <2>4 DEF Acquire
  <2>5. CASE Busy(p)
    BY <2>5 DEF Busy
  <2>6. CASE Release(p)
    BY <2>6 DEF Release
  <2>7. QED BY <1>2, <2>1, <2>2, <2>3, <2>4, <2>5, <2>6 DEF Step
<1>3. ASSUME NEW p \in Workers, DbError(p) \/ RowCrash(p) PROVE RowTypeOK'
  BY <1>3 DEF DbError, RowCrash
<1>4. CASE UNCHANGED rowVars
  BY <1>4 DEF rowVars
<1>5. QED BY <1>1, <1>2, <1>3, <1>4 DEF RowNext

\* Every variable of the lock keeps its type.
THEOREM RowTypeCorrect == RowSpec => []RowTypeOK
<1> QED BY RowInitTyped, RowStepTyped, PTL DEF RowSpec
-----------------------------------------------------------------------------
\* The inductive invariant: a lease exists only in a row that exists, so a
\* late insert cannot wipe the lease of a running job.
RowLeaseInv ==
  /\ RowTypeOK
  /\ holder # Nobody => rowExists
  /\ LeaseHeldWhileRunning

\* The row does not exist, and nobody runs.
LEMMA RowLeaseInit == RowInit => RowLeaseInv
  BY RowInitTyped DEF RowInit, RowLeaseInv, LeaseHeldWhileRunning, RowRunning

\* One step keeps the lease of every running job when jobs end in time.
LEMMA RowLeaseStep ==
  ASSUME MaxRun < TTL
  PROVE  RowLeaseInv /\ [RowNext]_rowVars => RowLeaseInv'
<1> SUFFICES ASSUME RowLeaseInv, [RowNext]_rowVars PROVE RowLeaseInv'
  OBVIOUS
<1> USE MaxRun < TTL, TTLAssumption, MaxRunAssumption, NobodyAssumption
<1>1. RowTypeOK'
  BY RowStepTyped DEF RowLeaseInv
<1>2. (holder # Nobody => rowExists) /\ LeaseHeldWhileRunning
  BY DEF RowLeaseInv
<1>3. (holder # Nobody => rowExists)' /\ LeaseHeldWhileRunning'
  <2> USE <1>2 DEF RowLeaseInv, RowTypeOK, Stages, Goto, LeaseHeldWhileRunning, RowRunning
  <2>1. CASE Tick
    BY <2>1 DEF Tick, Timed
  <2>2. ASSUME NEW p \in Workers, Begin(p) \/ Busy(p) \/ ReadClock(p)
        PROVE  (holder # Nobody => rowExists)' /\ LeaseHeldWhileRunning'
    BY <2>2 DEF Begin, Busy, ReadClock
  <2>3. ASSUME NEW p \in Workers, InsertRow(p)
        PROVE  (holder # Nobody => rowExists)' /\ LeaseHeldWhileRunning'
    BY <2>3 DEF InsertRow
  <2>4. ASSUME NEW p \in Workers, Acquire(p)
        PROVE  (holder # Nobody => rowExists)' /\ LeaseHeldWhileRunning'
    <3>1. rowExists /\ rowExists'
      BY <2>4 DEF Acquire, Acquirable, RowMatches
    <3>2. \A q \in Workers : rowPc[q] # "job"
      BY <2>4 DEF Acquire, Acquirable, RowMatches
    <3>3. QED BY <2>4, <3>1, <3>2 DEF Acquire
  <2>5. ASSUME NEW p \in Workers, Release(p)
        PROVE  (holder # Nobody => rowExists)' /\ LeaseHeldWhileRunning'
    <3>1. \A q \in Workers \ {p} : rowPc[q] # "job"
      BY <2>5 DEF Release
    <3>2. QED BY <2>5, <3>1 DEF Release
  <2>6. ASSUME NEW p \in Workers, DbError(p) \/ RowCrash(p)
        PROVE  (holder # Nobody => rowExists)' /\ LeaseHeldWhileRunning'
    BY <2>6 DEF DbError, RowCrash
  <2>7. CASE UNCHANGED rowVars
    BY <2>7 DEF rowVars
  <2>8. QED BY <2>1, <2>2, <2>3, <2>4, <2>5, <2>6, <2>7 DEF RowNext, Step
<1>4. QED BY <1>1, <1>3 DEF RowLeaseInv

\* A running job holds an unexpired lease, whatever the other processes do:
\* the claim of try_acquire's docstring, under the condition on the job's
\* duration that makes it true.
THEOREM RowLeaseHeld ==
  ASSUME MaxRun < TTL
  PROVE  RowSpec => []LeaseHeldWhileRunning
<1>1. RowLeaseInv => LeaseHeldWhileRunning
  BY DEF RowLeaseInv
<1>2. QED BY RowLeaseInit, RowLeaseStep, <1>1, PTL DEF RowSpec

\* The row implements the abstract mutex: no two processes are ever inside
\* the job, and each step of the lock is an Enter, a Leave or a stutter.
THEOREM RowLockIsMutex ==
  ASSUME MaxRun < TTL
  PROVE  RowSpec => RowMutexSpec
<1>1. RowInit => RowMutex!Init
  BY DEF RowInit, RowMutex!Init, RowRunning
<1>2. RowLeaseInv /\ [RowNext]_rowVars => [RowMutex!Next]_RowRunning
  <2> SUFFICES ASSUME RowLeaseInv, [RowNext]_rowVars PROVE [RowMutex!Next]_RowRunning
    OBVIOUS
  <2> USE MaxRun < TTL, TTLAssumption, MaxRunAssumption, NobodyAssumption
      DEF RowLeaseInv, RowTypeOK, Stages, Goto, RowRunning
  <2>1. ASSUME NEW p \in Workers, Acquire(p) PROVE RowMutex!Next
    <3>1. RowRunning = {}
      BY <2>1 DEF Acquire, Acquirable, RowMatches, LeaseHeldWhileRunning
    <3>2. RowRunning' = {p}
      BY <2>1, <3>1 DEF Acquire
    <3>3. QED BY <3>1, <3>2 DEF RowMutex!Next, RowMutex!Enter
  <2>2. ASSUME NEW p \in Workers, Release(p) PROVE RowMutex!Next
    <3>1. p \in RowRunning /\ RowRunning' = RowRunning \ {p}
      BY <2>2 DEF Release
    <3>2. QED BY <3>1 DEF RowMutex!Next, RowMutex!Leave
  <2>3. ASSUME NEW p \in Workers, DbError(p) \/ RowCrash(p) PROVE [RowMutex!Next]_RowRunning
    <3>1. CASE rowPc[p] = "job"
      <4>1. p \in RowRunning /\ RowRunning' = RowRunning \ {p}
        BY <2>3, <3>1 DEF DbError, RowCrash
      <4>2. QED BY <4>1 DEF RowMutex!Next, RowMutex!Leave
    <3>2. CASE rowPc[p] # "job"
      BY <2>3, <3>2 DEF DbError, RowCrash
    <3>3. QED BY <3>1, <3>2
  <2>4. ASSUME NEW p \in Workers, Begin(p) \/ InsertRow(p) \/ ReadClock(p) \/ Busy(p)
        PROVE  RowRunning' = RowRunning
    BY <2>4 DEF Begin, InsertRow, ReadClock, Busy
  <2>5. CASE Tick
    BY <2>5 DEF Tick
  <2>6. CASE UNCHANGED rowVars
    BY <2>6 DEF rowVars
  <2>7. QED BY <2>1, <2>2, <2>3, <2>4, <2>5, <2>6 DEF RowNext, Step
<1>3. QED BY <1>1, <1>2, RowLeaseInit, RowLeaseStep, PTL DEF RowSpec, RowMutexSpec, RowMutex!Spec
=============================================================================
