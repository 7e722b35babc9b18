---------------------------- MODULE AccountLinks ----------------------------
(***************************************************************************)
(* The links mailed to a reader: one kind confirms the address, the other  *)
(* resets the password.  Asking for a link makes the older ones void, and  *)
(* a link works once.  Every request is a thread of the server with        *)
(* several commits, and other threads run between them.                    *)
(***************************************************************************)
EXTENDS Naturals, FiniteSets

CONSTANTS
  Accounts,    \* rows of app_users, present or to be registered
  Links,       \* bound: rows of the two token tables
  Threads,     \* bound: requests served at the same time
  None

ASSUME NoneAssumption == None \notin Accounts \cup Links

LinkKinds == {"verify", "reset"}

VARIABLES
  standing,    \* "absent", "pending", "verified" or "deleted"
  link,        \* [status, account, kind] of a row; "live" while used_at is null
  expired,     \* links whose expires_at has passed
  mailed,      \* links that reached the reader
  job,         \* what a thread is doing
  \* history
  newest,      \* the last link issued, by account and kind
  spent,       \* links that have done their work
  respent,     \* links that have done it again
  crossed,     \* accounts and kinds for which two requests overlapped
  contended    \* links that were being used when something else used or voided them

linkVars == <<standing, link, expired, mailed, job, newest, spent, respent, crossed, contended>>

Status == {"none", "live", "used", "gone"}
Row == [status : Status, account : Accounts \cup {None}, kind : LinkKinds]
NoJob == [step |-> "idle"]
Issuing == [step : {"asked", "read", "cleared"}, account : Accounts, kind : LinkKinds,
            old : SUBSET Links]
Using == [step : {"use"}, link : Links]

IssuingFor(t, a, k) ==
  job[t].step \in {"asked", "read", "cleared"} /\ job[t].account = a /\ job[t].kind = k
UsedBy(t, l) == job[t].step = "use" /\ job[t].link = l
Of(l, a, k) == link[l].account = a /\ link[l].kind = k
Live(a, k) == {l \in Links : link[l].status = "live" /\ Of(l, a, k)}
Become(t, state) == job' = [job EXCEPT ![t] = state]
-----------------------------------------------------------------------------
LinksInit ==
  /\ standing \in [Accounts -> {"absent", "verified"}]
  /\ link = [l \in Links |-> [status |-> "none", account |-> None, kind |-> "verify"]]
  /\ expired = {} /\ mailed = {}
  /\ job = [t \in Threads |-> NoJob]
  /\ newest = [a \in Accounts |-> [k \in LinkKinds |-> None]]
  /\ spent = {} /\ respent = {} /\ crossed = {} /\ contended = {}

\* A thread begins to issue a link of kind k.
Begin(t, a, k) ==
  /\ Become(t, [step |-> "asked", account |-> a, kind |-> k, old |-> {}])
  /\ crossed' = IF \E u \in Threads : IssuingFor(u, a, k) THEN crossed \cup {<<a, k>>} ELSE crossed

\* register: a new account, or a new link for one that is not confirmed yet.
Register(t, a) ==
  /\ job[t] = NoJob /\ standing[a] \in {"absent", "pending"}
  /\ standing' = [standing EXCEPT ![a] = "pending"]
  /\ Begin(t, a, "verify")
  /\ UNCHANGED <<link, expired, mailed, newest, spent, respent, contended>>

\* resend_verification_email and request_password_reset.
Ask(t, a, k) ==
  /\ job[t] = NoJob
  /\ standing[a] \in IF k = "verify" THEN {"pending"} ELSE {"pending", "verified"}
  /\ Begin(t, a, k)
  /\ UNCHANGED <<standing, link, expired, mailed, newest, spent, respent, contended>>

\* _invalidate_active_tokens: the rows without used_at ...
Read(t) ==
  /\ job[t].step = "asked"
  /\ Become(t, [job[t] EXCEPT !.step = "read", !.old = Live(job[t].account, job[t].kind)])
  /\ UNCHANGED <<standing, link, expired, mailed, newest, spent, respent, crossed, contended>>

\* Mutant: the rows stay as they are.
Clear_Nothing(t) ==
  /\ job[t].step = "read"
  /\ Become(t, [job[t] EXCEPT !.step = "cleared"])
  /\ UNCHANGED <<standing, link, expired, mailed, newest, spent, respent, crossed, contended>>

\* ... get one, in a commit of its own; it fails when a row is gone.
Clear(t) ==
  /\ job[t].step = "read"
  /\ LET old == job[t].old IN
     IF \E l \in old : link[l].status = "gone" THEN Become(t, NoJob) /\ UNCHANGED <<link, contended>>
     ELSE /\ Become(t, [job[t] EXCEPT !.step = "cleared"])
          /\ link' = [l \in Links |-> IF l \in old THEN [link[l] EXCEPT !.status = "used"]
                                      ELSE link[l]]
          /\ contended' = contended \cup {l \in old : \E u \in Threads : UsedBy(u, l)}
  /\ UNCHANGED <<standing, expired, mailed, newest, spent, respent, crossed>>

\* The new row, and the mail, which may fail; the row too when the account is gone.
IssueLink(t) ==
  /\ job[t].step = "cleared" /\ Become(t, NoJob)
  /\ LET a == job[t].account
         k == job[t].kind IN
     IF standing[a] = "deleted" THEN UNCHANGED <<link, newest, mailed>>
     ELSE \E l \in Links, sent \in BOOLEAN :
            /\ link[l].status = "none"
            /\ link' = [link EXCEPT ![l] = [status |-> "live", account |-> a, kind |-> k]]
            /\ newest' = [newest EXCEPT ![a][k] = l]
            /\ mailed' = IF sent THEN mailed \cup {l} ELSE mailed
  /\ UNCHANGED <<standing, expired, spent, respent, crossed, contended>>

\* Mutant: the row is not looked at.
Use_Unchecked(t, l) ==
  /\ job[t] = NoJob /\ l \in mailed
  /\ link[l].status \in {"live", "used"} /\ l \notin expired
  /\ Become(t, [step |-> "use", link |-> l])
  /\ contended' = IF \E u \in Threads : UsedBy(u, l) THEN contended \cup {l} ELSE contended
  /\ UNCHANGED <<standing, link, expired, mailed, newest, spent, respent, crossed>>

\* reset_password_with_token and verify_email_with_token: the checks ...
Use(t, l) ==
  /\ job[t] = NoJob /\ l \in mailed
  /\ link[l].status = "live" /\ l \notin expired
  /\ Become(t, [step |-> "use", link |-> l])
  /\ contended' = IF \E u \in Threads : UsedBy(u, l) THEN contended \cup {l} ELSE contended
  /\ UNCHANGED <<standing, link, expired, mailed, newest, spent, respent, crossed>>

\* Mutant: used_at is not set.
Commit_Unmarked(t) ==
  /\ job[t].step = "use" /\ Become(t, NoJob)
  /\ LET l == job[t].link
         a == link[l].account IN
     IF link[l].status = "gone" THEN UNCHANGED <<standing, link, spent, respent>>
     ELSE /\ standing' = IF link[l].kind = "verify" THEN [standing EXCEPT ![a] = "verified"]
                        ELSE standing
          /\ spent' = spent \cup {l}
          /\ respent' = IF l \in spent THEN respent \cup {l} ELSE respent
          /\ UNCHANGED link
  /\ UNCHANGED <<expired, mailed, newest, crossed, contended>>

\* ... and the commit, which sets used_at whatever it has become meanwhile.
Commit(t) ==
  /\ job[t].step = "use" /\ Become(t, NoJob)
  /\ LET l == job[t].link
         a == link[l].account IN
     IF link[l].status = "gone" THEN UNCHANGED <<standing, link, spent, respent>>
     ELSE /\ link' = [link EXCEPT ![l].status = "used"]
          /\ standing' = IF link[l].kind = "verify" THEN [standing EXCEPT ![a] = "verified"]
                        ELSE standing
          /\ spent' = spent \cup {l}
          /\ respent' = IF l \in spent THEN respent \cup {l} ELSE respent
  /\ UNCHANGED <<expired, mailed, newest, crossed, contended>>

\* delete_user takes the rows of the account with it.
DeleteUser(a) ==
  /\ standing[a] = "verified" /\ standing' = [standing EXCEPT ![a] = "deleted"]
  /\ link' = [l \in Links |-> IF link[l].account = a THEN [link[l] EXCEPT !.status = "gone"]
                              ELSE link[l]]
  /\ UNCHANGED <<expired, mailed, job, newest, spent, respent, crossed, contended>>

Expire(l) ==
  /\ link[l].status = "live" /\ l \notin expired /\ expired' = expired \cup {l}
  /\ UNCHANGED <<standing, link, mailed, job, newest, spent, respent, crossed, contended>>

\* The server dies; what is committed stays.
Crash(t) ==
  /\ job[t] # NoJob /\ Become(t, NoJob)
  /\ UNCHANGED <<standing, link, expired, mailed, newest, spent, respent, crossed, contended>>
-----------------------------------------------------------------------------
LinksNext ==
  \/ \E t \in Threads, a \in Accounts : Register(t, a) \/ \E k \in LinkKinds : Ask(t, a, k)
  \/ \E t \in Threads : Read(t) \/ Clear(t) \/ IssueLink(t) \/ Commit(t) \/ Crash(t)
  \/ \E t \in Threads, l \in Links : Use(t, l)
  \/ \E a \in Accounts : DeleteUser(a)
  \/ \E l \in Links : Expire(l)

LinksSpec == LinksInit /\ [][LinksNext]_linkVars
-----------------------------------------------------------------------------
\* Types; a row that was issued names an account, and threads handle issued rows only.
LinksTypeOK ==
  /\ standing \in [Accounts -> {"absent", "pending", "verified", "deleted"}]
  /\ link \in [Links -> Row]
  /\ \A l \in Links : link[l].status # "none" => link[l].account \in Accounts
  /\ expired \subseteq Links /\ mailed \subseteq Links
  /\ job \in [Threads -> {NoJob} \cup Issuing \cup Using]
  /\ \A t \in Threads : job[t] \in Issuing => \A l \in job[t].old : link[l].status # "none"
  /\ \A t \in Threads : job[t] \in Using => link[job[t].link].status # "none"
  /\ newest \in [Accounts -> [LinkKinds -> Links \cup {None}]]
  /\ spent \subseteq Links /\ respent \subseteq Links
  /\ crossed \subseteq Accounts \X LinkKinds /\ contended \subseteq Links

\* An account has one working link of each kind at most, whatever is resent, crashes or
\* expires, unless two requests for it overlapped: between the commit that voids the old
\* links and the one that adds the new, each misses the other's.
OneLiveLink ==
  \A a \in Accounts, k \in LinkKinds :
    <<a, k>> \notin crossed => \A l, m \in Live(a, k) : l = m

\* A link does its work once, unless a second use of it, or the voiding of old links, came
\* between the check of the first use and its commit.
LinkUsedOnce == respent \subseteq contended

\* Only the newest link sets a password or confirms an address, unless the request for the
\* newer one came while the older was being used, or two such requests overlapped.
NewestLinkWorks ==
  [][\A t \in Threads :
       (job[t].step = "use" /\ Commit(t) /\ link[job[t].link].status # "gone") =>
         LET l == job[t].link IN
         \/ newest[link[l].account][link[l].kind] = l
         \/ l \in contended \/ <<link[l].account, link[l].kind>> \in crossed]_linkVars
=============================================================================
