------------------------------ MODULE Sessions ------------------------------
(***************************************************************************)
(* Sessions of one account.  Signing in issues a pair of tokens: an access *)
(* token that expires soon, and a refresh token that is exchanged for the  *)
(* next pair.  The pages of a browser each keep their pair in memory and   *)
(* share a copy in localStorage; several calls of a page may notice the    *)
(* expired access token at the same time.                                  *)
(*                                                                         *)
(* A pair is named by a number; on the server its refresh token is a row.  *)
(***************************************************************************)
EXTENDS Naturals, FiniteSets

CONSTANTS
  Tabs,
  Calls,       \* slots for the calls of the pages
  TabOf(_),    \* the page of a slot
  MaxPairs,    \* bound: pairs issued
  MaxMoves     \* bound: page loads, sign-ins, sign-outs, deletions, expired refresh tokens
               \* and failures, together

ASSUME BoundsAssumption == MaxPairs \in Nat /\ MaxMoves \in Nat
ASSUME SlotsAssumption == \A c \in Calls : TabOf(c) \in Tabs

VARIABLES
  row,       \* app_refresh_tokens
  fresh,     \* pairs whose access token has not expired
  account,   \* the account exists
  stored,    \* the pair in localStorage, 0: none
  held,      \* tokensRef of each page
  shown,     \* the page shows a user
  call,      \* the calls under way
  moves,
  \* history
  rotated,   \* how often each refresh token was exchanged
  raced,     \* refresh tokens that two requests found active together
  sent,      \* how many requests, also to sign out, have presented each refresh token
  replaced,  \* pairs that a page has itself replaced by their successor
  rewritten, \* pairs a page load has put back into localStorage after they were replaced
  quiet      \* the only page that was signed in has signed out, undisturbed

server == <<row, fresh, account, rotated, raced>>
client == <<stored, held, shown, replaced, rewritten>>
vars == <<server, client, call, moves, sent, quiet>>

Pairs == 1 .. MaxPairs
Kinds == {"api", "delete", "login", "logout", "load"}
Serving == {"refresh", "checked", "revoked"}
Stages == Serving \cup {"run", "deleted", "issued", "me", "known", "again", "ending", "ended"}
\* old: the refresh token that the call has presented; live: its page waits for it.
Idle == [kind |-> "none", stage |-> "idle", pair |-> 0, old |-> 0, live |-> TRUE]
NewCall(kind, stage, pair) ==
  [kind |-> kind, stage |-> stage, pair |-> pair, old |-> 0, live |-> TRUE]

CallType == {Idle} \cup
  [kind : Kinds, stage : Stages, pair : 0 .. MaxPairs, old : 0 .. MaxPairs, live : BOOLEAN]

ServerOK ==
  /\ row \in [Pairs -> {"none", "active", "revoked", "expired", "deleted"}]
  /\ fresh \subseteq Pairs
  /\ account \in BOOLEAN
  /\ rotated \in [Pairs -> Nat]
  /\ raced \subseteq Pairs

ClientOK ==
  /\ stored \in 0 .. MaxPairs
  /\ held \in [Tabs -> 0 .. MaxPairs]
  /\ shown \in [Tabs -> BOOLEAN]
  /\ replaced \in [Tabs -> SUBSET Pairs]
  /\ rewritten \subseteq Pairs

TypeOK ==
  /\ ServerOK
  /\ ClientOK
  /\ call \in [Calls -> CallType]
  /\ moves \in 0 .. MaxMoves
  /\ sent \in [Pairs -> Nat]
  /\ quiet \in BOOLEAN

Init ==
  /\ row = [p \in Pairs |-> "none"]
  /\ fresh = {}
  /\ account = TRUE
  /\ stored = 0
  /\ held = [t \in Tabs |-> 0]
  /\ shown = [t \in Tabs |-> FALSE]
  /\ call = [c \in Calls |-> Idle]
  /\ moves = 0
  /\ rotated = [p \in Pairs |-> 0]
  /\ sent = [p \in Pairs |-> 0]
  /\ raced = {}
  /\ replaced = [t \in Tabs |-> {}]
  /\ rewritten = {}
  /\ quiet = FALSE
-----------------------------------------------------------------------------
Move == moves < MaxMoves /\ moves' = moves + 1
At(c, stage) == call[c].stage = stage
OfKind(c, kinds) == call[c].kind \in kinds
SetCall(c, r) == call' = [call EXCEPT ![c] = r]
To(c, stage) == SetCall(c, [call[c] EXCEPT !.stage = stage])
Tab(c) == TabOf(c)
CallsOf(t) == {c \in Calls : TabOf(c) = t}
Loading(t) == \E c \in CallsOf(t) : OfKind(c, {"load"}) /\ call[c].live

\* Bound: a pair is left for every call that is about to get one.
Wanting == {c \in Calls : \/ call[c].stage \in Serving
                          \/ At(c, "run") /\ OfKind(c, {"login"})}
MayIssue == Cardinality({p \in Pairs : row[p] # "none"}) + Cardinality(Wanting) < MaxPairs

\* applyPairState(pair, user): the page and localStorage.
Apply(t, p) ==
  /\ held' = [held EXCEPT ![t] = p]
  /\ stored' = p

\* applyPairState(null, null), the end of a call that could not be helped.
SignOut(c) ==
  /\ Apply(Tab(c), 0)
  /\ shown' = [shown EXCEPT ![Tab(c)] = FALSE]
  /\ SetCall(c, Idle)
  /\ UNCHANGED <<replaced, rewritten>>

\* get_current_user with the access token of the call.
Authorised(c) == account /\ call[c].pair \in fresh

\* store_refresh_token and issue_access_token.
NextPair(p) == row[p] = "none" /\ \A q \in 1 .. p - 1 : row[q] # "none"
Issued(p) ==
  /\ row' = [row EXCEPT ![p] = "active"]
  /\ fresh' = fresh \cup {p}
-----------------------------------------------------------------------------
\* A page is loaded: its calls are dropped, what the server does for them goes
\* on, and the stored pair is tried.
LoadPage(c) ==
  /\ Move
  /\ call[c].stage \notin Serving
  /\ held' = [held EXCEPT ![Tab(c)] = stored]
  /\ shown' = [shown EXCEPT ![Tab(c)] = FALSE]
  /\ call' = [x \in Calls |->
       IF x = c /\ stored # 0 THEN NewCall("load", "me", stored)
       ELSE IF TabOf(x) # Tab(c) THEN call[x]
       ELSE IF call[x].stage \in Serving THEN [call[x] EXCEPT !.live = FALSE]
       ELSE Idle]
  /\ UNCHANGED <<server, stored, replaced, rewritten, sent, quiet>>

\* A request that returns a pair, for establishSession to keep.
SignIn(c) ==
  /\ At(c, "idle")
  /\ account
  /\ MayIssue
  /\ Move
  /\ SetCall(c, NewCall("login", "run", 0))
  /\ quiet' = FALSE
  /\ UNCHANGED <<server, client, sent>>

\* The form of AccountPage is there for a page that is loaded and signed out.
Login(c) == ~shown[Tab(c)] /\ ~Loading(Tab(c)) /\ SignIn(c)

\* VerifyEmailPage sends its link at once: while the stored pair is still being
\* tried, or with a session already there.
VerifyEmail(c) == SignIn(c)

ServeLogin(c) ==
  /\ OfKind(c, {"login"}) /\ At(c, "run")
  /\ account
  /\ \E p \in Pairs : /\ NextPair(p)
                      /\ Issued(p)
                      /\ SetCall(c, [call[c] EXCEPT !.pair = p, !.stage = "me"])
  /\ UNCHANGED <<account, rotated, raced, client, moves, sent, quiet>>

\* runWithTokenRetry: a call with the access token of the page.
StartApi(c, kind) ==
  /\ At(c, "idle")
  /\ kind \in {"api", "delete"}
  /\ shown[Tab(c)] /\ ~Loading(Tab(c))
  /\ held[Tab(c)] # 0
  /\ IF kind = "delete" THEN Move ELSE UNCHANGED moves
  /\ SetCall(c, NewCall(kind, "run", held[Tab(c)]))
  /\ UNCHANGED <<server, client, sent, quiet>>

\* The call is served; delete_user takes the account and its tokens away.
Served(c) ==
  /\ OfKind(c, {"api", "delete"}) /\ call[c].stage \in {"run", "again"}
  /\ Authorised(c)
  /\ IF OfKind(c, {"delete"})
     THEN /\ account' = FALSE
          /\ row' = [p \in Pairs |-> IF row[p] = "none" THEN "none" ELSE "deleted"]
          /\ To(c, "deleted")
     ELSE SetCall(c, Idle) /\ UNCHANGED <<account, row>>
  /\ UNCHANGED <<fresh, rotated, raced, client, moves, sent, quiet>>

\* deleteAccount goes on: the page forgets the session.
Deleted(c) ==
  /\ At(c, "deleted")
  /\ SignOut(c)
  /\ UNCHANGED <<server, moves, sent, quiet>>

Present(c, p) ==
  /\ SetCall(c, [call[c] EXCEPT !.stage = "refresh", !.pair = p, !.old = p])
  /\ sent' = [sent EXCEPT ![p] = @ + 1]

\* 401: rotatePairWithRefresh presents the refresh token the page has now.
Expired(c) ==
  /\ OfKind(c, {"api", "delete"}) /\ At(c, "run")
  /\ ~Authorised(c)
  /\ \/ /\ held[Tab(c)] # 0
        /\ MayIssue
        /\ Present(c, held[Tab(c)])
        /\ UNCHANGED client
     \/ /\ held[Tab(c)] = 0
        /\ SignOut(c)
        /\ UNCHANGED sent
  /\ UNCHANGED <<server, moves, quiet>>

\* POST /auth/refresh finds the row ...
Check(c) ==
  /\ At(c, "refresh")
  /\ account /\ row[call[c].pair] = "active"
  /\ raced' = IF \E x \in Calls \ {c} : At(x, "checked") /\ call[x].pair = call[c].pair
              THEN raced \cup {call[c].pair} ELSE raced
  /\ To(c, "checked")
  /\ UNCHANGED <<row, fresh, account, rotated, client, moves, sent, quiet>>

\* Mutant: the row is left as it is.
Revoke_Forgotten(c) ==
  /\ At(c, "checked")
  /\ account
  /\ To(c, "revoked")
  /\ UNCHANGED <<server, client, moves, sent, quiet>>

\* Mutant: every session of the account is revoked.
Revoke_AllSessions(c) ==
  /\ At(c, "checked")
  /\ account
  /\ row' = [p \in Pairs |-> IF row[p] = "active" THEN "revoked" ELSE row[p]]
  /\ To(c, "revoked")
  /\ UNCHANGED <<fresh, account, rotated, raced, client, moves, sent, quiet>>

\* ... revokes it, whatever has happened to it since ...
Revoke(c) ==
  /\ At(c, "checked")
  /\ account
  /\ row' = [row EXCEPT ![call[c].pair] = "revoked"]
  /\ To(c, "revoked")
  /\ UNCHANGED <<fresh, account, rotated, raced, client, moves, sent, quiet>>

\* ... and issues the next pair in a transaction of its own.
Issue(c) ==
  /\ At(c, "revoked")
  /\ account
  /\ \E p \in Pairs :
       /\ NextPair(p)
       /\ Issued(p)
       /\ SetCall(c, IF call[c].live THEN [call[c] EXCEPT !.pair = p, !.stage = "issued"]
                     ELSE Idle)
  /\ rotated' = [rotated EXCEPT ![call[c].old] = @ + 1]
  /\ UNCHANGED <<account, raced, client, moves, sent, quiet>>

\* The refresh is refused: 401, or an error when the account has just gone.
Deny(c) ==
  /\ \/ At(c, "refresh") /\ (~account \/ row[call[c].pair] # "active")
     \/ call[c].stage \in {"checked", "revoked"} /\ ~account
  /\ IF call[c].live THEN SignOut(c) ELSE SetCall(c, Idle) /\ UNCHANGED client
  /\ UNCHANGED <<server, moves, sent, quiet>>

\* Mutant: the new pair stays in memory.
Rotated_NotStored(c) ==
  /\ At(c, "issued")
  /\ IF OfKind(c, {"load"}) THEN UNCHANGED <<stored, held, replaced>>
     ELSE /\ held' = [held EXCEPT ![Tab(c)] = call[c].pair]
          /\ replaced' = [replaced EXCEPT ![Tab(c)] = @ \cup {call[c].old}]
          /\ UNCHANGED stored
  /\ To(c, "me")
  /\ UNCHANGED <<server, shown, rewritten, moves, sent, quiet>>

\* The answer of the refresh.  A call keeps the new pair at once; a page load
\* keeps it only once the user is known.
Rotated(c) ==
  /\ At(c, "issued")
  /\ IF OfKind(c, {"load"}) THEN UNCHANGED <<stored, held, replaced>>
     ELSE /\ Apply(Tab(c), call[c].pair)
          /\ replaced' = [replaced EXCEPT ![Tab(c)] = @ \cup {call[c].old}]
  /\ To(c, "me")
  /\ UNCHANGED <<server, shown, rewritten, moves, sent, quiet>>

\* GET /auth/me answers, or it answers 401: a page load then tries the refresh
\* token once, a sign-in fails without a trace, and a call signs out.
Me(c) ==
  /\ At(c, "me")
  /\ Authorised(c)
  /\ To(c, "known")
  /\ UNCHANGED <<server, client, moves, sent, quiet>>

MeExpired(c) ==
  /\ At(c, "me")
  /\ ~Authorised(c)
  /\ \/ /\ OfKind(c, {"load"}) /\ call[c].old = 0
        /\ MayIssue
        /\ Present(c, call[c].pair)
        /\ UNCHANGED client
     \/ /\ OfKind(c, {"login"})
        /\ SetCall(c, Idle)
        /\ UNCHANGED <<client, sent>>
     \/ /\ OfKind(c, {"api", "delete"}) \/ call[c].old # 0
        /\ SignOut(c)
        /\ UNCHANGED sent
  /\ UNCHANGED <<server, moves, quiet>>

\* The user is known: a sign-in or a page load keeps its pair, which another
\* page may have replaced since the load read it; a call runs again.
Known(c) ==
  /\ At(c, "known")
  /\ shown' = [shown EXCEPT ![Tab(c)] = TRUE]
  /\ IF OfKind(c, {"login", "load"})
     THEN /\ Apply(Tab(c), call[c].pair)
          /\ rewritten' = IF stored # call[c].pair /\ row[call[c].pair] # "active"
                          THEN rewritten \cup {call[c].pair} ELSE rewritten
          /\ replaced' = [replaced EXCEPT ![Tab(c)] = @ \cup ({call[c].old} \ {0})]
          /\ SetCall(c, Idle)
     ELSE To(c, "again") /\ UNCHANGED <<stored, held, replaced, rewritten>>
  /\ UNCHANGED <<server, moves, sent, quiet>>

\* The access token has expired again when the call is repeated.
ExpiredAgain(c) ==
  /\ At(c, "again")
  /\ ~Authorised(c)
  /\ SignOut(c)
  /\ UNCHANGED <<server, moves, sent, quiet>>

\* logout: the refresh token of the page is revoked on the server ...
Logout(c) ==
  /\ At(c, "idle")
  /\ shown[Tab(c)] /\ ~Loading(Tab(c))
  /\ Move
  /\ SetCall(c, NewCall("logout", IF held[Tab(c)] = 0 THEN "ended" ELSE "ending", held[Tab(c)]))
  /\ sent' = [p \in Pairs |-> IF p = held[Tab(c)] THEN sent[p] + 1 ELSE sent[p]]
  /\ UNCHANGED <<server, client, quiet>>

\* Mutant: the server forgets nothing.
ServeLogout_Ignored(c) ==
  /\ At(c, "ending")
  /\ row' = row
  /\ To(c, "ended")
  /\ UNCHANGED <<fresh, account, rotated, raced, client, moves, sent, quiet>>

ServeLogout(c) ==
  /\ At(c, "ending")
  /\ row' = [row EXCEPT ![call[c].pair] = IF @ = "active" THEN "revoked" ELSE @]
  /\ To(c, "ended")
  /\ UNCHANGED <<fresh, account, rotated, raced, client, moves, sent, quiet>>

\* ... and then the page forgets it, with whatever it holds by now.
EndLogout(c) ==
  /\ At(c, "ended")
  /\ SignOut(c)
  /\ quiet' = /\ \A x \in Calls \ {c} : At(x, "idle")
              /\ \A t \in Tabs \ {Tab(c)} : held[t] = 0
              /\ call[c].pair # 0 /\ call[c].pair = held[Tab(c)] /\ stored = call[c].pair
              /\ \A p \in Pairs : row[p] = "active" => p = held[Tab(c)]
  /\ UNCHANGED <<server, moves, sent>>

\* The request of a call fails, before or after the server has done its part,
\* or, for a call that is repeated, the server refuses what it asks for.  Only
\* the first attempt of a call and a sign-in leave the session alone; the
\* sign-out ends it anyway.
Fail(c) ==
  /\ ~At(c, "idle") /\ call[c].live
  /\ ~At(c, "checked") /\ ~At(c, "revoked")
  /\ ~At(c, "known") /\ ~At(c, "ended") /\ ~At(c, "deleted")
  /\ Move
  /\ \/ /\ OfKind(c, {"login"}) \/ (OfKind(c, {"api", "delete"}) /\ At(c, "run"))
        /\ SetCall(c, Idle)
        /\ UNCHANGED <<client, sent>>
     \/ /\ OfKind(c, {"api", "delete"}) /\ ~At(c, "run")
        /\ SignOut(c)
        /\ UNCHANGED sent
     \/ /\ OfKind(c, {"load"}) /\ At(c, "me") /\ call[c].old = 0
        /\ MayIssue
        /\ Present(c, call[c].pair)
        /\ UNCHANGED client
     \/ /\ OfKind(c, {"load"}) /\ (~At(c, "me") \/ call[c].old # 0)
        /\ SignOut(c)
        /\ UNCHANGED sent
     \/ /\ OfKind(c, {"logout"})
        /\ SetCall(c, [call[c] EXCEPT !.stage = "ended", !.pair = 0])
        /\ UNCHANGED <<client, sent>>
  /\ UNCHANGED <<server, quiet>>

ExpireAccess(p) ==
  /\ p \in fresh
  /\ fresh' = fresh \ {p}
  /\ UNCHANGED <<row, account, rotated, raced, client, call, moves, sent, quiet>>

ExpireRefresh(p) ==
  /\ row[p] = "active" /\ p \notin fresh
  /\ Move
  /\ row' = [row EXCEPT ![p] = "expired"]
  /\ UNCHANGED <<fresh, account, rotated, raced, client, call, sent, quiet>>

Step(c) ==
  \/ LoadPage(c) \/ Login(c) \/ VerifyEmail(c) \/ ServeLogin(c)
  \/ StartApi(c, "api") \/ StartApi(c, "delete")
  \/ Served(c) \/ Deleted(c) \/ Expired(c)
  \/ Check(c) \/ Revoke(c) \/ Issue(c) \/ Deny(c) \/ Rotated(c)
  \/ Me(c) \/ MeExpired(c) \/ Known(c) \/ ExpiredAgain(c)
  \/ Logout(c) \/ ServeLogout(c) \/ EndLogout(c)
  \/ Fail(c)

Next ==
  \/ \E c \in Calls : Step(c)
  \/ \E p \in Pairs : ExpireAccess(p) \/ ExpireRefresh(p)

Spec == Init /\ [][Next]_vars
-----------------------------------------------------------------------------
\* auth.py, refresh: a refresh token is exchanged once, whichever pages and
\* calls present it; only requests that find it active before the first of
\* them has revoked it may exchange it again.
RotatedOnce == \A p \in Pairs : rotated[p] <= 1 \/ p \in raced

\* AuthContext.tsx: a page never presents a refresh token that it has itself
\* replaced, also not after it was loaded anew; except one that a page load put
\* back into localStorage over the pair of another page.
PresentsNewest ==
  [][\A c \in Calls :
       sent' # sent /\ call'[c] # call[c] =>
         call'[c].old \notin replaced[Tab(c)] \ rewritten]_vars

\* The browser loses its session only because somebody asked for it, because of
\* a failure or an expired token, or in a call whose refresh token another
\* call has presented, or revoked by signing out; not when access tokens
\* expire and calls follow one another.
LossIsExplained ==
  [][stored # 0 /\ stored' = 0 =>
       \E c \in Calls :
         /\ call'[c] # call[c]
         /\ \/ call[c].stage \in {"deleted", "ended"}
            \/ ~account \/ moves' # moves
            \/ call[c].stage = "refresh" /\ row[call[c].pair] = "expired"
            \/ call[c].stage \in {"me", "again"} /\ call[c].pair \notin fresh
            \/ call[c].stage = "run" /\ held[Tab(c)] = 0
            \/ call[c].stage = "refresh" /\ sent[call[c].pair] > 1]_vars

\* After a sign-out that no other call and no other page disturbed, the browser
\* has no pair and the server no live refresh token, until somebody signs in.
SignedOut ==
  quiet => /\ stored = 0
           /\ \A t \in Tabs : held[t] = 0
           /\ \A p \in Pairs : row[p] # "active"
=============================================================================
