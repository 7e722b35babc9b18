---------------------------- MODULE AccountsProofs ----------------------------
(***************************************************************************)
(* Sessions, for any number of pages, calls and tokens: a refresh token is *)
(* exchanged once unless two requests race for it, an undisturbed sign-out *)
(* is final, no page presents a token that it has replaced itself, and a   *)
(* browser loses its session only for a reason.                            *)
(*                                                                         *)
(* AccountLinks, for any number of accounts, links and threads: one link   *)
(* of each kind works, it works once, and it is the newest one.            *)
(***************************************************************************)
EXTENDS Sessions, AccountLinks, TLAPS

-----------------------------------------------------------------------------
(* Sessions.                                                               *)

\* What a page or a call has was issued, and a call at the server works on the
\* refresh token it has presented.
Issuance ==
  /\ \A t \in Tabs : held[t] # 0 => row[held[t]] # "none"
  /\ stored # 0 => row[stored] # "none"
  /\ \A c \in Calls :
       /\ call[c].pair # 0 => row[call[c].pair] # "none"
       /\ call[c].old # 0 => row[call[c].old] # "none"
       /\ call[c].stage \in Serving => call[c].old = call[c].pair /\ call[c].old # 0
       /\ call[c].stage = "issued" => call[c].pair # call[c].old /\ call[c].old # 0
       /\ call[c].stage \in {"issued", "me", "known", "again", "ending"} => call[c].pair # 0
       /\ call[c].stage \in {"ending", "ended"} => call[c].kind = "logout"

\* A request that has found p active and has not answered yet.
Exchanging(c, p) == call[c].stage \in {"checked", "revoked"} /\ call[c].old = p
Spent(p) == \E c \in Calls : call[c].stage = "revoked" /\ call[c].old = p

\* A token that was not raced is exchanged by one request, which leaves it
\* revoked.
Exchange ==
  \A p \in Pairs \ raced :
    /\ rotated[p] = 0 \/ (rotated[p] = 1 /\ \A c \in Calls : ~Exchanging(c, p))
    /\ \A c, d \in Calls : Exchanging(c, p) /\ Exchanging(d, p) => c = d
    /\ rotated[p] = 1 \/ Spent(p) => row[p] \notin {"none", "active"}

\* A sign-out that is about to end has revoked its token; after one that
\* nothing disturbed, nobody does anything but sign out again.
AfterSignOut ==
  /\ \A c \in Calls : call[c].stage = "ended" /\ call[c].pair # 0 => row[call[c].pair] # "active"
  /\ quiet => /\ SignedOut
              /\ \A c \in Calls : \/ call[c].stage = "idle"
                                  \/ call[c].stage = "ended" /\ call[c].pair = 0
IInv == TypeOK /\ Issuance /\ Exchange /\ AfterSignOut
-----------------------------------------------------------------------------
\* What a call carries.
LEMMA CallFields ==
  ASSUME TypeOK, NEW c \in Calls
  PROVE  /\ call[c].pair \in 0 .. MaxPairs
         /\ call[c].old \in 0 .. MaxPairs
         /\ call[c].live \in BOOLEAN
         /\ call[c].stage \in Stages \cup {"idle"}
         /\ call[c].stage # "idle" => call[c].kind \in Kinds
<1>1. call[c] \in CallType
  BY DEF TypeOK
<1>2. 0 \in 0 .. MaxPairs
  BY BoundsAssumption
<1>3. CASE call[c] = Idle
  BY <1>2, <1>3 DEF Idle
<1>4. CASE call[c] \in CallType \ {Idle}
  BY <1>4 DEF CallType
<1>5. QED BY <1>1, <1>3, <1>4

\* A call that carries a pair carries one there may be.
LEMMA CallPairs ==
  ASSUME TypeOK, NEW c \in Calls
  PROVE  /\ call[c].pair # 0 => call[c].pair \in Pairs
         /\ call[c].old # 0 => call[c].old \in Pairs
BY CallFields, BoundsAssumption DEF Pairs

\* The page of a call takes a pair, or none.
LEMMA PageTakes ==
  ASSUME ClientOK, NEW c \in Calls, NEW p \in 0 .. MaxPairs, Apply(Tab(c), p)
  PROVE  stored' \in 0 .. MaxPairs /\ held' \in [Tabs -> 0 .. MaxPairs]
BY SlotsAssumption DEF ClientOK, Apply, Tab

\* A page that signs out keeps its types, and so does the call that made it.
LEMMA SignOutTyped ==
  ASSUME TypeOK, NEW c \in Calls, SignOut(c)
  PROVE  ClientOK' /\ call' \in [Calls -> CallType]
<1>1. 0 \in 0 .. MaxPairs
  BY BoundsAssumption
<1>2. ClientOK /\ Apply(Tab(c), 0)
  BY DEF TypeOK, SignOut
<1>3. stored' \in 0 .. MaxPairs /\ held' \in [Tabs -> 0 .. MaxPairs]
  BY <1>1, <1>2, PageTakes
<1>4. QED BY <1>2, <1>3 DEF SignOut, SetCall, TypeOK, ClientOK, CallType

\* A call goes to another stage, or gets what a call may be.
LEMMA CallGoesOn ==
  ASSUME TypeOK, NEW c \in Calls, NEW stage \in Stages, call[c].stage # "idle",
         To(c, stage)
  PROVE  call' \in [Calls -> CallType]
BY DEF TypeOK, CallType, Idle, To, SetCall

LEMMA CallIsSet ==
  ASSUME TypeOK, NEW c \in Calls, NEW r \in CallType, SetCall(c, r)
  PROVE  call' \in [Calls -> CallType]
BY DEF TypeOK, SetCall

\* A call that presents a refresh token.
LEMMA CallPresents ==
  ASSUME TypeOK, NEW c \in Calls, NEW p \in Pairs, call[c].stage # "idle", Present(c, p)
  PROVE  /\ call' \in [Calls -> CallType]
         /\ sent' \in [Pairs -> Nat]
<1>1. [call[c] EXCEPT !.stage = "refresh", !.pair = p, !.old = p] \in CallType
  <2>1. call[c] \in CallType \ {Idle} /\ p \in 0 .. MaxPairs
    BY BoundsAssumption DEF TypeOK, Idle, Pairs
  <2>2. "refresh" \in Stages
    BY DEF Stages, Serving
  <2>3. QED BY <2>1, <2>2 DEF CallType
<1>2. QED BY <1>1, CallIsSet DEF Present, TypeOK

\* The server keeps its types.
LEMMA ServerTyped ==
  ASSUME TypeOK, Issuance, NEW c \in Calls, Step(c)
  PROVE  ServerOK'
<1> USE CallFields DEF TypeOK, ServerOK, Issuance, server, Pairs, Serving, Move, At, OfKind,
SetCall, To, Tab, Present, Apply, SignOut, Authorised, Issued, NextPair, NewCall
<1>1. CASE ServeLogin(c)
  BY <1>1 DEF ServeLogin
<1>2. CASE Served(c)
  <2>1. CASE OfKind(c, {"delete"})
    BY <1>2, <2>1 DEF Served
  <2>2. CASE ~OfKind(c, {"delete"})
    BY <1>2, <2>2 DEF Served
  <2>3. QED BY <2>1, <2>2
<1>3. CASE Check(c)
  BY <1>3 DEF Check
<1>4. CASE Revoke(c)
  BY <1>4 DEF Revoke
<1>5. CASE Issue(c)
  <2>1. PICK p \in Pairs : Issued(p)
    BY <1>5 DEF Issue
  <2>2. row' = [row EXCEPT ![p] = "active"] /\ fresh' = fresh \cup {p}
    BY <2>1 DEF Issued
  <2>3. call[c].old \in Pairs
    BY <1>5, BoundsAssumption DEF Issue
  <2>4. rotated' = [rotated EXCEPT ![call[c].old] = @ + 1] /\ UNCHANGED <<account, raced>>
    BY <1>5 DEF Issue
  <2>5. rotated' \in [Pairs -> Nat]
    BY <2>3, <2>4
  <2>6. QED BY <2>2, <2>4, <2>5
<1>6. CASE ServeLogout(c)
  BY <1>6 DEF ServeLogout
<1>7. CASE \/ LoadPage(c) \/ SignIn(c) \/ StartApi(c, "api") \/ StartApi(c, "delete")
           \/ Deleted(c) \/ Expired(c) \/ Rotated(c) \/ Me(c) \/ MeExpired(c) \/ Known(c)
           \/ ExpiredAgain(c) \/ Logout(c) \/ EndLogout(c) \/ Fail(c) \/ Deny(c)
  BY <1>7 DEF LoadPage, SignIn, StartApi, Deleted, Expired, Rotated, Me, MeExpired, Known,
              ExpiredAgain, Logout, EndLogout, Fail, Deny
<1>8. QED BY <1>1, <1>2, <1>3, <1>4, <1>5, <1>6, <1>7 DEF Step, Login, VerifyEmail

\* The pages keep their types.
LEMMA ClientTyped ==
  ASSUME TypeOK, Issuance, NEW c \in Calls, Step(c)
  PROVE  ClientOK'
<1> USE DEF TypeOK
<1>1. CASE LoadPage(c)
  BY <1>1, SlotsAssumption DEF LoadPage, ClientOK, Tab
<1>2. CASE Deleted(c)
  <2>1. SignOut(c) \/ UNCHANGED client
    BY <1>2 DEF Deleted
  <2>2. QED BY <2>1, SignOutTyped DEF ClientOK, client
<1>3. CASE Expired(c)
  <2>1. SignOut(c) \/ UNCHANGED client
    BY <1>3 DEF Expired
  <2>2. QED BY <2>1, SignOutTyped DEF ClientOK, client
<1>4. CASE Deny(c)
  <2>1. SignOut(c) \/ UNCHANGED client
    BY <1>4 DEF Deny
  <2>2. QED BY <2>1, SignOutTyped DEF ClientOK, client
<1>5. CASE Rotated(c)
  <2>1. CASE OfKind(c, {"load"})
    BY <1>5, <2>1 DEF Rotated, ClientOK
  <2>2. CASE ~OfKind(c, {"load"})
    <3>1. Apply(Tab(c), call[c].pair) /\ call[c].pair \in 0 .. MaxPairs /\ call[c].old \in Pairs
      BY <1>5, <2>2, CallFields, BoundsAssumption DEF Rotated, Issuance, At, Pairs
    <3>2. replaced' = [replaced EXCEPT ![Tab(c)] = @ \cup {call[c].old}] /\ UNCHANGED <<shown,
          rewritten>>
      BY <1>5, <2>2 DEF Rotated
    <3>3. QED BY <3>1, <3>2, PageTakes, SlotsAssumption DEF ClientOK, Tab
  <2>3. QED BY <2>1, <2>2
<1>6. CASE MeExpired(c)
  <2>1. SignOut(c) \/ UNCHANGED client
    BY <1>6 DEF MeExpired
  <2>2. QED BY <2>1, SignOutTyped DEF ClientOK, client
<1>7. CASE Known(c)
  <2>1. shown' = [shown EXCEPT ![Tab(c)] = TRUE] /\ call[c].pair \in 0 .. MaxPairs
    BY <1>7, CallFields DEF Known
  <2>2. CASE OfKind(c, {"login", "load"})
    <3>1. Apply(Tab(c), call[c].pair) /\ call[c].pair \in Pairs /\ call[c].old \in 0 .. MaxPairs
      BY <1>7, <2>2, CallFields, BoundsAssumption DEF Known, Issuance, At, Pairs
    <3>2. /\ rewritten' = rewritten \/ rewritten' = rewritten \cup {call[c].pair}
          /\ replaced' = [replaced EXCEPT ![Tab(c)] = @ \cup ({call[c].old} \ {0})]
      BY <1>7, <2>2 DEF Known
    <3>3. {call[c].old} \ {0} \subseteq Pairs
      BY <3>1, BoundsAssumption DEF Pairs
    <3>4. QED BY <2>1, <3>1, <3>2, <3>3, PageTakes, SlotsAssumption DEF ClientOK, Tab
  <2>3. CASE ~OfKind(c, {"login", "load"})
    BY <1>7, <2>1, <2>3, SlotsAssumption DEF Known, ClientOK, Tab
  <2>4. QED BY <2>2, <2>3
<1>8. CASE ExpiredAgain(c)
  <2>1. SignOut(c) \/ UNCHANGED client
    BY <1>8 DEF ExpiredAgain
  <2>2. QED BY <2>1, SignOutTyped DEF ClientOK, client
<1>9. CASE EndLogout(c)
  <2>1. SignOut(c) \/ UNCHANGED client
    BY <1>9 DEF EndLogout
  <2>2. QED BY <2>1, SignOutTyped DEF ClientOK, client
<1>10. CASE Fail(c)
  <2>1. SignOut(c) \/ UNCHANGED client
    BY <1>10 DEF Fail
  <2>2. QED BY <2>1, SignOutTyped DEF ClientOK, client
<1>11. CASE \/ SignIn(c) \/ ServeLogin(c) \/ StartApi(c, "api") \/ StartApi(c, "delete")
            \/ Served(c) \/ Check(c) \/ Revoke(c) \/ Issue(c) \/ Me(c) \/ Logout(c)
            \/ ServeLogout(c)
  BY <1>11 DEF SignIn, ServeLogin, StartApi, Served, Check, Revoke, Issue, Me, Logout,
       ServeLogout, ClientOK, client
<1>12. QED BY <1>1, <1>2, <1>3, <1>4, <1>5, <1>6, <1>7, <1>8, <1>9, <1>10, <1>11
           DEF Step, Login, VerifyEmail

\* The calls keep their types.
LEMMA CallsTyped ==
  ASSUME TypeOK, Issuance, NEW c \in Calls, Step(c)
  PROVE  call' \in [Calls -> CallType]
<1> USE DEF TypeOK
<1>1. CASE LoadPage(c)
  <2>1. NewCall("load", "me", stored) \in CallType \/ stored = 0
    BY BoundsAssumption DEF ClientOK, CallType, NewCall, Kinds, Stages
  <2>2. ASSUME NEW x \in Calls, call[x].stage \in Serving
        PROVE  [call[x] EXCEPT !.live = FALSE] \in CallType
    <3>1. call[x] \in CallType \ {Idle}
      BY <2>2 DEF Idle, Serving
    <3>2. QED BY <3>1 DEF CallType
  <2>3. Idle \in CallType
    BY DEF CallType
  <2>4. QED BY <1>1, <2>1, <2>2, <2>3 DEF LoadPage
<1>2. CASE SignIn(c)
  <2>1. NewCall("login", "run", 0) \in CallType
    BY BoundsAssumption DEF CallType, NewCall, Kinds, Stages
  <2>2. QED BY <1>2, <2>1, CallIsSet DEF SignIn
<1>3. CASE ServeLogin(c)
  <2>1. PICK p \in Pairs : SetCall(c, [call[c] EXCEPT !.pair = p, !.stage = "me"])
    BY <1>3 DEF ServeLogin
  <2>2. call[c] \in CallType \ {Idle} /\ p \in 0 .. MaxPairs /\ "me" \in Stages
    BY <1>3, BoundsAssumption DEF ServeLogin, At, Idle, Pairs, Stages
  <2>3. [call[c] EXCEPT !.pair = p, !.stage = "me"] \in CallType
    BY <2>2 DEF CallType
  <2>4. QED BY <2>1, <2>3, CallIsSet
<1>4. CASE StartApi(c, "api") \/ StartApi(c, "delete")
  <2>1. held[Tab(c)] \in 0 .. MaxPairs
    BY SlotsAssumption DEF ClientOK, Tab
  <2>2. PICK kind \in {"api", "delete"} : SetCall(c, NewCall(kind, "run", held[Tab(c)]))
    BY <1>4 DEF StartApi
  <2>3. NewCall(kind, "run", held[Tab(c)]) \in CallType
    BY <2>1, BoundsAssumption DEF CallType, NewCall, Kinds, Stages
  <2>4. QED BY <2>2, <2>3, CallIsSet
<1>5. CASE Served(c)
  <2>1. SetCall(c, Idle) \/ (To(c, "deleted") /\ "deleted" \in Stages /\ call[c].stage # "idle")
    BY <1>5 DEF Served, Stages
  <2>2. QED BY <2>1, CallGoesOn, CallIsSet DEF CallType
<1>6. CASE Deleted(c)
  BY <1>6, SignOutTyped DEF Deleted
<1>7. CASE Expired(c)
  <2>1. SignOut(c) \/ (held[Tab(c)] \in Pairs /\ call[c].stage # "idle" /\ Present(c,
        held[Tab(c)]))
    BY <1>7, SlotsAssumption, BoundsAssumption DEF Expired, At, Tab, ClientOK, Pairs
  <2>2. QED BY <2>1, SignOutTyped, CallPresents
<1>8. CASE Check(c)
  <2>1. To(c, "checked") /\ "checked" \in Stages /\ call[c].stage # "idle"
    BY <1>8 DEF Check, At, Stages, Serving
  <2>2. QED BY <2>1, CallGoesOn
<1>9. CASE Revoke(c)
  <2>1. To(c, "revoked") /\ "revoked" \in Stages /\ call[c].stage # "idle"
    BY <1>9 DEF Revoke, At, Stages, Serving
  <2>2. QED BY <2>1, CallGoesOn
<1>10. CASE Issue(c)
  <2>1. PICK p \in Pairs : \/ SetCall(c, [call[c] EXCEPT !.pair = p, !.stage = "issued"])
                           \/ SetCall(c, Idle)
    BY <1>10 DEF Issue
  <2>2. call[c] \in CallType \ {Idle} /\ p \in 0 .. MaxPairs /\ "issued" \in Stages
    BY <1>10, BoundsAssumption DEF Issue, At, Idle, Pairs, Stages
  <2>3. [call[c] EXCEPT !.pair = p, !.stage = "issued"] \in CallType
    BY <2>2 DEF CallType
  <2>4. QED BY <2>1, <2>3, CallIsSet DEF CallType
<1>11. CASE Deny(c)
  <2>1. SignOut(c) \/ SetCall(c, Idle)
    BY <1>11 DEF Deny
  <2>2. QED BY <2>1, SignOutTyped, CallIsSet DEF CallType
<1>12. CASE Rotated(c)
  <2>1. To(c, "me") /\ "me" \in Stages /\ call[c].stage # "idle"
    BY <1>12 DEF Rotated, At, Stages, Serving
  <2>2. QED BY <2>1, CallGoesOn
<1>13. CASE Me(c)
  <2>1. To(c, "known") /\ "known" \in Stages /\ call[c].stage # "idle"
    BY <1>13 DEF Me, At, Stages, Serving
  <2>2. QED BY <2>1, CallGoesOn
<1>14. CASE MeExpired(c)
  <2>1. \/ SignOut(c) \/ SetCall(c, Idle)
        \/ call[c].pair \in Pairs /\ call[c].stage # "idle" /\ Present(c, call[c].pair)
    BY <1>14, CallFields, BoundsAssumption DEF MeExpired, At, Issuance, Pairs
  <2>2. QED BY <2>1, SignOutTyped, CallIsSet, CallPresents DEF CallType
<1>15. CASE Known(c)
  <2>1. \/ SetCall(c, Idle)
        \/ To(c, "again") /\ "again" \in Stages /\ call[c].stage # "idle"
    BY <1>15 DEF Known, At, Stages
  <2>2. QED BY <2>1, CallGoesOn, CallIsSet DEF CallType
<1>16. CASE ExpiredAgain(c)
  BY <1>16, SignOutTyped DEF ExpiredAgain
<1>17. CASE Logout(c)
  <2>1. held[Tab(c)] \in 0 .. MaxPairs
    BY SlotsAssumption DEF ClientOK, Tab
  <2>2. PICK stage \in {"ending", "ended"} : SetCall(c, NewCall("logout", stage, held[Tab(c)]))
    BY <1>17 DEF Logout
  <2>3. NewCall("logout", stage, held[Tab(c)]) \in CallType
    BY <2>1, BoundsAssumption DEF CallType, NewCall, Kinds, Stages
  <2>4. QED BY <2>2, <2>3, CallIsSet
<1>18. CASE ServeLogout(c)
  <2>1. To(c, "ended") /\ "ended" \in Stages /\ call[c].stage # "idle"
    BY <1>18 DEF ServeLogout, At, Stages, Serving
  <2>2. QED BY <2>1, CallGoesOn
<1>19. CASE EndLogout(c)
  BY <1>19, SignOutTyped DEF EndLogout
<1>20. CASE Fail(c)
  <2>1. \/ SignOut(c) \/ SetCall(c, Idle)
        \/ SetCall(c, [call[c] EXCEPT !.stage = "ended", !.pair = 0])
        \/ call[c].pair \in Pairs /\ Present(c, call[c].pair)
    BY <1>20, CallFields, BoundsAssumption DEF Fail, At, Issuance, Pairs
  <2>2. call[c] \in CallType \ {Idle}
    BY <1>20 DEF Fail, At, Idle
  <2>3. [call[c] EXCEPT !.stage = "ended", !.pair = 0] \in CallType
    <3>1. "ended" \in Stages /\ 0 \in 0 .. MaxPairs
      BY BoundsAssumption DEF Stages
    <3>2. QED BY <2>2, <3>1 DEF CallType
  <2>4. call[c].stage # "idle"
    BY <1>20 DEF Fail, At
  <2>5. QED BY <2>1, <2>3, <2>4, SignOutTyped, CallIsSet, CallPresents DEF CallType
<1>21. QED BY <1>1, <1>2, <1>3, <1>4, <1>5, <1>6, <1>7, <1>8, <1>9, <1>10, <1>11, <1>12, <1>13,
              <1>14, <1>15, <1>16, <1>17, <1>18, <1>19, <1>20 DEF Step, Login, VerifyEmail

\* The bounds and the history keep their types.
LEMMA RestTyped ==
  ASSUME TypeOK, Issuance, NEW c \in Calls, Step(c)
  PROVE  moves' \in 0 .. MaxMoves /\ sent' \in [Pairs -> Nat] /\ quiet' \in BOOLEAN
<1> USE BoundsAssumption DEF TypeOK, Move
<1>1. ASSUME Present(c, held[Tab(c)]), held[Tab(c)] # 0
      PROVE  sent' \in [Pairs -> Nat]
  BY <1>1, SlotsAssumption DEF Present, ClientOK, Tab, Pairs
<1>2. ASSUME Present(c, call[c].pair), call[c].pair # 0
      PROVE  sent' \in [Pairs -> Nat]
  BY <1>2, CallFields DEF Present, Pairs
<1>3. CASE Expired(c)
  BY <1>1, <1>3 DEF Expired
<1>4. CASE MeExpired(c)
  BY <1>2, <1>4 DEF MeExpired, Issuance, At
<1>5. CASE Fail(c)
  <2>1. moves' \in 0 .. MaxMoves /\ quiet' = quiet
    BY <1>5 DEF Fail
  <2>2. sent' = sent \/ (Present(c, call[c].pair) /\ call[c].pair # 0)
    BY <1>5 DEF Fail, Issuance, At
  <2>3. QED BY <1>2, <2>1, <2>2
<1>6. CASE EndLogout(c)
  BY <1>6 DEF EndLogout
<1>7. CASE Logout(c)
  BY <1>7 DEF Logout
<1>8. CASE StartApi(c, "api") \/ StartApi(c, "delete")
  BY <1>8 DEF StartApi
<1>9. CASE LoadPage(c)
  BY <1>9 DEF LoadPage
<1>10. CASE SignIn(c)
  <2>1. sent' = sent /\ quiet' = FALSE /\ moves < MaxMoves /\ moves' = moves + 1
    BY <1>10 DEF SignIn
  <2>2. moves' \in 0 .. MaxMoves
    BY <2>1
  <2>3. quiet' \in BOOLEAN
    BY <2>1
  <2>4. QED BY <2>1, <2>2, <2>3
<1>11. CASE \/ ServeLogin(c) \/ Served(c) \/ Deleted(c) \/ Check(c) \/ Revoke(c) \/ Issue(c)
            \/ Deny(c) \/ Rotated(c) \/ Me(c) \/ Known(c) \/ ExpiredAgain(c) \/ ServeLogout(c)
  BY <1>11 DEF ServeLogin, Served, Deleted, Check, Revoke, Issue, Deny, Rotated, Me, Known,
               ExpiredAgain, ServeLogout
<1>12. QED BY <1>3, <1>4, <1>5, <1>6, <1>7, <1>8, <1>9, <1>10, <1>11 DEF Step, Login, VerifyEmail

\* Tokens that expire keep every type.
LEMMA ExpiryTyped ==
  ASSUME TypeOK, NEW p \in Pairs, ExpireAccess(p) \/ ExpireRefresh(p)
  PROVE  TypeOK'
<1> USE DEF TypeOK, ServerOK, ClientOK, client
<1>1. CASE ExpireAccess(p)
  BY <1>1 DEF ExpireAccess
<1>2. CASE ExpireRefresh(p)
  BY <1>2, BoundsAssumption DEF ExpireRefresh, Move
<1>3. QED BY <1>1, <1>2
-----------------------------------------------------------------------------
\* What becomes of the calls when one of them goes on.
LEMMA GoesTo ==
  ASSUME TypeOK, NEW c \in Calls, NEW stage, call[c].stage # "idle", To(c, stage)
  PROVE  /\ call'[c].stage = stage /\ call'[c].pair = call[c].pair /\ call'[c].old = call[c].old
         /\ call'[c].kind = call[c].kind /\ call'[c].live = call[c].live
         /\ \A x \in Calls \ {c} : call'[x] = call[x]
<1>1. call[c] \in CallType \ {Idle}
  BY DEF TypeOK, Idle
<1>2. QED BY <1>1 DEF TypeOK, CallType, To, SetCall

\* The same, with the pair it has been given.
LEMMA GoesToPair ==
  ASSUME TypeOK, NEW c \in Calls, NEW stage, NEW p, call[c].stage # "idle",
         SetCall(c, [call[c] EXCEPT !.pair = p, !.stage = stage])
  PROVE  /\ call'[c].stage = stage /\ call'[c].pair = p /\ call'[c].old = call[c].old
         /\ call'[c].kind = call[c].kind
         /\ \A x \in Calls \ {c} : call'[x] = call[x]
<1>1. call[c] \in CallType \ {Idle}
  BY DEF TypeOK, Idle
<1>2. QED BY <1>1 DEF TypeOK, CallType, SetCall

\* A call that starts.
LEMMA Begins ==
  ASSUME TypeOK, NEW c \in Calls, NEW kind, NEW stage, NEW p, SetCall(c, NewCall(kind, stage, p))
  PROVE  /\ call'[c].stage = stage /\ call'[c].pair = p /\ call'[c].old = 0
         /\ call'[c].kind = kind /\ call'[c].live
         /\ \A x \in Calls \ {c} : call'[x] = call[x]
BY DEF TypeOK, SetCall, NewCall

\* delete_user leaves no token that could be exchanged.
LEMMA DeletedRows ==
  ASSUME TypeOK, NEW c \in Calls, Served(c), OfKind(c, {"delete"})
  PROVE  /\ \A p \in Pairs : row'[p] # "active" /\ (row'[p] = "none" <=> row[p] = "none")
         /\ To(c, "deleted") /\ call[c].stage # "idle"
         /\ UNCHANGED <<rotated, raced, stored, held, quiet>>
BY DEF Served, client

\* A call that is over, with or without the session of its page, leaves the
\* rest of the invariant as it is.
LEMMA QuitKeeps ==
  ASSUME IInv, NEW c \in Calls, SetCall(c, Idle), UNCHANGED <<row, rotated, raced, quiet>>,
         SignOut(c) \/ UNCHANGED <<stored, held>>
  PROVE  Issuance' /\ Exchange' /\ AfterSignOut'
<1> USE DEF IInv, SetCall, Idle
<1>1. /\ call' = [call EXCEPT ![c] = Idle]
      /\ stored' = stored \/ stored' = 0
      /\ \A t \in Tabs : held'[t] = held[t] \/ held'[t] = 0
  BY SlotsAssumption DEF SignOut, Apply, TypeOK, ClientOK
<1>2. Issuance'
  BY <1>1 DEF Issuance, Serving, TypeOK
<1>3. Exchange'
  BY <1>1 DEF Exchange, Exchanging, Spent, TypeOK
<1>4. AfterSignOut'
  BY <1>1 DEF AfterSignOut, SignedOut, TypeOK
<1>5. QED BY <1>2, <1>3, <1>4

\* So does a call that presents a token that was issued.
LEMMA PresentKeeps ==
  ASSUME IInv, NEW c \in Calls, NEW p \in Pairs, Present(c, p), row[p] # "none",
         call[c].stage \notin {"idle", "ended"},
         UNCHANGED <<row, rotated, raced, quiet, stored, held>>
  PROVE  Issuance' /\ Exchange' /\ AfterSignOut'
<1> USE DEF IInv
<1>1. call' = [call EXCEPT ![c] = [call[c] EXCEPT !.stage = "refresh", !.pair = p, !.old = p]]
  BY DEF Present, SetCall
<1>2. /\ call'[c].stage = "refresh" /\ call'[c].pair = p /\ call'[c].old = p
      /\ call'[c].kind = call[c].kind
      /\ \A x \in Calls \ {c} : call'[x] = call[x]
  <2>1. call[c] \in CallType \ {Idle}
    BY DEF TypeOK, Idle
  <2>2. QED BY <1>1, <2>1 DEF TypeOK, CallType
<1>3. p # 0
  BY DEF Pairs
<1>4. Issuance'
  BY <1>2, <1>3 DEF Issuance, Serving
<1>5. Exchange'
  BY <1>2 DEF Exchange, Exchanging, Spent
<1>6. AfterSignOut'
  BY <1>2 DEF AfterSignOut, SignedOut
<1>7. QED BY <1>4, <1>5, <1>6

\* The steps that are one of these.
LEMMA QuitOrPresent ==
  ASSUME IInv, NEW c \in Calls,
         \/ Deleted(c) \/ Expired(c) \/ Deny(c) \/ MeExpired(c) \/ ExpiredAgain(c)
         \/ Fail(c) /\ ~OfKind(c, {"logout"})
         \/ Served(c) /\ ~OfKind(c, {"delete"})
  PROVE  Issuance' /\ Exchange' /\ AfterSignOut'
<1> USE DEF server, client
<1>1. ASSUME SetCall(c, Idle) \/ SignOut(c), SignOut(c) \/ UNCHANGED client,
             UNCHANGED <<row, rotated, raced, quiet>>
      PROVE  Issuance' /\ Exchange' /\ AfterSignOut'
  BY <1>1, QuitKeeps DEF SignOut
<1>2. ASSUME NEW p \in 0 .. MaxPairs, p # 0, Present(c, p), row[p] # "none",
             call[c].stage \notin {"idle", "ended"}, UNCHANGED client,
             UNCHANGED <<row, rotated, raced, quiet>>
      PROVE  Issuance' /\ Exchange' /\ AfterSignOut'
  BY <1>2, PresentKeeps, BoundsAssumption DEF Pairs
<1>3. /\ held[Tab(c)] \in 0 .. MaxPairs /\ (held[Tab(c)] # 0 => row[held[Tab(c)]] # "none")
      /\ call[c].pair \in 0 .. MaxPairs /\ (call[c].pair # 0 => row[call[c].pair] # "none")
      /\ call[c].stage = "me" => call[c].pair # 0
  BY CallFields, SlotsAssumption DEF IInv, TypeOK, ClientOK, Issuance, Tab
<1>4. CASE Deleted(c)
  BY <1>1, <1>4 DEF Deleted
<1>5. CASE Expired(c)
  BY <1>1, <1>2, <1>3, <1>5 DEF Expired, At
<1>6. CASE Deny(c)
  BY <1>1, <1>6 DEF Deny
<1>7. CASE MeExpired(c)
  BY <1>1, <1>2, <1>3, <1>7 DEF MeExpired, At
<1>8. CASE ExpiredAgain(c)
  BY <1>1, <1>8 DEF ExpiredAgain
<1>9. CASE Fail(c) /\ ~OfKind(c, {"logout"})
  BY <1>1, <1>2, <1>3, <1>9 DEF Fail, At, OfKind
<1>10. CASE Served(c) /\ ~OfKind(c, {"delete"})
  BY <1>1, <1>10 DEF Served
<1>11. QED BY <1>4, <1>5, <1>6, <1>7, <1>8, <1>9, <1>10

\* Nothing is held, stored or presented that was not issued.
LEMMA IssuanceStep ==
  ASSUME IInv, NEW c \in Calls, Step(c)
  PROVE  Issuance'
<1> USE DEF IInv, TypeOK, ServerOK, ClientOK, Issuance,
        server, client, Serving, Idle, NewCall, At, OfKind, SetCall, To, Tab, Apply, SignOut,
        Authorised, Issued, NextPair
<1>1. CASE \/ Deleted(c) \/ Expired(c) \/ Deny(c) \/ MeExpired(c) \/ ExpiredAgain(c)
           \/ Fail(c) /\ ~OfKind(c, {"logout"})
           \/ Served(c) /\ ~OfKind(c, {"delete"})
  BY <1>1, QuitOrPresent
<1>2. CASE LoadPage(c)
  BY <1>2 DEF LoadPage
<1>3. CASE SignIn(c)
  BY <1>3 DEF SignIn
<1>4. CASE ServeLogin(c)
  <2>1. PICK p \in Pairs : /\ row' = [row EXCEPT ![p] = "active"]
                           /\ SetCall(c, [call[c] EXCEPT !.pair = p, !.stage = "me"])
    BY <1>4 DEF ServeLogin
  <2>2. /\ call'[c].stage = "me" /\ call'[c].pair = p /\ call'[c].old = call[c].old
        /\ call'[c].kind = call[c].kind
        /\ \A x \in Calls \ {c} : call'[x] = call[x]
    BY <1>4, <2>1, GoesToPair DEF ServeLogin
  <2>3. p # 0 /\ row'[p] # "none" /\ \A q \in Pairs : row[q] # "none" => row'[q] # "none"
    BY <2>1 DEF Pairs
  <2>4. stored' = stored /\ held' = held
    BY <1>4 DEF ServeLogin
  <2>5. QED BY <1>4, <2>2, <2>3, <2>4, CallFields, BoundsAssumption DEF Pairs, ServeLogin
<1>5. CASE StartApi(c, "api") \/ StartApi(c, "delete")
  <2>1. PICK kind \in {"api", "delete"} : StartApi(c, kind)
    BY <1>5
  <2>2. /\ call'[c].stage = "run" /\ call'[c].pair = held[Tab(c)] /\ call'[c].old = 0
        /\ call'[c].kind = kind
        /\ \A x \in Calls \ {c} : call'[x] = call[x]
    BY <2>1, Begins DEF StartApi
  <2>3. row' = row /\ stored' = stored /\ held' = held
    BY <2>1 DEF StartApi
  <2>4. QED BY <2>2, <2>3, SlotsAssumption
<1>6. CASE Served(c) /\ OfKind(c, {"delete"})
  <2>1. \A p \in Pairs : row'[p] # "active" /\ (row'[p] = "none" <=> row[p] = "none")
    BY <1>6, DeletedRows
  <2>2. To(c, "deleted") /\ call[c].stage # "idle" /\ UNCHANGED <<rotated, raced, stored, held,
        quiet>>
    BY <1>6, DeletedRows
  <2>3. /\ call'[c].stage = "deleted" /\ call'[c].pair = call[c].pair
        /\ call'[c].old = call[c].old
        /\ call'[c].kind = call[c].kind
        /\ \A x \in Calls \ {c} : call'[x] = call[x]
    BY <2>2, GoesTo
  <2>4. \A x \in Calls : /\ call[x].pair # 0 => call[x].pair \in Pairs
                         /\ call[x].old # 0 => call[x].old \in Pairs
    BY CallPairs
  <2>5. (stored # 0 => stored \in Pairs) /\ \A t \in Tabs : held[t] # 0 => held[t] \in Pairs
    BY BoundsAssumption DEF Pairs
  <2>6. QED BY <2>1, <2>2, <2>3, <2>4, <2>5
<1>7. CASE Check(c)
  BY <1>7 DEF Check
<1>8. CASE Revoke(c)
  BY <1>8 DEF Revoke
<1>9. CASE Issue(c)
  <2>1. PICK p \in Pairs : /\ row[p] = "none" /\ row' = [row EXCEPT ![p] = "active"]
                           /\ \/ SetCall(c, [call[c] EXCEPT !.pair = p, !.stage = "issued"])
                              \/ SetCall(c, Idle)
    BY <1>9 DEF Issue
  <2>2. call[c].stage = "revoked" /\ stored' = stored /\ held' = held
    BY <1>9 DEF Issue
  <2>3. p # 0 /\ row'[p] # "none" /\ \A q \in 0 .. MaxPairs : row[q] # "none" => row'[q] # "none"
    BY <2>1 DEF Pairs
  <2>4. CASE SetCall(c, Idle)
    BY <2>2, <2>3, <2>4, CallFields
  <2>5. CASE SetCall(c, [call[c] EXCEPT !.pair = p, !.stage = "issued"])
    <3>1. /\ call'[c].stage = "issued" /\ call'[c].pair = p /\ call'[c].old = call[c].old
          /\ call'[c].kind = call[c].kind
          /\ \A x \in Calls \ {c} : call'[x] = call[x]
      BY <2>2, <2>5, GoesToPair
    <3>2. call[c].old # 0 /\ row[call[c].old] # "none"
      BY <2>2
    <3>3. QED BY <2>1, <2>2, <2>3, <3>1, <3>2, CallFields
  <2>6. QED BY <2>1, <2>4, <2>5
<1>10. CASE Rotated(c)
  <2>1. /\ call'[c].stage = "me" /\ call'[c].pair = call[c].pair /\ call'[c].old = call[c].old
        /\ call'[c].kind = call[c].kind
        /\ \A x \in Calls \ {c} : call'[x] = call[x]
    BY <1>10, GoesTo DEF Rotated
  <2>2. row' = row /\ call[c].pair \in 0 .. MaxPairs
    BY <1>10, CallFields DEF Rotated
  <2>3. /\ stored' = stored \/ stored' = call[c].pair
        /\ \A t \in Tabs : held'[t] = held[t] \/ held'[t] = call[c].pair
    BY <1>10, SlotsAssumption DEF Rotated
  <2>4. QED BY <1>10, <2>1, <2>2, <2>3, BoundsAssumption DEF Rotated
<1>11. CASE Me(c)
  BY <1>11 DEF Me
<1>12. CASE Known(c)
  <2>1. row' = row /\ call[c].pair \in 0 .. MaxPairs /\ UNCHANGED <<rotated, raced, quiet>>
    BY <1>12, CallFields DEF Known
  <2>2. \/ SetCall(c, Idle)
        \/ To(c, "again")
    BY <1>12 DEF Known
  <2>3. /\ stored' = stored \/ stored' = call[c].pair
        /\ \A t \in Tabs : held'[t] = held[t] \/ held'[t] = call[c].pair
    BY <1>12, SlotsAssumption DEF Known
  <2>4. CASE SetCall(c, Idle)
    BY <1>12, <2>1, <2>3, <2>4 DEF Known
  <2>5. CASE To(c, "again")
    <3>1. /\ call'[c].stage = "again" /\ call'[c].pair = call[c].pair
          /\ call'[c].old = call[c].old
          /\ call'[c].kind = call[c].kind
          /\ \A x \in Calls \ {c} : call'[x] = call[x]
      BY <1>12, <2>5, GoesTo DEF Known
    <3>2. call[c].stage = "known"
      BY <1>12 DEF Known
    <3>3. QED BY <2>1, <2>3, <3>1, <3>2
  <2>6. QED BY <2>2, <2>4, <2>5
<1>13. CASE Logout(c)
  <2>1. PICK stage \in {"ending", "ended"} :
          /\ SetCall(c, NewCall("logout", stage, held[Tab(c)]))
          /\ stage = "ended" <=> held[Tab(c)] = 0
    BY <1>13 DEF Logout
  <2>2. /\ call'[c].stage = stage /\ call'[c].pair = held[Tab(c)] /\ call'[c].old = 0
        /\ call'[c].kind = "logout"
        /\ \A x \in Calls \ {c} : call'[x] = call[x]
    BY <2>1, Begins
  <2>3. row' = row /\ stored' = stored /\ held' = held /\ quiet' = quiet
    BY <1>13 DEF Logout
  <2>4. QED BY <2>1, <2>2, <2>3, SlotsAssumption
<1>14. CASE ServeLogout(c)
  BY <1>14 DEF ServeLogout
<1>15. CASE EndLogout(c)
  BY <1>15 DEF EndLogout
<1>16. CASE Fail(c) /\ OfKind(c, {"logout"})
  <2>1. /\ SetCall(c, [call[c] EXCEPT !.stage = "ended", !.pair = 0])
        /\ UNCHANGED <<row, rotated, raced, stored, held, quiet>>
    BY <1>16 DEF Fail
  <2>2. call[c] \in CallType \ {Idle}
    BY <1>16 DEF Fail
  <2>3. /\ call'[c].stage = "ended" /\ call'[c].pair = 0 /\ call'[c].old = call[c].old
        /\ call'[c].kind = call[c].kind
        /\ \A x \in Calls \ {c} : call'[x] = call[x]
    BY <2>1, <2>2 DEF CallType
  <2>4. call[c].kind = "logout"
    BY <1>16
  <2>5. QED BY <2>1, <2>3, <2>4
<1>17. QED BY <1>1, <1>2, <1>3, <1>4, <1>5, <1>6, <1>7, <1>8, <1>9, <1>10, <1>11, <1>12, <1>13,
              <1>14, <1>15, <1>16 DEF Step, Login, VerifyEmail

\* A token that was not raced is exchanged by one request.
LEMMA ExchangeStep ==
  ASSUME IInv, NEW c \in Calls, Step(c)
  PROVE  Exchange'
<1> USE DEF IInv, TypeOK, ServerOK, ClientOK, Issuance, Exchange, Exchanging, Spent,
        server, client, Serving, Idle, NewCall, At, OfKind, SetCall, To, Tab, Apply, SignOut,
        Authorised, Issued, NextPair
<1>1. CASE \/ Deleted(c) \/ Expired(c) \/ Deny(c) \/ MeExpired(c) \/ ExpiredAgain(c)
           \/ Fail(c) /\ ~OfKind(c, {"logout"})
           \/ Served(c) /\ ~OfKind(c, {"delete"})
  BY <1>1, QuitOrPresent
<1>2. CASE LoadPage(c)
  BY <1>2 DEF LoadPage
<1>3. CASE SignIn(c)
  BY <1>3 DEF SignIn
<1>4. CASE ServeLogin(c)
  BY <1>4 DEF ServeLogin
<1>5. CASE StartApi(c, "api") \/ StartApi(c, "delete")
  BY <1>5 DEF StartApi
<1>6. CASE Served(c) /\ OfKind(c, {"delete"})
  <2>1. \A p \in Pairs : row'[p] # "active" /\ (row'[p] = "none" <=> row[p] = "none")
    BY <1>6, DeletedRows
  <2>2. To(c, "deleted") /\ call[c].stage # "idle" /\ UNCHANGED <<rotated, raced, stored, held,
        quiet>>
    BY <1>6, DeletedRows
  <2>3. /\ call'[c].stage = "deleted" /\ call'[c].pair = call[c].pair
        /\ call'[c].old = call[c].old
        /\ call'[c].kind = call[c].kind
        /\ \A x \in Calls \ {c} : call'[x] = call[x]
    BY <2>2, GoesTo
  <2>4. QED BY <2>1, <2>2, <2>3, CallFields, BoundsAssumption DEF Pairs
<1>7. CASE Check(c)
  BY <1>7 DEF Check
<1>8. CASE Revoke(c)
  BY <1>8 DEF Revoke
<1>9. CASE Issue(c)
  BY <1>9 DEF Issue
<1>10. CASE Rotated(c)
  BY <1>10 DEF Rotated
<1>11. CASE Me(c)
  BY <1>11 DEF Me
<1>12. CASE Known(c)
  <2>1. row' = row /\ call[c].pair \in 0 .. MaxPairs /\ UNCHANGED <<rotated, raced, quiet>>
    BY <1>12, CallFields DEF Known
  <2>2. \/ SetCall(c, Idle)
        \/ To(c, "again")
    BY <1>12 DEF Known
  <2>3. /\ stored' = stored \/ stored' = call[c].pair
        /\ \A t \in Tabs : held'[t] = held[t] \/ held'[t] = call[c].pair
    BY <1>12, SlotsAssumption DEF Known
  <2>4. CASE SetCall(c, Idle)
    BY <1>12, <2>1, <2>3, <2>4 DEF Known
  <2>5. CASE To(c, "again")
    <3>1. /\ call'[c].stage = "again" /\ call'[c].pair = call[c].pair
          /\ call'[c].old = call[c].old
          /\ call'[c].kind = call[c].kind
          /\ \A x \in Calls \ {c} : call'[x] = call[x]
      BY <1>12, <2>5, GoesTo DEF Known
    <3>2. call[c].stage = "known"
      BY <1>12 DEF Known
    <3>3. QED BY <2>1, <2>3, <3>1, <3>2
  <2>6. QED BY <2>2, <2>4, <2>5
<1>13. CASE Logout(c)
  BY <1>13 DEF Logout
<1>14. CASE ServeLogout(c)
  BY <1>14 DEF ServeLogout
<1>15. CASE EndLogout(c)
  BY <1>15 DEF EndLogout
<1>16. CASE Fail(c) /\ OfKind(c, {"logout"})
  <2>1. /\ SetCall(c, [call[c] EXCEPT !.stage = "ended", !.pair = 0])
        /\ UNCHANGED <<row, rotated, raced, stored, held, quiet>>
    BY <1>16 DEF Fail
  <2>2. call[c] \in CallType \ {Idle}
    BY <1>16 DEF Fail
  <2>3. /\ call'[c].stage = "ended" /\ call'[c].pair = 0 /\ call'[c].old = call[c].old
        /\ call'[c].kind = call[c].kind
        /\ \A x \in Calls \ {c} : call'[x] = call[x]
    BY <2>1, <2>2 DEF CallType
  <2>4. QED BY <2>1, <2>3
<1>17. QED BY <1>1, <1>2, <1>3, <1>4, <1>5, <1>6, <1>7, <1>8, <1>9, <1>10, <1>11, <1>12, <1>13,
              <1>14, <1>15, <1>16 DEF Step, Login, VerifyEmail

\* What a sign-out has left behind stays.
LEMMA AfterSignOutStep ==
  ASSUME IInv, NEW c \in Calls, Step(c)
  PROVE  AfterSignOut'
<1> USE DEF IInv, TypeOK, ServerOK, ClientOK, Issuance, AfterSignOut, SignedOut,
        server, client, Serving, Idle, NewCall, At, OfKind, SetCall, To, Tab, Apply, SignOut,
        Authorised, Issued, NextPair
<1>1. CASE \/ Deleted(c) \/ Expired(c) \/ Deny(c) \/ MeExpired(c) \/ ExpiredAgain(c)
           \/ Fail(c) /\ ~OfKind(c, {"logout"})
           \/ Served(c) /\ ~OfKind(c, {"delete"})
  BY <1>1, QuitOrPresent
<1>2. CASE LoadPage(c)
  BY <1>2 DEF LoadPage
<1>3. CASE SignIn(c)
  BY <1>3 DEF SignIn
<1>4. CASE ServeLogin(c)
  BY <1>4 DEF ServeLogin
<1>5. CASE StartApi(c, "api") \/ StartApi(c, "delete")
  <2>1. held[Tab(c)] # 0 /\ quiet' = quiet /\ row' = row /\ stored' = stored /\ held' = held
    BY <1>5 DEF StartApi
  <2>2. ~quiet
    BY <2>1, SlotsAssumption
  <2>3. call'[c].stage = "run" /\ \A x \in Calls \ {c} : call'[x] = call[x]
    BY <1>5, Begins DEF StartApi
  <2>4. QED BY <2>1, <2>2, <2>3
<1>6. CASE Served(c) /\ OfKind(c, {"delete"})
  <2>1. \A p \in Pairs : row'[p] # "active" /\ (row'[p] = "none" <=> row[p] = "none")
    BY <1>6, DeletedRows
  <2>2. To(c, "deleted") /\ call[c].stage # "idle" /\ UNCHANGED <<rotated, raced, stored, held,
        quiet>>
    BY <1>6, DeletedRows
  <2>3. /\ call'[c].stage = "deleted" /\ call'[c].pair = call[c].pair
        /\ call'[c].old = call[c].old
        /\ call'[c].kind = call[c].kind
        /\ \A x \in Calls \ {c} : call'[x] = call[x]
    BY <2>2, GoesTo
  <2>4. \A x \in Calls : /\ call[x].pair # 0 => call[x].pair \in Pairs
                         /\ call[x].old # 0 => call[x].old \in Pairs
    BY CallPairs
  <2>5. ~quiet
    <3>1. call[c].stage \in {"run", "again"}
      BY <1>6 DEF Served
    <3>2. QED BY <3>1
  <2>6. QED BY <2>1, <2>2, <2>3, <2>4, <2>5
<1>7. CASE Check(c)
  BY <1>7 DEF Check
<1>8. CASE Revoke(c)
  BY <1>8 DEF Revoke
<1>9. CASE Issue(c)
  BY <1>9 DEF Issue
<1>10. CASE Rotated(c)
  BY <1>10 DEF Rotated
<1>11. CASE Me(c)
  BY <1>11 DEF Me
<1>12. CASE Known(c)
  <2>1. row' = row /\ quiet' = quiet /\ ~quiet
    BY <1>12 DEF Known
  <2>2. \/ SetCall(c, Idle)
        \/ To(c, "again")
    BY <1>12 DEF Known
  <2>4. CASE SetCall(c, Idle)
    BY <2>1, <2>4
  <2>5. CASE To(c, "again")
    <3>1. /\ call'[c].stage = "again" /\ call'[c].pair = call[c].pair
          /\ call'[c].old = call[c].old
          /\ call'[c].kind = call[c].kind
          /\ \A x \in Calls \ {c} : call'[x] = call[x]
      BY <1>12, <2>5, GoesTo DEF Known
    <3>2. QED BY <2>1, <3>1
  <2>6. QED BY <2>2, <2>4, <2>5
<1>13. CASE Logout(c)
  <2>1. PICK stage \in {"ending", "ended"} :
          /\ SetCall(c, NewCall("logout", stage, held[Tab(c)]))
          /\ stage = "ended" <=> held[Tab(c)] = 0
    BY <1>13 DEF Logout
  <2>2. /\ call'[c].stage = stage /\ call'[c].pair = held[Tab(c)] /\ call'[c].old = 0
        /\ call'[c].kind = "logout"
        /\ \A x \in Calls \ {c} : call'[x] = call[x]
    BY <2>1, Begins
  <2>3. row' = row /\ stored' = stored /\ held' = held /\ quiet' = quiet
    BY <1>13 DEF Logout
  <2>4. QED BY <2>1, <2>2, <2>3, SlotsAssumption
<1>14. CASE ServeLogout(c)
  <2>1. /\ call'[c].stage = "ended" /\ call'[c].pair = call[c].pair /\ call'[c].old = call[c].old
        /\ call'[c].kind = call[c].kind
        /\ \A x \in Calls \ {c} : call'[x] = call[x]
    BY <1>14, GoesTo DEF ServeLogout
  <2>2. call[c].stage = "ending" /\ quiet' = quiet
    BY <1>14 DEF ServeLogout
  <2>3. ~quiet
    BY <2>2
  <2>4. call[c].pair \in Pairs
    BY <2>2, CallPairs
  <2>5. row' = [row EXCEPT ![call[c].pair] = IF @ = "active" THEN "revoked" ELSE @]
    BY <1>14 DEF ServeLogout
  <2>6. \A p \in Pairs : row[p] # "active" => row'[p] # "active"
    BY <2>5
  <2>7. row'[call[c].pair] # "active"
    BY <2>4, <2>5
  <2>8. \A x \in Calls : call[x].pair # 0 => call[x].pair \in Pairs
    BY CallPairs
  <2>9. QED BY <2>1, <2>2, <2>3, <2>6, <2>7, <2>8
<1>15. CASE EndLogout(c)
  BY <1>15 DEF EndLogout
<1>16. CASE Fail(c) /\ OfKind(c, {"logout"})
  <2>1. /\ SetCall(c, [call[c] EXCEPT !.stage = "ended", !.pair = 0])
        /\ UNCHANGED <<row, rotated, raced, stored, held, quiet>>
    BY <1>16 DEF Fail
  <2>2. call[c] \in CallType \ {Idle}
    BY <1>16 DEF Fail
  <2>3. /\ call'[c].stage = "ended" /\ call'[c].pair = 0 /\ call'[c].old = call[c].old
        /\ call'[c].kind = call[c].kind
        /\ \A x \in Calls \ {c} : call'[x] = call[x]
    BY <2>1, <2>2 DEF CallType
  <2>4. QED BY <2>1, <2>3
<1>17. QED BY <1>1, <1>2, <1>3, <1>4, <1>5, <1>6, <1>7, <1>8, <1>9, <1>10, <1>11, <1>12, <1>13,
              <1>14, <1>15, <1>16 DEF Step, Login, VerifyEmail

\* A token that expires is not one that could be exchanged again.
LEMMA ExpiryKeeps ==
  ASSUME IInv, NEW p \in Pairs, ExpireAccess(p) \/ ExpireRefresh(p)
  PROVE  Issuance' /\ Exchange' /\ AfterSignOut'
<1>1. UNCHANGED <<call, stored, held, rotated, raced, quiet>>
  BY DEF ExpireAccess, ExpireRefresh, client
<1>2. \A q \in Pairs : /\ row[q] # "none" <=> row'[q] # "none"
                       /\ row'[q] = "active" => row[q] = "active"
  BY DEF ExpireAccess, ExpireRefresh, IInv, TypeOK, ServerOK
<1>3. \A c \in Calls : /\ call[c].pair # 0 => call[c].pair \in Pairs
                       /\ call[c].old # 0 => call[c].old \in Pairs
  BY CallPairs DEF IInv
<1>4. Issuance'
  <2>1. /\ stored # 0 => stored \in Pairs
        /\ \A t \in Tabs : held[t] # 0 => held[t] \in Pairs
    BY BoundsAssumption DEF Pairs, IInv, TypeOK, ClientOK
  <2>2. QED BY <1>1, <1>2, <1>3, <2>1 DEF Issuance, IInv
<1>5. Exchange'
  BY <1>1, <1>2 DEF Exchange, Exchanging, Spent, IInv
<1>6. AfterSignOut'
  BY <1>1, <1>2, <1>3 DEF AfterSignOut, SignedOut, IInv
<1>7. QED BY <1>4, <1>5, <1>6

\* The invariant holds at first ...
LEMMA InvInit == Init => IInv
<1> SUFFICES ASSUME Init PROVE IInv
  OBVIOUS
<1>1. TypeOK
  <2>1. 0 \in 0 .. MaxPairs /\ 0 \in 0 .. MaxMoves
    BY BoundsAssumption
  <2>2. ServerOK
    BY DEF Init, ServerOK
  <2>3. ClientOK
    BY <2>1 DEF Init, ClientOK
  <2>4. QED BY <2>1, <2>2, <2>3 DEF Init, TypeOK, CallType
<1>2. Issuance
  BY DEF Init, Issuance, Idle, Serving
<1>3. Exchange
  BY DEF Init, Exchange, Exchanging, Spent, Idle
<1>4. AfterSignOut
  BY DEF Init, AfterSignOut, Idle
<1>5. QED BY <1>1, <1>2, <1>3, <1>4 DEF IInv

\* ... and every step keeps it.
LEMMA InvStep == IInv /\ [Next]_vars => IInv'
<1> SUFFICES ASSUME IInv, [Next]_vars PROVE IInv'
  OBVIOUS
<1>1. ASSUME NEW c \in Calls, Step(c) PROVE IInv'
  <2>1. TypeOK'
    BY <1>1, ServerTyped, ClientTyped, CallsTyped, RestTyped DEF IInv, TypeOK
  <2>2. QED BY <1>1, <2>1, IssuanceStep, ExchangeStep, AfterSignOutStep DEF IInv
<1>2. ASSUME NEW p \in Pairs, ExpireAccess(p) \/ ExpireRefresh(p) PROVE IInv'
  BY <1>2, ExpiryTyped, ExpiryKeeps DEF IInv
<1>3. CASE UNCHANGED vars
  BY <1>3 DEF vars, server, client, IInv, TypeOK, ServerOK, ClientOK, Issuance, Exchange,
              Exchanging, Spent, AfterSignOut, SignedOut
<1>4. QED BY <1>1, <1>2, <1>3 DEF Next
-----------------------------------------------------------------------------
\* The second invariant: where tokens have come from and gone to.

\* A pair that only the call c has: it was issued to c, which has not handed it
\* to its page yet.
Private(c) ==
  \/ call[c].stage = "issued"
  \/ /\ call[c].stage \in {"me", "known"}
     /\ call[c].kind = "login" \/ (call[c].kind = "load" /\ call[c].old # 0)

\* A refresh token that cannot be exchanged any more.
Dead(p) == row[p] \notin {"none", "active"}

\* Where the pair of a private call is not, and what became of the tokens that
\* calls and pages have exchanged.
Lineage ==
  /\ \A c \in Calls : Private(c) =>
       /\ call[c].pair # call[c].old
       /\ call[c].pair # stored
       /\ \A t \in Tabs : call[c].pair # held[t] /\ call[c].pair \notin replaced[t]
       /\ \A d \in Calls \ {c} : call[c].pair # call[d].pair /\ call[c].pair # call[d].old
  /\ \A c \in Calls : call[c].stage \in {"revoked", "issued", "me", "known", "again"}
                      /\ call[c].old # 0 => Dead(call[c].old)
  /\ \A c \in Calls : call[c].stage = "run" \/ call[c].kind = "login" => call[c].old = 0
  /\ \A t \in Tabs : \A p \in replaced[t] : Dead(p)

\* A page that is loading has no other call that could still exchange what it
\* holds, only a sign-in by a link; a call nobody waits for is one the server is
\* working on.
Loads ==
  \A c \in Calls :
    /\ ~call[c].live => call[c].stage \in Serving
    /\ call[c].kind = "load" /\ call[c].live =>
         \A d \in Calls \ {c} : Tab(d) = Tab(c) =>
           call[d].stage = "idle" \/ ~call[d].live \/ call[d].kind = "login"

\* Neither localStorage nor a page has a token that the page has replaced, nor
\* has a page load one to try.
Newest ==
  \A t \in Tabs :
    /\ stored \notin replaced[t] \ rewritten
    /\ held[t] \notin replaced[t] \ rewritten
    /\ \A c \in Calls :
         call[c].kind = "load" /\ call[c].stage = "me" /\ call[c].old = 0 /\ Tab(c) = t =>
           call[c].pair \notin replaced[t] \ rewritten

\* A request that has presented p and not used it yet.
Presenting(c, p) ==
  \/ call[c].stage \in {"refresh", "checked"} /\ call[c].old = p
  \/ call[c].stage = "ending" /\ call[c].pair = p

\* How often a token was presented at least; tokens of a deleted account.
Presentations ==
  \A p \in Pairs :
    /\ row[p] = "revoked" => sent[p] >= 1
    /\ row[p] = "deleted" => ~account
    /\ \A c \in Calls : Presenting(c, p) =>
         /\ sent[p] >= 1
         /\ row[p] = "revoked" => sent[p] >= 2
         /\ \A d \in Calls \ {c} : Presenting(d, p) => sent[p] >= 2

History == Lineage /\ Loads /\ Newest /\ Presentations

-----------------------------------------------------------------------------
\* A call that is over.
LEMMA CallEnds ==
  ASSUME TypeOK, NEW c \in Calls, SetCall(c, Idle)
  PROVE  /\ call'[c].stage = "idle" /\ call'[c].pair = 0 /\ call'[c].old = 0
         /\ call'[c].kind = "none" /\ call'[c].live
         /\ \A x \in Calls \ {c} : call'[x] = call[x]
BY DEF TypeOK, SetCall, Idle

\* A page that signs out, and the call that made it.
LEMMA PageQuits ==
  ASSUME TypeOK, NEW c \in Calls, SignOut(c) \/ UNCHANGED client
  PROVE  /\ stored' = stored \/ stored' = 0
         /\ \A t \in Tabs : held'[t] = held[t] \/ held'[t] = 0
         /\ replaced' = replaced /\ rewritten' = rewritten
BY SlotsAssumption DEF SignOut, Apply, TypeOK, ClientOK, Tab, client

\* A call that is over leaves the history as it is.
LEMMA QuitKeepsHistory ==
  ASSUME IInv, History, NEW c \in Calls, SetCall(c, Idle), UNCHANGED <<row, account, sent>>,
         SignOut(c) \/ UNCHANGED client
  PROVE  History'
<1> USE DEF IInv, History
<1>1. /\ call'[c].stage = "idle" /\ call'[c].pair = 0 /\ call'[c].old = 0
      /\ call'[c].kind = "none" /\ call'[c].live
      /\ \A x \in Calls \ {c} : call'[x] = call[x]
  BY CallEnds
<1>2. /\ stored' = stored \/ stored' = 0
      /\ \A t \in Tabs : held'[t] = held[t] \/ held'[t] = 0
      /\ replaced' = replaced /\ rewritten' = rewritten
  BY PageQuits
<1>3. \A t \in Tabs : 0 \notin replaced[t]
  BY DEF TypeOK, ClientOK, Pairs
<1>4. \A x \in Calls : Private(x) => call[x].pair # 0
  BY DEF Private, Issuance
<1>5. Lineage'
  BY <1>1, <1>2, <1>4 DEF Lineage, Private, Dead
<1>6. Loads'
  BY <1>1 DEF Loads
<1>7. Newest'
  BY <1>1, <1>2, <1>3 DEF Newest
<1>8. Presentations'
  BY <1>1 DEF Presentations, Presenting
<1>9. QED BY <1>5, <1>6, <1>7, <1>8

\* So does a call that presents the token it has, or the one its page has.
LEMMA PresentKeepsHistory ==
  ASSUME IInv, History, NEW c \in Calls, NEW p \in Pairs, Present(c, p),
         p = call[c].pair \/ p = held[Tab(c)], row[p] # "none",
         call[c].stage \in {"run", "me"}, call[c].kind # "login",
         UNCHANGED <<row, account, client>>
  PROVE  History'
<1> USE DEF IInv, History
<1>1. /\ call'[c].stage = "refresh" /\ call'[c].pair = p /\ call'[c].old = p
      /\ call'[c].kind = call[c].kind /\ call'[c].live = call[c].live
      /\ \A x \in Calls \ {c} : call'[x] = call[x]
  <2>1. call[c] \in CallType \ {Idle}
    BY DEF TypeOK, Idle
  <2>2. QED BY <2>1 DEF TypeOK, CallType, Present, SetCall
<1>2. /\ sent'[p] = sent[p] + 1 /\ sent[p] \in Nat
      /\ \A q \in Pairs \ {p} : sent'[q] = sent[q]
  BY DEF Present, TypeOK
<1>3. UNCHANGED <<stored, held, replaced, rewritten>>
  BY DEF client
<1>4. Lineage'
  <2>1. \A d \in Calls \ {c} : Private(d) => call[d].pair # p
    BY SlotsAssumption DEF Lineage, Tab
  <2>2. QED BY <1>1, <1>3, <2>1 DEF Lineage, Private, Dead
<1>5. Loads'
  BY <1>1 DEF Loads, Serving
<1>6. Newest'
  BY <1>1, <1>3 DEF Newest
<1>7. Presentations'
  <2>1. \A q \in Pairs : sent[q] \in Nat
    BY DEF TypeOK
  <2>2. ASSUME NEW q \in Pairs, q # p
        PROVE  /\ \A d \in Calls : Presenting(d, q)' => Presenting(d, q)
               /\ sent'[q] = sent[q]
    BY <1>1, <1>2, <2>2 DEF Presenting
  <2>3. \A d \in Calls \ {c} : Presenting(d, p)' => Presenting(d, p)
    BY <1>1 DEF Presenting
  <2>4. \A d \in Calls : Presenting(d, p)' => sent'[p] >= 1
    BY <1>2
  <2>5. row[p] = "revoked" => sent'[p] >= 2
    BY <1>2 DEF Presentations
  <2>6. \A d, e \in Calls : d # e /\ Presenting(d, p)' /\ Presenting(e, p)' => sent'[p] >= 2
    BY <1>2, <2>3 DEF Presentations
  <2>7. QED BY <1>2, <2>1, <2>2, <2>4, <2>5, <2>6 DEF Presentations
<1>8. QED BY <1>4, <1>5, <1>6, <1>7
\* The step of a call that is given a pair leaves it its page.
LEMMA KeepsPage ==
  ASSUME TypeOK, NEW c \in Calls, NEW stage, NEW p, call[c].stage # "idle",
         SetCall(c, [call[c] EXCEPT !.pair = p, !.stage = stage])
  PROVE  call'[c].live = call[c].live
<1>1. call[c] \in CallType \ {Idle}
  BY DEF TypeOK, Idle
<1>2. QED BY <1>1 DEF TypeOK, CallType, SetCall

\* The steps that are one of these two.
LEMMA QuitOrPresentHistory ==
  ASSUME IInv, History, NEW c \in Calls,
         \/ Deleted(c) \/ Expired(c) \/ Deny(c) \/ MeExpired(c) \/ ExpiredAgain(c)
         \/ Fail(c) /\ ~OfKind(c, {"logout"})
         \/ Served(c) /\ ~OfKind(c, {"delete"})
  PROVE  History'
<1> USE DEF server
<1>1. ASSUME SetCall(c, Idle) \/ SignOut(c), SignOut(c) \/ UNCHANGED client,
             UNCHANGED <<row, account, sent>>
      PROVE  History'
  BY <1>1, QuitKeepsHistory DEF SignOut
<1>2. ASSUME NEW p \in 0 .. MaxPairs, p # 0, Present(c, p), row[p] # "none",
             p = call[c].pair \/ p = held[Tab(c)],
             call[c].stage \in {"run", "me"}, ~OfKind(c, {"login"}), UNCHANGED client,
             UNCHANGED <<row, account>>
      PROVE  History'
  BY <1>2, PresentKeepsHistory, BoundsAssumption DEF Pairs, OfKind
<1>3. /\ held[Tab(c)] \in 0 .. MaxPairs /\ (held[Tab(c)] # 0 => row[held[Tab(c)]] # "none")
      /\ call[c].pair \in 0 .. MaxPairs /\ (call[c].pair # 0 => row[call[c].pair] # "none")
      /\ call[c].stage = "me" => call[c].pair # 0
  BY CallFields, SlotsAssumption DEF IInv, TypeOK, ClientOK, Issuance, Tab
<1>4. CASE Deleted(c)
  BY <1>1, <1>4 DEF Deleted
<1>5. CASE Expired(c)
  BY <1>1, <1>2, <1>3, <1>5 DEF Expired, At, OfKind
<1>6. CASE Deny(c)
  BY <1>1, <1>6 DEF Deny
<1>7. CASE MeExpired(c)
  BY <1>1, <1>2, <1>3, <1>7 DEF MeExpired, At, OfKind
<1>8. CASE ExpiredAgain(c)
  BY <1>1, <1>8 DEF ExpiredAgain
<1>9. CASE Fail(c) /\ ~OfKind(c, {"logout"})
  BY <1>1, <1>2, <1>3, <1>9 DEF Fail, At, OfKind
<1>10. CASE Served(c) /\ ~OfKind(c, {"delete"})
  BY <1>1, <1>10 DEF Served
<1>11. QED BY <1>4, <1>5, <1>6, <1>7, <1>8, <1>9, <1>10

\* A call that goes to another stage without handing its pair to its page.
LEMMA GoingKeepsHistory ==
  ASSUME IInv, History, NEW c \in Calls, NEW stage \in Stages, call[c].stage # "idle",
         To(c, stage), UNCHANGED <<stored, held, replaced, rewritten, sent>>,
         \A p \in Pairs : /\ row[p] # "none" <=> row'[p] # "none"
                          /\ row'[p] = "active" => row[p] = "active"
                          /\ row'[p] = "revoked" => \/ row[p] = "revoked"
                                                    \/ /\ Presenting(c, p)
                                                       /\ stage \in {"revoked", "ended"}
                          /\ row'[p] = "deleted" => ~account',
         ~account => ~account',
         \/ stage \in {"checked", "revoked"} /\ call[c].stage \in {"refresh", "checked"}
            /\ (stage = "revoked" => Dead(call[c].old)')
         \/ stage = "known" /\ call[c].stage = "me"
         \/ stage = "ended" /\ call[c].stage = "ending"
         \/ stage = "deleted" /\ call[c].live
         \/ stage = "again" /\ call[c].stage = "known" /\ call[c].kind \notin {"login", "load"}
  PROVE  History'
<1> USE DEF IInv, History
<1>1. /\ call'[c].stage = stage /\ call'[c].pair = call[c].pair /\ call'[c].old = call[c].old
      /\ call'[c].kind = call[c].kind /\ call'[c].live = call[c].live
      /\ \A x \in Calls \ {c} : call'[x] = call[x]
  BY GoesTo
<1>2. UNCHANGED <<stored, held, replaced, rewritten>>
  OBVIOUS
<1>3. \A x \in Calls : /\ call[x].pair # 0 => call[x].pair \in Pairs
                       /\ call[x].old # 0 => call[x].old \in Pairs
  BY CallPairs
<1>4. \A p \in Pairs : Dead(p) => Dead(p)'
  BY DEF Dead
<1>5. \A x \in Calls : Private(x)' => Private(x)
  BY <1>1 DEF Private
<1>6. Lineage'
  <2>1. \A x \in Calls : Private(x)' =>
           /\ call'[x].pair # call'[x].old
           /\ call'[x].pair # stored'
           /\ \A t \in Tabs : call'[x].pair # held'[t] /\ call'[x].pair \notin replaced'[t]
           /\ \A d \in Calls \ {x} : call'[x].pair # call'[d].pair /\ call'[x].pair # call'[d].old
    BY <1>1, <1>2, <1>5 DEF Lineage
  <2>2. \A x \in Calls : call'[x].stage \in {"revoked", "issued", "me", "known", "again"}
                         /\ call'[x].old # 0 => Dead(call[x].old)'
    <3>1. ASSUME NEW x \in Calls, call[x].old # 0,
                 call[x].stage \in {"revoked", "issued", "me", "known", "again"}
          PROVE  row'[call[x].old] \notin {"none", "active"}
      <4>1. call[x].old \in Pairs /\ Dead(call[x].old)
        BY <1>3, <3>1 DEF Lineage
      <4>2. QED BY <1>4, <4>1 DEF Dead
    <3>2. CASE stage = "revoked"
      BY <1>1, <3>1, <3>2 DEF Dead
    <3>3. CASE stage # "revoked"
      <4>1. stage \in {"known", "again"} => call[c].stage \in {"me", "known"}
        OBVIOUS
      <4>2. stage \notin {"issued", "me"}
        OBVIOUS
      <4>3. QED BY <1>1, <3>1, <3>3, <4>1, <4>2 DEF Dead
    <3>4. QED BY <3>2, <3>3
  <2>3. \A t \in Tabs : \A p \in replaced'[t] : Dead(p)'
    BY <1>2, <1>4 DEF Lineage, TypeOK, ClientOK
  <2>4. \A x \in Calls : call'[x].stage = "run" \/ call'[x].kind = "login" => call'[x].old = 0
    BY <1>1 DEF Lineage
  <2>5. QED BY ONLY <2>1, <2>2, <2>3, <2>4 DEF Lineage, Private, Dead
<1>7. Loads'
  BY <1>1 DEF Loads, Serving
<1>8. Newest'
  BY <1>1, <1>2 DEF Newest
<1>9. Presentations'
  <2>1. \A x \in Calls : \A p \in Pairs : Presenting(x, p)' => Presenting(x, p)
    BY <1>1 DEF Presenting
  <2>2. \A p \in Pairs : stage \in {"revoked", "ended"} => ~Presenting(c, p)'
    BY <1>1 DEF Presenting
  <2>3. ASSUME NEW p \in Pairs
        PROVE  /\ row'[p] = "revoked" => sent'[p] >= 1
               /\ row'[p] = "deleted" => ~account'
               /\ \A x \in Calls : Presenting(x, p)' =>
                    /\ sent'[p] >= 1
                    /\ row'[p] = "revoked" => sent'[p] >= 2
                    /\ \A d \in Calls \ {x} : Presenting(d, p)' => sent'[p] >= 2
    BY <2>1, <2>2 DEF Presentations
  <2>4. QED BY <2>3 DEF Presentations
<1>10. QED BY <1>6, <1>7, <1>8, <1>9
\* What a page load does to the calls.
LEMMA LoadedCalls ==
  ASSUME TypeOK, NEW c \in Calls, LoadPage(c), NEW x \in Calls
  PROVE  \/ Tab(x) # Tab(c) /\ call'[x] = call[x]
         \/ /\ call[x].stage \in Serving /\ Tab(x) = Tab(c)
            /\ call'[x].stage = call[x].stage /\ call'[x].pair = call[x].pair
            /\ call'[x].old = call[x].old /\ call'[x].kind = call[x].kind /\ ~call'[x].live
         \/ call'[x] = Idle
         \/ x = c /\ stored # 0 /\ call'[x] = NewCall("load", "me", stored)
<1>1. call[x].stage \in Serving => call[x] \in CallType \ {Idle}
  BY DEF TypeOK, Idle, Serving
<1>2. call'[x] = IF x = c /\ stored # 0 THEN NewCall("load", "me", stored)
                 ELSE IF TabOf(x) # Tab(c) THEN call[x]
                 ELSE IF call[x].stage \in Serving THEN [call[x] EXCEPT !.live = FALSE]
                 ELSE Idle
  BY DEF LoadPage
<1>3. CASE call[x].stage \in Serving /\ TabOf(x) = Tab(c) /\ ~(x = c /\ stored # 0)
  <2>1. call'[x] = [call[x] EXCEPT !.live = FALSE]
    BY <1>2, <1>3
  <2>2. QED BY <1>1, <1>3, <2>1 DEF CallType, Tab
<1>4. QED BY <1>2, <1>3 DEF Tab

\* A page load leaves the history as it is.
LEMMA LoadKeepsHistory ==
  ASSUME IInv, History, NEW c \in Calls, LoadPage(c)
  PROVE  History'
<1> USE DEF IInv, History
<1>1. UNCHANGED <<stored, replaced, rewritten, row, account, sent>>
  BY DEF LoadPage, server
<1>2. \A t \in Tabs : held'[t] = held[t] \/ held'[t] = stored
  BY SlotsAssumption DEF LoadPage, TypeOK, ClientOK
<1>3. \A x \in Calls : /\ call'[x].pair \in {call[x].pair, 0, stored}
                       /\ call'[x].old \in {call[x].old, 0}
                       /\ call'[x].stage \in {call[x].stage, "idle", "me"}
                       /\ call'[x].stage = "me" => call'[x].old = 0 \/ call'[x] = call[x]
  BY LoadedCalls DEF Idle, NewCall, Serving
<1>4. \A x \in Calls : call[x].pair \in 0 .. MaxPairs /\ (Private(x) => call[x].pair # 0)
  BY CallFields DEF Private, Issuance
<1>5. \A x \in Calls : Private(x)' => Private(x) /\ call'[x] = call[x]
  BY LoadedCalls DEF Private, Idle, NewCall, Serving
<1>6. Lineage'
  <2>1. ASSUME NEW x \in Calls, Private(x)'
        PROVE  /\ call'[x].pair # call'[x].old
               /\ call'[x].pair # stored'
               /\ \A t \in Tabs : call'[x].pair # held'[t] /\ call'[x].pair \notin replaced'[t]
               /\ \A d \in Calls \ {x} : /\ call'[x].pair # call'[d].pair
                                         /\ call'[x].pair # call'[d].old
    BY <1>1, <1>2, <1>3, <1>4, <1>5, <2>1 DEF Lineage
  <2>2. ASSUME NEW x \in Calls, call'[x].old # 0,
               call'[x].stage \in {"revoked", "issued", "me", "known", "again"}
        PROVE  Dead(call[x].old)'
    <3>1. call'[x].stage = call[x].stage /\ call'[x].old = call[x].old
      BY <2>2, LoadedCalls DEF Idle, NewCall
    <3>2. QED BY <1>1, <2>2, <3>1 DEF Lineage, Dead
  <2>3. \A t \in Tabs : \A p \in replaced'[t] : Dead(p)'
    BY <1>1 DEF Lineage, Dead
  <2>4. \A x \in Calls : call'[x].stage = "run" \/ call'[x].kind = "login" => call'[x].old = 0
    BY LoadedCalls DEF Lineage, Idle, NewCall, Serving
  <2>5. QED BY ONLY <2>1, <2>2, <2>3, <2>4 DEF Lineage, Private, Dead
<1>7. Loads'
  <2>1. ASSUME NEW x \in Calls, ~call'[x].live
        PROVE  call'[x].stage \in Serving
    BY <2>1, LoadedCalls DEF Loads, Idle, NewCall
  <2>2. ASSUME NEW x \in Calls, NEW d \in Calls \ {x}, Tab(d) = Tab(x),
               call'[x].kind = "load", call'[x].live
        PROVE  call'[d].stage = "idle" \/ ~call'[d].live \/ call'[d].kind = "login"
    <3>1. CASE Tab(x) # Tab(c)
      BY <2>2, <3>1, LoadedCalls DEF Loads, Idle, NewCall
    <3>2. CASE Tab(x) = Tab(c)
      <4>1. x = c
        BY <2>2, <3>2, LoadedCalls DEF Idle
      <4>2. QED BY <2>2, <3>2, <4>1, LoadedCalls DEF Idle
    <3>3. QED BY <3>1, <3>2
  <2>3. QED BY <2>1, <2>2 DEF Loads, Tab
<1>8. Newest'
  BY <1>1, <1>2, LoadedCalls DEF Newest, Idle, NewCall
<1>9. Presentations'
  <2>1. \A x \in Calls : \A p \in Pairs : Presenting(x, p)' => Presenting(x, p)
    BY LoadedCalls DEF Presenting, Idle, NewCall
  <2>2. QED BY <1>1, <2>1 DEF Presentations, Presenting
<1>10. QED BY <1>6, <1>7, <1>8, <1>9

\* A call that starts: a sign-in, a call with the token of the page, a sign-out.
LEMMA BeginKeepsHistory ==
  ASSUME IInv, History, NEW c \in Calls, NEW kind \in Kinds,
         NEW stage \in {"run", "ending", "ended"},
         NEW p \in {0, held[Tab(c)]}, SetCall(c, NewCall(kind, stage, p)), kind # "load",
         kind = "login" \/ ~Loading(Tab(c)), UNCHANGED <<row, account, client>>,
         \/ stage # "ending" /\ sent' = sent
         \/ sent' = [q \in Pairs |-> IF q = p THEN sent[q] + 1 ELSE sent[q]]
  PROVE  History'
<1> USE DEF IInv, History
<1>1. /\ call'[c].stage = stage /\ call'[c].pair = p /\ call'[c].old = 0
      /\ call'[c].kind = kind /\ call'[c].live
      /\ \A x \in Calls \ {c} : call'[x] = call[x]
  BY Begins
<1>2. UNCHANGED <<stored, held, replaced, rewritten>>
  BY DEF client
<1>3. \A x \in Calls : Private(x)' => Private(x) /\ x # c /\ call[x].pair # p
  BY <1>1, SlotsAssumption DEF Private, Lineage, Issuance, Tab
<1>4. \A x \in Calls : Private(x) => call[x].pair # 0
  BY DEF Private, Issuance
<1>5. Lineage'
  <2>1. ASSUME NEW x \in Calls, Private(x)'
        PROVE  /\ call'[x].pair # call'[x].old
               /\ call'[x].pair # stored'
               /\ \A t \in Tabs : call'[x].pair # held'[t] /\ call'[x].pair \notin replaced'[t]
               /\ \A d \in Calls \ {x} : /\ call'[x].pair # call'[d].pair
                                         /\ call'[x].pair # call'[d].old
    BY <1>1, <1>2, <1>3, <1>4, <2>1 DEF Lineage
  <2>2. \A x \in Calls : call'[x].stage \in {"revoked", "issued", "me", "known", "again"}
                         /\ call'[x].old # 0 => Dead(call[x].old)'
    BY <1>1 DEF Lineage, Dead
  <2>3. \A t \in Tabs : \A q \in replaced'[t] : Dead(q)'
    BY <1>2 DEF Lineage, Dead
  <2>4. \A x \in Calls : call'[x].stage = "run" \/ call'[x].kind = "login" => call'[x].old = 0
    BY <1>1 DEF Lineage
  <2>5. QED BY ONLY <2>1, <2>2, <2>3, <2>4 DEF Lineage, Private, Dead
<1>6. Loads'
  BY <1>1 DEF Loads, Loading, CallsOf, OfKind, Tab
<1>7. Newest'
  BY <1>1, <1>2 DEF Newest
<1>8. Presentations'
  <2>1. \A q \in Pairs : /\ sent[q] \in Nat /\ sent'[q] \in Nat
                         /\ sent'[q] >= sent[q]
                         /\ stage = "ending" /\ q = p => sent'[q] = sent[q] + 1
    BY DEF TypeOK
  <2>2. \A x \in Calls \ {c} : \A q \in Pairs : Presenting(x, q)' => Presenting(x, q)
    BY <1>1 DEF Presenting
  <2>3. \A q \in Pairs : Presenting(c, q)' => stage = "ending" /\ q = p
    BY <1>1 DEF Presenting
  <2>4. ASSUME NEW q \in Pairs, NEW x \in Calls, Presenting(x, q)'
        PROVE  /\ sent'[q] >= 1
               /\ row'[q] = "revoked" => sent'[q] >= 2
               /\ \A d \in Calls \ {x} : Presenting(d, q)' => sent'[q] >= 2
    <3>1. CASE x = c
      BY <2>1, <2>2, <2>3, <2>4, <3>1 DEF Presentations
    <3>2. CASE x # c
      <4>1. ASSUME Presenting(c, q)'
            PROVE  sent'[q] >= 2
        BY <2>1, <2>2, <2>3, <2>4, <3>2, <4>1 DEF Presentations
      <4>2. QED BY <2>1, <2>2, <2>4, <3>2, <4>1 DEF Presentations
    <3>3. QED BY <3>1, <3>2
  <2>5. \A q \in Pairs : /\ row'[q] = "revoked" => sent'[q] >= 1
                         /\ row'[q] = "deleted" => ~account'
    BY <2>1 DEF Presentations
  <2>6. QED BY <2>4, <2>5 DEF Presentations, Presenting
<1>9. QED BY <1>5, <1>6, <1>7, <1>8
\* The server issues a pair: nobody but the call that gets it has it.
LEMMA IssueKeepsHistory ==
  ASSUME IInv, History, NEW c \in Calls, NEW p \in Pairs, row[p] = "none",
         row' = [row EXCEPT ![p] = "active"],
         UNCHANGED <<account, sent, stored, held, replaced, rewritten>>,
         \/ /\ SetCall(c, [call[c] EXCEPT !.pair = p, !.stage = "me"])
            /\ call[c].stage = "run" /\ call[c].kind = "login"
         \/ /\ SetCall(c, [call[c] EXCEPT !.pair = p, !.stage = "issued"])
            /\ call[c].stage = "revoked" /\ call[c].live
         \/ SetCall(c, Idle)
  PROVE  History'
<1> USE DEF IInv, History
<1>1. PICK stage \in {"me", "issued", "idle"} :
        /\ call'[c].stage = stage
        /\ stage # "idle" => call'[c].pair = p /\ call'[c].old = call[c].old
        /\ stage = "idle" => call'[c].pair = 0 /\ call'[c].old = 0 /\ call'[c].kind = "none"
        /\ stage = "me" => /\ call'[c].kind = "login" /\ call[c].stage = "run"
        /\ stage = "issued" => /\ call'[c].kind = call[c].kind /\ call[c].stage = "revoked"
                               /\ call[c].live
        /\ call'[c].live
        /\ \A x \in Calls \ {c} : call'[x] = call[x]
  <2>1. CASE SetCall(c, Idle)
    BY <2>1, CallEnds
  <2>2. CASE /\ SetCall(c, [call[c] EXCEPT !.pair = p, !.stage = "me"])
             /\ call[c].stage = "run" /\ call[c].kind = "login"
    <3>1. call'[c].live = call[c].live /\ call[c].live
      BY <2>2, KeepsPage DEF Loads, Serving
    <3>2. QED BY <2>2, <3>1, GoesToPair
  <2>3. CASE /\ SetCall(c, [call[c] EXCEPT !.pair = p, !.stage = "issued"])
             /\ call[c].stage = "revoked" /\ call[c].live
    <3>1. call'[c].live = call[c].live
      BY <2>3, KeepsPage
    <3>2. QED BY <2>3, <3>1, GoesToPair
  <2>4. QED BY <2>1, <2>2, <2>3
<1>2. /\ \A q \in Pairs \ {p} : row'[q] = row[q]
      /\ row'[p] = "active" /\ p # 0
  BY DEF TypeOK, ServerOK, Pairs
<1>3. \A q \in Pairs : Dead(q) => Dead(q)' /\ q # p
  BY <1>2 DEF Dead
<1>4. /\ stored # p
      /\ \A t \in Tabs : held[t] # p /\ p \notin replaced[t]
      /\ \A x \in Calls : call[x].pair # p /\ call[x].old # p
  BY <1>2 DEF Issuance, Lineage, Dead
<1>5. \A x \in Calls : /\ call[x].pair # 0 => call[x].pair \in Pairs
                       /\ call[x].old # 0 => call[x].old \in Pairs
                       /\ Private(x) => call[x].pair # 0
  BY CallPairs DEF Private, Issuance
<1>6. \A x \in Calls \ {c} : Private(x)' => Private(x)
  BY <1>1 DEF Private
<1>7. Lineage'
  <2>1. ASSUME NEW x \in Calls, Private(x)'
        PROVE  /\ call'[x].pair # call'[x].old
               /\ call'[x].pair # stored'
               /\ \A t \in Tabs : call'[x].pair # held'[t] /\ call'[x].pair \notin replaced'[t]
               /\ \A d \in Calls \ {x} : /\ call'[x].pair # call'[d].pair
                                         /\ call'[x].pair # call'[d].old
    <3>1. CASE x = c
      BY <1>1, <1>4, <2>1, <3>1 DEF Private
    <3>2. CASE x # c
      <4>1. Private(x) /\ call'[x] = call[x] /\ call[x].pair # p /\ call[x].pair # 0
        BY <1>1, <1>4, <1>5, <1>6, <2>1, <3>2
      <4>2. \A d \in Calls \ {x} : /\ call'[d].pair \in {call[d].pair, p, 0}
                                   /\ call'[d].old \in {call[d].old, 0}
        BY <1>1
      <4>3. QED BY <4>1, <4>2 DEF Lineage
    <3>3. QED BY <3>1, <3>2
  <2>2. ASSUME NEW x \in Calls, call'[x].old # 0,
               call'[x].stage \in {"revoked", "issued", "me", "known", "again"}
        PROVE  Dead(call[x].old)'
    <3>1. call'[x].old = call[x].old /\ Dead(call[x].old)
      BY <1>1, <2>2 DEF Lineage
    <3>2. QED BY <1>3, <1>5, <2>2, <3>1 DEF Dead
  <2>3. \A t \in Tabs : \A q \in replaced'[t] : Dead(q)'
    BY <1>3 DEF Lineage, TypeOK, ClientOK, Dead
  <2>4. \A x \in Calls : call'[x].stage = "run" \/ call'[x].kind = "login" => call'[x].old = 0
    BY <1>1 DEF Lineage
  <2>5. QED BY ONLY <2>1, <2>2, <2>3, <2>4 DEF Lineage, Private, Dead
<1>8. Loads'
  BY <1>1 DEF Loads, Serving
<1>9. Newest'
  BY <1>1 DEF Newest
<1>10. Presentations'
  <2>1. \A x \in Calls : \A q \in Pairs : Presenting(x, q)' => Presenting(x, q)
    BY <1>1 DEF Presenting
  <2>2. \A q \in Pairs : row'[q] \in {"revoked", "deleted"} => row'[q] = row[q]
    BY <1>2
  <2>3. QED BY <2>1, <2>2 DEF Presentations, Presenting
<1>11. QED BY <1>7, <1>8, <1>9, <1>10
\* The answer of a refresh reaches the page: the call or, once the user is
\* known, the page load hands over the pair that only it has had.
LEMMA RotatedKeepsHistory ==
  ASSUME IInv, History, NEW c \in Calls, Rotated(c)
  PROVE  History'
<1> USE DEF IInv, History
<1>1. /\ call'[c].stage = "me" /\ call'[c].pair = call[c].pair /\ call'[c].old = call[c].old
      /\ call'[c].kind = call[c].kind /\ call'[c].live = call[c].live
      /\ \A x \in Calls \ {c} : call'[x] = call[x]
  BY GoesTo DEF Rotated, At
<1>2. UNCHANGED <<row, account, sent, rewritten>> /\ call[c].stage = "issued"
  BY DEF Rotated, At, server
<1>3. /\ Private(c) /\ call[c].pair \in Pairs /\ call[c].pair # 0 /\ call[c].old # 0
      /\ Dead(call[c].old) /\ call[c].live
  BY <1>2, CallPairs DEF Private, Issuance, Lineage, Loads, Serving
<1>4. CASE OfKind(c, {"load"})
  <2>1. UNCHANGED <<stored, held, replaced>> /\ call[c].kind = "load"
    BY <1>4 DEF Rotated, OfKind
  <2>2. \A x \in Calls : Private(x)' => Private(x)
    BY <1>1, <1>2 DEF Private
  <2>3. Lineage'
    BY <1>1, <1>2, <1>3, <2>1, <2>2 DEF Lineage, Dead, Private
  <2>4. Loads'
    BY <1>1, <1>2 DEF Loads, Serving
  <2>5. Newest'
    BY <1>1, <1>2, <1>3, <2>1 DEF Newest
  <2>6. Presentations'
    BY <1>1, <1>2 DEF Presentations, Presenting
  <2>7. QED BY <2>3, <2>4, <2>5, <2>6
<1>5. CASE ~OfKind(c, {"load"})
  <2>1. /\ stored' = call[c].pair /\ held' = [held EXCEPT ![Tab(c)] = call[c].pair]
        /\ replaced' = [replaced EXCEPT ![Tab(c)] = @ \cup {call[c].old}]
        /\ call[c].kind # "load"
    BY <1>5 DEF Rotated, OfKind, Apply
  <2>2. /\ Tab(c) \in Tabs
        /\ \A t \in Tabs : /\ held'[t] \in {held[t], call[c].pair}
                           /\ t # Tab(c) => replaced'[t] = replaced[t]
        /\ held'[Tab(c)] = call[c].pair
        /\ replaced'[Tab(c)] = replaced[Tab(c)] \cup {call[c].old}
    BY <2>1, SlotsAssumption DEF TypeOK, ClientOK, Tab
  <2>3. \A x \in Calls : x # c /\ Private(x)' => Private(x)
    BY <1>1 DEF Private
  <2>4. ~OfKind(c, {"login"}) => ~Private(c)'
    BY <1>1, <2>1 DEF Private, OfKind
  <2>5. Lineage'
    <3>1. \A x \in Calls : Private(x)' => Private(x) /\ x # c
      BY <1>1, <1>3, <2>1, <2>3, <2>4 DEF Lineage, Private, OfKind
    <3>2. ASSUME NEW x \in Calls, Private(x)'
          PROVE  /\ call'[x].pair # call'[x].old
                 /\ call'[x].pair # stored'
                 /\ \A t \in Tabs : call'[x].pair # held'[t] /\ call'[x].pair \notin replaced'[t]
                 /\ \A d \in Calls \ {x} : /\ call'[x].pair # call'[d].pair
                                           /\ call'[x].pair # call'[d].old
      BY <1>1, <1>2, <1>3, <2>1, <2>2, <3>1, <3>2 DEF Lineage
    <3>3. \A x \in Calls : call'[x].stage \in {"revoked", "issued", "me", "known", "again"}
                           /\ call'[x].old # 0 => Dead(call[x].old)'
      BY <1>1, <1>2, <1>3 DEF Lineage, Dead
    <3>4. \A t \in Tabs : \A q \in replaced'[t] : Dead(q)'
      BY <1>2, <1>3, <2>1, <2>2 DEF Lineage, Dead
    <3>5. \A x \in Calls : call'[x].stage = "run" \/ call'[x].kind = "login" => call'[x].old = 0
      BY <1>1 DEF Lineage
    <3>6. QED BY ONLY <3>2, <3>3, <3>4, <3>5 DEF Lineage, Private, Dead
  <2>6. Loads'
    BY <1>1, <1>2 DEF Loads, Serving
  <2>7. Newest'
    <3>1. ASSUME NEW t \in Tabs
          PROVE  /\ stored' \notin replaced'[t] \ rewritten'
                 /\ held'[t] \notin replaced'[t] \ rewritten'
      BY <1>1, <1>2, <1>3, <2>1, <2>2 DEF Newest, Lineage
    <3>2. ASSUME NEW t \in Tabs, NEW x \in Calls, Tab(x) = t,
                 call'[x].kind = "load", call'[x].stage = "me", call'[x].old = 0
          PROVE  call'[x].pair \notin replaced'[t] \ rewritten'
      <4>1. x # c /\ call'[x] = call[x]
        BY <1>1, <1>3, <3>2
      <4>2. t # Tab(c)
        <5>1. call[x].live /\ call[c].stage # "idle" /\ call[c].kind # "login"
          BY <1>2, <1>3, <3>2, <4>1 DEF Loads, Serving, Lineage
        <5>2. QED BY <1>3, <3>2, <4>1, <5>1 DEF Loads
      <4>3. QED BY <1>2, <2>2, <3>2, <4>1, <4>2 DEF Newest
    <3>3. QED BY <3>1, <3>2 DEF Newest, Tab
  <2>8. Presentations'
    BY <1>1, <1>2 DEF Presentations, Presenting
  <2>9. QED BY <2>5, <2>6, <2>7, <2>8
<1>6. QED BY <1>4, <1>5
\* The user of a sign-in or of a page load is known: its pair is kept, which
\* another page may have replaced if a page load has it from localStorage.
LEMMA KnownKeepsHistory ==
  ASSUME IInv, History, NEW c \in Calls, Known(c), OfKind(c, {"login", "load"})
  PROVE  History'
<1> USE DEF IInv, History
<1>1. /\ call'[c].stage = "idle" /\ call'[c].pair = 0 /\ call'[c].old = 0
      /\ call'[c].kind = "none" /\ call'[c].live
      /\ \A x \in Calls \ {c} : call'[x] = call[x]
  BY CallEnds DEF Known
<1>2. UNCHANGED <<row, account, sent>> /\ call[c].stage = "known"
  BY DEF Known, At, server
<1>3. /\ Tab(c) \in Tabs
      /\ stored' = call[c].pair /\ held'[Tab(c)] = call[c].pair
      /\ replaced'[Tab(c)] = replaced[Tab(c)] \cup ({call[c].old} \ {0})
      /\ \A t \in Tabs \ {Tab(c)} : held'[t] = held[t] /\ replaced'[t] = replaced[t]
  BY SlotsAssumption DEF Known, Apply, Tab, TypeOK, ClientOK
<1>4. /\ rewritten \subseteq rewritten'
      /\ stored # call[c].pair /\ row[call[c].pair] # "active" => call[c].pair \in rewritten'
  BY DEF Known
<1>5. /\ call[c].pair # 0 /\ call[c].live /\ call[c].kind \in {"login", "load"}
      /\ call[c].old # 0 => Private(c) /\ Dead(call[c].old)
      /\ call[c].kind = "login" => Private(c)
  BY <1>2 DEF Issuance, Loads, Serving, Private, Lineage, OfKind
<1>6. \A x \in Calls : Private(x)' => Private(x) /\ x # c
  BY <1>1 DEF Private
<1>7. Lineage'
  <2>1. ASSUME NEW x \in Calls, Private(x)'
        PROVE  /\ call'[x].pair # call'[x].old
               /\ call'[x].pair # stored'
               /\ \A t \in Tabs : call'[x].pair # held'[t] /\ call'[x].pair \notin replaced'[t]
               /\ \A d \in Calls \ {x} : /\ call'[x].pair # call'[d].pair
                                         /\ call'[x].pair # call'[d].old
    <3>1. /\ Private(x) /\ x # c /\ call'[x] = call[x] /\ call[x].pair # 0
          /\ call[x].pair # call[c].pair /\ call[x].pair # call[c].old
      BY <1>1, <1>6, <2>1 DEF Lineage, Private, Issuance
    <3>2. \A t \in Tabs : /\ held'[t] \in {held[t], call[c].pair}
                          /\ replaced'[t] \subseteq replaced[t] \cup {call[c].old}
      BY <1>3
    <3>3. QED BY <1>1, <1>3, <3>1, <3>2 DEF Lineage
  <2>2. \A x \in Calls : call'[x].stage \in {"revoked", "issued", "me", "known", "again"}
                         /\ call'[x].old # 0 => Dead(call[x].old)'
    BY <1>1, <1>2 DEF Lineage, Dead
  <2>3. \A t \in Tabs : \A q \in replaced'[t] : Dead(q)'
    BY <1>2, <1>3, <1>5 DEF Lineage, Dead
  <2>4. \A x \in Calls : call'[x].stage = "run" \/ call'[x].kind = "login" => call'[x].old = 0
    BY <1>1 DEF Lineage
  <2>5. QED BY ONLY <2>1, <2>2, <2>3, <2>4 DEF Lineage, Private, Dead
<1>8. Loads'
  BY <1>1 DEF Loads, Serving
<1>9. Newest'
  <2>1. \A t \in Tabs : call[c].pair \notin replaced'[t] \ rewritten'
    <3>1. CASE Private(c)
      BY <1>3, <3>1 DEF Lineage
    <3>2. CASE ~Private(c)
      <4>1. call[c].old = 0 /\ \A t \in Tabs : replaced'[t] = replaced[t]
        BY <1>3, <1>5, <3>2
      <4>2. \A t \in Tabs : call[c].pair \in replaced[t] => row[call[c].pair] # "active"
        BY DEF Lineage, Dead
      <4>3. QED BY <1>4, <4>1, <4>2 DEF Newest
    <3>3. QED BY <3>1, <3>2
  <2>2. \A t \in Tabs : held'[t] \notin replaced'[t] \ rewritten'
    BY <1>3, <1>4, <2>1 DEF Newest
  <2>3. ASSUME NEW t \in Tabs, NEW x \in Calls, Tab(x) = t,
               call'[x].kind = "load", call'[x].stage = "me", call'[x].old = 0
        PROVE  call'[x].pair \notin replaced'[t] \ rewritten'
    <3>1. x # c /\ call'[x] = call[x]
      BY <1>1, <2>3
    <3>2. CASE t # Tab(c)
      BY <1>3, <1>4, <2>3, <3>1, <3>2 DEF Newest
    <3>3. CASE t = Tab(c)
      <4>1. call[x].live /\ call[c].stage # "idle"
        BY <1>2, <2>3, <3>1 DEF Loads, Serving
      <4>2. call[c].kind = "login" /\ call[c].old = 0
        BY <1>5, <2>3, <3>1, <3>3, <4>1 DEF Loads, Lineage
      <4>3. replaced'[t] = replaced[t]
        BY <1>3, <3>3, <4>2
      <4>4. QED BY <1>4, <2>3, <3>1, <4>3 DEF Newest
    <3>4. QED BY <3>2, <3>3
  <2>4. QED BY <1>3, <2>1, <2>2, <2>3 DEF Newest, Tab
<1>10. Presentations'
  BY <1>1, <1>2 DEF Presentations, Presenting
<1>11. QED BY <1>7, <1>8, <1>9, <1>10

\* A request to sign out that fails has presented its token all the same.
LEMMA FailedSignOutKeepsHistory ==
  ASSUME IInv, History, NEW c \in Calls, Fail(c), OfKind(c, {"logout"})
  PROVE  History'
<1> USE DEF IInv, History
<1>1. /\ SetCall(c, [call[c] EXCEPT !.stage = "ended", !.pair = 0])
      /\ UNCHANGED <<row, account, sent, stored, held, replaced, rewritten>>
  BY DEF Fail, OfKind, server, client
<1>2. call[c] \in CallType \ {Idle} /\ call[c].live /\ call[c].kind = "logout"
  BY DEF Fail, At, Idle, TypeOK, OfKind
<1>3. /\ call'[c].stage = "ended" /\ call'[c].pair = 0 /\ call'[c].old = call[c].old
      /\ call'[c].kind = call[c].kind /\ call'[c].live = call[c].live
      /\ \A x \in Calls \ {c} : call'[x] = call[x]
  BY <1>1, <1>2 DEF CallType, SetCall, TypeOK
<1>4. \A x \in Calls : Private(x)' => Private(x) /\ x # c /\ call[x].pair # 0
  BY <1>3 DEF Private, Issuance
<1>5. Lineage'
  BY <1>1, <1>3, <1>4 DEF Lineage, Dead, Private
<1>6. Loads'
  <2>1. call[c].stage # "idle"
    BY DEF Fail, At
  <2>2. \A x \in Calls : call[x].kind = "load" /\ call[x].live => Tab(x) # Tab(c)
    BY <1>2, <2>1 DEF Loads
  <2>3. QED BY <1>2, <1>3, <2>2 DEF Loads, Tab
<1>7. Newest'
  BY <1>1, <1>3 DEF Newest
<1>8. Presentations'
  BY <1>1, <1>3 DEF Presentations, Presenting
<1>9. QED BY <1>5, <1>6, <1>7, <1>8
\* Every step of a call keeps the history.
LEMMA HistoryStep ==
  ASSUME IInv, History, NEW c \in Calls, Step(c)
  PROVE  History'
<1>1. CASE \/ Deleted(c) \/ Expired(c) \/ Deny(c) \/ MeExpired(c) \/ ExpiredAgain(c)
           \/ Fail(c) /\ ~OfKind(c, {"logout"})
           \/ Served(c) /\ ~OfKind(c, {"delete"})
  BY <1>1, QuitOrPresentHistory
<1>2. CASE LoadPage(c)
  BY <1>2, LoadKeepsHistory
<1>3. CASE SignIn(c)
  <2>1. /\ SetCall(c, NewCall("login", "run", 0)) /\ sent' = sent
        /\ UNCHANGED <<row, account, client>>
    BY <1>3 DEF SignIn, server
  <2>2. QED BY <2>1, BeginKeepsHistory DEF Kinds
<1>4. CASE ServeLogin(c)
  <2>1. /\ UNCHANGED <<account, sent, stored, held, replaced, rewritten>>
        /\ call[c].stage = "run" /\ call[c].kind = "login"
    BY <1>4 DEF ServeLogin, client, At, OfKind
  <2>2. PICK p \in Pairs : /\ row[p] = "none" /\ row' = [row EXCEPT ![p] = "active"]
                           /\ SetCall(c, [call[c] EXCEPT !.pair = p, !.stage = "me"])
    BY <1>4 DEF ServeLogin, NextPair, Issued
  <2>3. QED BY <2>1, <2>2, IssueKeepsHistory
<1>5. CASE StartApi(c, "api") \/ StartApi(c, "delete")
  <2>1. PICK kind \in {"api", "delete"} : SetCall(c, NewCall(kind, "run", held[Tab(c)]))
    BY <1>5 DEF StartApi
  <2>2. ~Loading(Tab(c)) /\ sent' = sent /\ UNCHANGED <<row, account, client>>
    BY <1>5 DEF StartApi, server
  <2>3. QED BY <2>1, <2>2, BeginKeepsHistory DEF Kinds
<1>6. CASE Served(c) /\ OfKind(c, {"delete"})
  <2>1. \A p \in Pairs : row'[p] # "active" /\ (row'[p] = "none" <=> row[p] = "none")
    BY <1>6, DeletedRows DEF IInv
  <2>2. To(c, "deleted") /\ call[c].stage \in {"run", "again"} /\ account' = FALSE
    BY <1>6 DEF Served
  <2>3. UNCHANGED <<stored, held, replaced, rewritten, sent>>
    BY <1>6 DEF Served, client
  <2>4. \A p \in Pairs : row'[p] # "revoked"
    BY <1>6 DEF Served
  <2>5. call[c].live
    BY <2>2 DEF History, Loads, Serving
  <2>6. QED BY <2>1, <2>2, <2>3, <2>4, <2>5, GoingKeepsHistory DEF Stages
<1>7. CASE Check(c)
  <2>1. /\ To(c, "checked") /\ call[c].stage = "refresh"
        /\ UNCHANGED <<row, account, stored, held, replaced, rewritten, sent>>
    BY <1>7 DEF Check, At, client
  <2>2. \A p \in Pairs : row[p] = "deleted" => ~account
    BY DEF History, Presentations
  <2>3. QED BY <2>1, <2>2, GoingKeepsHistory DEF Stages, Serving
<1>8. CASE Revoke(c)
  <2>1. /\ To(c, "revoked") /\ call[c].stage = "checked"
        /\ row' = [row EXCEPT ![call[c].pair] = "revoked"]
        /\ UNCHANGED <<account, stored, held, replaced, rewritten, sent>>
    BY <1>8 DEF Revoke, At, client
  <2>2. /\ call[c].pair = call[c].old /\ call[c].old \in Pairs
        /\ row[call[c].pair] # "none" /\ Presenting(c, call[c].pair)
    BY <2>1, CallPairs DEF IInv, Issuance, Serving, Presenting
  <2>3. \A p \in Pairs : row[p] = "deleted" => ~account
    BY DEF History, Presentations
  <2>4. row'[call[c].pair] = "revoked" /\ \A p \in Pairs \ {call[c].pair} : row'[p] = row[p]
    BY <2>1, <2>2 DEF IInv, TypeOK, ServerOK
  <2>5. Dead(call[c].old)'
    BY <2>1, <2>2, <2>4, GoesTo DEF Dead, IInv
  <2>6. QED BY <2>1, <2>2, <2>3, <2>4, <2>5, GoingKeepsHistory DEF Stages, Serving
<1>9. CASE Issue(c)
  <2>1. /\ UNCHANGED <<account, sent, stored, held, replaced, rewritten>>
        /\ call[c].stage = "revoked"
    BY <1>9 DEF Issue, client, At
  <2>2. PICK p \in Pairs : /\ row[p] = "none" /\ row' = [row EXCEPT ![p] = "active"]
                           /\ \/ /\ SetCall(c, [call[c] EXCEPT !.pair = p, !.stage = "issued"])
                                 /\ call[c].live
                              \/ SetCall(c, Idle)
    BY <1>9 DEF Issue, NextPair, Issued
  <2>3. QED BY <2>1, <2>2, IssueKeepsHistory
<1>10. CASE Rotated(c)
  BY <1>10, RotatedKeepsHistory
<1>11. CASE Me(c)
  <2>1. /\ To(c, "known") /\ call[c].stage = "me"
        /\ UNCHANGED <<row, account, stored, held, replaced, rewritten, sent>>
    BY <1>11 DEF Me, At, client, server
  <2>2. \A p \in Pairs : row[p] = "deleted" => ~account
    BY DEF History, Presentations
  <2>3. QED BY <2>1, <2>2, GoingKeepsHistory DEF Stages
<1>12. CASE Known(c) /\ OfKind(c, {"login", "load"})
  BY <1>12, KnownKeepsHistory
<1>13. CASE Known(c) /\ ~OfKind(c, {"login", "load"})
  <2>1. /\ To(c, "again") /\ call[c].stage = "known" /\ call[c].kind \notin {"login", "load"}
        /\ UNCHANGED <<row, account, stored, held, replaced, rewritten, sent>>
    BY <1>13 DEF Known, At, server, OfKind
  <2>2. \A p \in Pairs : row[p] = "deleted" => ~account
    BY DEF History, Presentations
  <2>3. QED BY <2>1, <2>2, GoingKeepsHistory DEF Stages
<1>14. CASE Logout(c)
  <2>1. PICK stage \in {"ending", "ended"} : SetCall(c, NewCall("logout", stage, held[Tab(c)]))
    BY <1>14 DEF Logout
  <2>2. /\ ~Loading(Tab(c)) /\ UNCHANGED <<row, account, client>>
        /\ sent' = [p \in Pairs |-> IF p = held[Tab(c)] THEN sent[p] + 1 ELSE sent[p]]
    BY <1>14 DEF Logout, server
  <2>3. QED BY <2>1, <2>2, BeginKeepsHistory DEF Kinds
<1>15. CASE ServeLogout(c)
  <2>1. /\ To(c, "ended") /\ call[c].stage = "ending"
        /\ row' = [row EXCEPT ![call[c].pair] = IF @ = "active" THEN "revoked" ELSE @]
        /\ UNCHANGED <<account, stored, held, replaced, rewritten, sent>>
    BY <1>15 DEF ServeLogout, At, client
  <2>2. call[c].pair \in Pairs /\ Presenting(c, call[c].pair)
    BY <2>1, CallPairs DEF IInv, Issuance, Presenting
  <2>3. \A p \in Pairs : row[p] = "deleted" => ~account
    BY DEF History, Presentations
  <2>4. /\ \A p \in Pairs \ {call[c].pair} : row'[p] = row[p]
        /\ row'[call[c].pair] =
             IF row[call[c].pair] = "active" THEN "revoked" ELSE row[call[c].pair]
    BY <2>1, <2>2 DEF IInv, TypeOK, ServerOK
  <2>5. QED BY <2>1, <2>2, <2>3, <2>4, GoingKeepsHistory DEF Stages
<1>16. CASE EndLogout(c)
  <2>1. SignOut(c) /\ UNCHANGED <<row, account, sent>>
    BY <1>16 DEF EndLogout, server
  <2>2. QED BY <2>1, QuitKeepsHistory DEF SignOut
<1>17. CASE Fail(c) /\ OfKind(c, {"logout"})
  BY <1>17, FailedSignOutKeepsHistory
<1>18. QED BY <1>1, <1>2, <1>3, <1>4, <1>5, <1>6, <1>7, <1>8, <1>9, <1>10, <1>11, <1>12, <1>13,
              <1>14, <1>15, <1>16, <1>17 DEF Step, Login, VerifyEmail

LEMMA HistoryInit == Init => History
<1> SUFFICES ASSUME Init PROVE History
  OBVIOUS
<1> USE DEF Init, Idle
<1>1. Lineage
  BY DEF Lineage, Private
<1>2. Loads
  BY DEF Loads
<1>3. Newest
  BY DEF Newest
<1>4. Presentations
  BY DEF Presentations, Presenting
<1>5. QED BY <1>1, <1>2, <1>3, <1>4 DEF History

\* The history is kept whatever happens.
LEMMA HistoryKept == IInv /\ History /\ [Next]_vars => History'
<1> SUFFICES ASSUME IInv, History, [Next]_vars PROVE History'
  OBVIOUS
<1>1. ASSUME NEW c \in Calls, Step(c) PROVE History'
  BY <1>1, HistoryStep
<1>2. ASSUME NEW p \in Pairs, ExpireAccess(p) \/ ExpireRefresh(p) PROVE History'
  <2>1. /\ UNCHANGED <<account, stored, held, replaced, rewritten, call, sent>>
        /\ \A q \in Pairs : row'[q] = row[q] \/ (row[q] = "active" /\ row'[q] = "expired")
    BY <1>2 DEF ExpireAccess, ExpireRefresh, client, IInv, TypeOK, ServerOK
  <2>2. \A q \in Pairs : Dead(q) => Dead(q)'
    BY <2>1 DEF Dead
  <2>3. \A x \in Calls : call[x].old # 0 => call[x].old \in Pairs
    BY CallPairs DEF IInv
  <2>4. Lineage'
    BY <2>1, <2>2, <2>3 DEF History, Lineage, Private, Dead, IInv, TypeOK, ClientOK
  <2>5. Loads' /\ Newest'
    BY <2>1 DEF History, Loads, Newest
  <2>6. Presentations'
    BY <2>1 DEF History, Presentations, Presenting
  <2>7. QED BY <2>4, <2>5, <2>6 DEF History
<1>3. CASE UNCHANGED vars
  BY <1>3 DEF vars, server, client, History, Lineage, Private, Dead, Loads, Newest,
              Presentations, Presenting
<1>4. QED BY <1>1, <1>2, <1>3 DEF Next

\* A request presents the token of its page, or the one a page load has read.
LEMMA PresentsStep ==
  ASSUME IInv, History, NEW c \in Calls, Step(c), sent' # sent, NEW d \in Calls,
         call'[d] # call[d]
  PROVE  call'[d].old \notin replaced[Tab(d)] \ rewritten
<1> USE DEF IInv, History
<1>1. \A t \in Tabs : 0 \notin replaced[t]
  BY DEF TypeOK, ClientOK, Pairs
<1>2. ASSUME NEW p \in 0 .. MaxPairs, Present(c, p), call[c].stage # "idle",
             p = held[Tab(c)] \/ (p = call[c].pair /\ call[c].kind = "load"
                                  /\ call[c].stage = "me" /\ call[c].old = 0)
      PROVE  call'[d].old \notin replaced[Tab(d)] \ rewritten
  <2>1. d = c /\ call'[c].old = p
    <3>1. call[c] \in CallType \ {Idle}
      BY <1>2 DEF TypeOK, Idle
    <3>2. QED BY <1>2, <3>1 DEF TypeOK, CallType, Present, SetCall
  <2>2. QED BY <1>2, <2>1, SlotsAssumption DEF Newest, Tab
<1>3. held[Tab(c)] \in 0 .. MaxPairs /\ call[c].pair \in 0 .. MaxPairs
  BY CallFields, SlotsAssumption DEF TypeOK, ClientOK, Tab
<1>4. CASE Expired(c)
  BY <1>2, <1>3, <1>4 DEF Expired, At
<1>5. CASE MeExpired(c)
  BY <1>2, <1>3, <1>5 DEF MeExpired, At, OfKind, Issuance
<1>6. CASE Fail(c)
  BY <1>2, <1>3, <1>6 DEF Fail, At, OfKind, Issuance
<1>7. CASE Logout(c)
  <2>1. d = c /\ call'[c].old = 0
    BY <1>7, Begins DEF Logout
  <2>2. QED BY <1>1, <2>1, SlotsAssumption DEF Tab
<1>8. CASE \/ LoadPage(c) \/ SignIn(c) \/ ServeLogin(c) \/ StartApi(c, "api")
           \/ StartApi(c, "delete") \/ Served(c) \/ Deleted(c) \/ Check(c) \/ Revoke(c)
           \/ Issue(c) \/ Deny(c) \/ Rotated(c) \/ Me(c) \/ Known(c) \/ ExpiredAgain(c)
           \/ ServeLogout(c) \/ EndLogout(c)
  BY <1>8 DEF LoadPage, SignIn, ServeLogin, StartApi, Served, Deleted, Check, Revoke, Issue, Deny,
              Rotated, Me, Known, ExpiredAgain, ServeLogout, EndLogout
<1>9. QED BY <1>4, <1>5, <1>6, <1>7, <1>8 DEF Step, Login, VerifyEmail

\* The browser's session, and what may end it.
Explained(c) ==
  \/ call[c].stage \in {"deleted", "ended"}
  \/ ~account \/ moves' # moves
  \/ call[c].stage = "refresh" /\ row[call[c].pair] = "expired"
  \/ call[c].stage \in {"me", "again"} /\ call[c].pair \notin fresh
  \/ call[c].stage = "run" /\ held[Tab(c)] = 0
  \/ call[c].stage = "refresh" /\ sent[call[c].pair] > 1

LEMMA LossStep ==
  ASSUME IInv, History, NEW c \in Calls, Step(c), stored # 0, stored' = 0
  PROVE  call'[c] # call[c] /\ Explained(c)
<1> USE DEF IInv, History
<1>1. ASSUME SignOut(c), call[c].stage # "idle"
      PROVE  call'[c] # call[c]
  BY <1>1, CallEnds DEF SignOut
<1>2. CASE Deleted(c)
  BY <1>1, <1>2 DEF Deleted, At, Explained
<1>3. CASE Expired(c)
  BY <1>1, <1>3 DEF Expired, At, Explained, client
<1>4. CASE Deny(c)
  <2>1. SignOut(c)
    BY <1>4 DEF Deny, client
  <2>2. CASE ~account
    BY <1>1, <1>4, <2>1, <2>2 DEF Deny, At, Explained
  <2>3. CASE account
    <3>1. call[c].stage = "refresh" /\ row[call[c].pair] # "active"
      BY <1>4, <2>3 DEF Deny, At
    <3>2. /\ call[c].pair \in Pairs /\ call[c].old = call[c].pair
          /\ row[call[c].pair] \in {"revoked", "expired"}
      BY <2>3, <3>1, CallPairs DEF Issuance, Serving, Presentations, TypeOK, ServerOK
    <3>3. row[call[c].pair] = "revoked" => sent[call[c].pair] >= 2
      BY <3>1, <3>2 DEF Presentations, Presenting
    <3>4. sent[call[c].pair] \in Nat
      BY <3>2 DEF TypeOK
    <3>5. Explained(c)
      BY <3>1, <3>2, <3>3, <3>4 DEF Explained
    <3>6. QED BY <1>1, <2>1, <3>1, <3>5
  <2>4. QED BY <2>2, <2>3
<1>5. CASE MeExpired(c)
  BY <1>1, <1>5 DEF MeExpired, At, Authorised, Explained, client
<1>6. CASE ExpiredAgain(c)
  BY <1>1, <1>6 DEF ExpiredAgain, At, Authorised, Explained
<1>7. CASE EndLogout(c)
  BY <1>1, <1>7 DEF EndLogout, At, Explained
<1>8. CASE Fail(c)
  <2>1. SignOut(c) /\ call[c].stage # "idle" /\ moves' = moves + 1
    BY <1>8 DEF Fail, At, Move, client
  <2>2. moves' # moves
    BY <2>1 DEF TypeOK
  <2>3. QED BY <1>1, <2>1, <2>2 DEF Explained
<1>9. CASE Rotated(c) \/ Known(c)
  BY <1>9 DEF Rotated, Known, Apply, At, Issuance
<1>10. CASE \/ LoadPage(c) \/ SignIn(c) \/ ServeLogin(c) \/ StartApi(c, "api")
            \/ StartApi(c, "delete") \/ Served(c) \/ Check(c) \/ Revoke(c) \/ Issue(c)
            \/ Me(c) \/ Logout(c) \/ ServeLogout(c)
  BY <1>10 DEF LoadPage, SignIn, ServeLogin, StartApi, Served, Check, Revoke, Issue, Me, Logout,
               ServeLogout, client
<1>11. QED BY <1>2, <1>3, <1>4, <1>5, <1>6, <1>7, <1>8, <1>9, <1>10 DEF Step, Login, VerifyEmail
-----------------------------------------------------------------------------
\* Every variable keeps its type.
THEOREM TypeCorrect == Spec => []TypeOK
<1>1. IInv => TypeOK
  BY DEF IInv
<1>2. QED BY <1>1, InvInit, InvStep, PTL DEF Spec

\* auth.py, refresh: whichever pages and calls present it, a refresh token that
\* no two requests have found active together is exchanged at most once.
THEOREM ExchangedOnce == Spec => []RotatedOnce
<1>1. IInv => RotatedOnce
  BY DEF IInv, Exchange, RotatedOnce
<1>2. QED BY <1>1, InvInit, InvStep, PTL DEF Spec

\* auth.py, logout and AuthContext.tsx: after an undisturbed sign-out neither
\* the browser nor the server has a session left, until somebody signs in.
THEOREM SignOutIsFinal == Spec => []SignedOut
<1>1. IInv => SignedOut
  BY DEF IInv, AfterSignOut, SignedOut
<1>2. QED BY <1>1, InvInit, InvStep, PTL DEF Spec

\* AuthContext.tsx: no page presents a refresh token that it has itself
\* replaced, unless a page load has put it back over the pair of another page.
THEOREM NewestIsPresented == Spec => PresentsNewest
<1>1. IInv /\ History /\ [Next]_vars =>
        [\A c \in Calls : sent' # sent /\ call'[c] # call[c] =>
           call'[c].old \notin replaced[Tab(c)] \ rewritten]_vars
  <2> SUFFICES ASSUME IInv, History, Next, sent' # sent, NEW d \in Calls, call'[d] # call[d]
               PROVE  call'[d].old \notin replaced[Tab(d)] \ rewritten
    OBVIOUS
  <2>1. PICK c \in Calls : Step(c)
    BY DEF Next, ExpireAccess, ExpireRefresh
  <2>2. QED BY <2>1, PresentsStep
<1>2. QED BY <1>1, InvInit, InvStep, HistoryInit, HistoryKept, PTL DEF Spec, PresentsNewest

\* AuthContext.tsx and auth.py: the browser loses its session for a reason, and
\* access tokens that expire and calls that follow one another are none.
THEOREM LossHasAReason == Spec => LossIsExplained
<1>1. IInv /\ History /\ [Next]_vars =>
        [stored # 0 /\ stored' = 0 =>
           \E c \in Calls :
             /\ call'[c] # call[c]
             /\ \/ call[c].stage \in {"deleted", "ended"}
                \/ ~account \/ moves' # moves
                \/ call[c].stage = "refresh" /\ row[call[c].pair] = "expired"
                \/ call[c].stage \in {"me", "again"} /\ call[c].pair \notin fresh
                \/ call[c].stage = "run" /\ held[Tab(c)] = 0
                \/ call[c].stage = "refresh" /\ sent[call[c].pair] > 1]_vars
  <2> SUFFICES ASSUME IInv, History, Next, stored # 0, stored' = 0
               PROVE  \E c \in Calls : call'[c] # call[c] /\ Explained(c)
    BY DEF Explained
  <2>1. PICK c \in Calls : Step(c)
    BY DEF Next, ExpireAccess, ExpireRefresh, client
  <2>2. QED BY <2>1, LossStep
<1>2. QED BY <1>1, InvInit, InvStep, HistoryInit, HistoryKept, PTL DEF Spec, LossIsExplained

-----------------------------------------------------------------------------
(* The links mailed to a reader.                                           *)

-----------------------------------------------------------------------------
(* Types.                                                                  *)

\* A thread at one of the steps of issuing a link is one that issues a link.
LEMMA StepShape ==
  ASSUME LinksTypeOK, NEW t \in Threads
  PROVE  /\ job[t].step \in {"asked", "read", "cleared"} <=> job[t] \in Issuing
         /\ job[t].step = "use" <=> job[t] \in Using
         /\ job[t].step = "idle" <=> job[t] = NoJob
         /\ job[t] # NoJob => job[t] \in Issuing \cup Using
  BY DEF LinksTypeOK, Issuing, Using, NoJob

\* The initial state, without accounts, links or threads at work, is well-typed.
LEMMA LinksTypeInit == LinksInit => LinksTypeOK
<1>1. LinksInit => LinksTypeOK
  <2> SUFFICES ASSUME LinksInit PROVE LinksTypeOK
    OBVIOUS
  <2>1. NoJob \notin Issuing /\ NoJob \notin Using
    BY DEF NoJob, Issuing, Using
  <2>2. link \in [Links -> Row] /\ \A l \in Links : link[l].status = "none"
    BY DEF LinksInit, Row, Status, LinkKinds
  <2>3. newest \in [Accounts -> [LinkKinds -> Links \cup {None}]]
    BY DEF LinksInit
  <2> QED
    BY <2>1, <2>2, <2>3 DEF LinksInit, LinksTypeOK
<1> QED
  BY <1>1

\* No step breaks the types.
LEMMA LinksTypeStep == LinksTypeOK /\ [LinksNext]_linkVars => LinksTypeOK'
<1>2. LinksTypeOK /\ [LinksNext]_linkVars => LinksTypeOK'
  <2> SUFFICES ASSUME LinksTypeOK, [LinksNext]_linkVars PROVE LinksTypeOK'
    OBVIOUS
  <2> USE DEF LinksTypeOK, Become
  <2>a. NoJob \notin Issuing /\ NoJob \notin Using /\ \A j \in Using : j \notin Issuing
    BY DEF NoJob, Issuing, Using
  <2>1. ASSUME NEW t \in Threads, NEW a \in Accounts, Register(t, a) PROVE LinksTypeOK'
    BY <2>1, <2>a DEF Register, Begin, Issuing, LinkKinds
  <2>2. ASSUME NEW t \in Threads, NEW a \in Accounts, NEW k \in LinkKinds, Ask(t, a, k) PROVE LinksTypeOK'
    BY <2>2, <2>a DEF Ask, Begin, Issuing
  <2>3. ASSUME NEW t \in Threads, Read(t) PROVE LinksTypeOK'
    <3>1. job[t] \in Issuing
      BY <2>3, StepShape DEF Read
    <3> DEFINE j == [job[t] EXCEPT !.step = "read", !.old = Live(job[t].account, job[t].kind)]
    <3>2. j \in Issuing /\ j.old = Live(job[t].account, job[t].kind)
      BY <3>1 DEF Issuing, Live
    <3>3. \A l \in j.old : link[l].status # "none"
      BY <3>2 DEF Live
    <3>4. job' = [job EXCEPT ![t] = j]
      BY <2>3 DEF Read
    <3> HIDE DEF j
    <3>5. \A u \in Threads : job'[u] = job[u] \/ job'[u] = j
      BY <3>4
    <3>6. job' \in [Threads -> {NoJob} \cup Issuing \cup Using]
      BY <3>2, <3>4
    <3>7. \A u \in Threads : job'[u] \in Issuing => \A l \in job'[u].old : link[l].status # "none"
      BY <3>3, <3>5
    <3>8. \A u \in Threads : job'[u] \in Using => link[job'[u].link].status # "none"
      BY <3>2, <3>5, <2>a
    <3> QED
      BY <2>3, <3>6, <3>7, <3>8 DEF Read
  <2>4. ASSUME NEW t \in Threads, Clear(t) PROVE LinksTypeOK'
    <3>1. job[t] \in Issuing
      BY <2>4, StepShape DEF Clear
    <3> DEFINE j == [job[t] EXCEPT !.step = "cleared"]
    <3>2. j \in Issuing /\ j.old = job[t].old
      BY <3>1 DEF Issuing
    <3>3. job' = [job EXCEPT ![t] = j] \/ job' = [job EXCEPT ![t] = NoJob]
      BY <2>4 DEF Clear
    <3> HIDE DEF j
    <3>4. job' \in [Threads -> {NoJob} \cup Issuing \cup Using]
      BY <3>2, <3>3
    <3>5. link' \in [Links -> Row] /\ contended' \subseteq Links
      BY <2>4, <3>1 DEF Clear, Row, Status, Issuing
    <3>6. \A l \in Links : link'[l].account = link[l].account
                           /\ (link'[l].status = "none" <=> link[l].status = "none")
      <4>1. CASE \E m \in job[t].old : link[m].status = "gone"
        BY <2>4, <4>1 DEF Clear
      <4>2. CASE ~(\E m \in job[t].old : link[m].status = "gone")
        <5>1. \A l \in Links : link'[l] = IF l \in job[t].old
                                          THEN [link[l] EXCEPT !.status = "used"] ELSE link[l]
          BY <2>4, <4>2 DEF Clear
        <5>2. \A l \in Links : link[l] \in Row
          OBVIOUS
        <5>3. \A l \in Links : l \in job[t].old => link[l].status # "none"
          BY <3>1
        <5> QED
          BY <5>1, <5>2, <5>3 DEF Row
      <4> QED
        BY <4>1, <4>2
    <3>7. \A u \in Threads : job'[u] \in Issuing => \A l \in job'[u].old : link'[l].status # "none"
      <4> SUFFICES ASSUME NEW u \in Threads, job'[u] \in Issuing, NEW l \in job'[u].old
                   PROVE  link'[l].status # "none"
        OBVIOUS
      <4>1. job[u] \in Issuing /\ l \in job[u].old
        BY <3>1, <3>2, <3>3, <2>a
      <4> QED
        BY <4>1, <3>6 DEF Issuing
    <3>8. \A u \in Threads : job'[u] \in Using => link'[job'[u].link].status # "none"
      <4> SUFFICES ASSUME NEW u \in Threads, job'[u] \in Using
                   PROVE  link'[job'[u].link].status # "none"
        OBVIOUS
      <4>1. job[u] \in Using /\ job'[u] = job[u]
        BY <3>2, <3>3, <2>a
      <4> QED
        BY <4>1, <3>6 DEF Using
    <3> QED
      BY <2>4, <3>4, <3>5, <3>6, <3>7, <3>8 DEF Clear
  <2>5. ASSUME NEW t \in Threads, IssueLink(t) PROVE LinksTypeOK'
    <3>1. job[t] \in Issuing
      BY <2>5, StepShape DEF IssueLink
    <3>2. \A u \in Threads : job'[u] \in Issuing => job'[u] = job[u] /\ job[u] \in Issuing
      BY <2>5, <2>a DEF IssueLink
    <3>3. job' \in [Threads -> {NoJob} \cup Issuing \cup Using]
      BY <2>5 DEF IssueLink
    <3>4. CASE standing[job[t].account] = "deleted"
      <4>1. \A u \in Threads : job'[u] \in Using => job'[u] = job[u]
        BY <2>5, <2>a DEF IssueLink
      <4> QED
        BY <2>5, <3>2, <3>3, <3>4, <4>1 DEF IssueLink
    <3>5. CASE standing[job[t].account] # "deleted"
      <4>1. PICK l \in Links, arrives \in BOOLEAN :
              /\ link' = [link EXCEPT ![l] = [status |-> "live", account |-> job[t].account,
                                              kind |-> job[t].kind]]
              /\ newest' = [newest EXCEPT ![job[t].account][job[t].kind] = l]
              /\ mailed' = IF arrives THEN mailed \cup {l} ELSE mailed
        BY <2>5, <3>5 DEF IssueLink
      <4>2. job[t].account \in Accounts /\ job[t].kind \in LinkKinds
        BY <3>1 DEF Issuing
      <4>3. link' \in [Links -> Row] /\ mailed' \subseteq Links
        BY <4>1, <4>2 DEF Row, Status
      <4>4. newest' \in [Accounts -> [LinkKinds -> Links \cup {None}]]
        BY <4>1, <4>2
      <4>5. \A m \in Links : link[m].status # "none" \/ m = l => link'[m].status # "none"
        BY <4>1
      <4>6. \A m \in Links : link'[m].status # "none" => link'[m].account \in Accounts
        BY <4>1, <4>2
      <4>7. \A u \in Threads : job'[u] \in Issuing => \A m \in job'[u].old : link'[m].status # "none"
        BY <3>2, <4>5 DEF Issuing
      <4>8. \A u \in Threads : job'[u] \in Using => link'[job'[u].link].status # "none"
        <5>1. \A u \in Threads : job'[u] \in Using => job'[u] = job[u] /\ job[u] \in Using
          BY <2>5, <2>a DEF IssueLink
        <5> QED
          BY <5>1, <4>5 DEF Using
      <4> QED
        BY <2>5, <3>3, <4>3, <4>4, <4>6, <4>7, <4>8 DEF IssueLink
    <3> QED
      BY <3>4, <3>5
  <2>6. ASSUME NEW t \in Threads, NEW l \in Links, Use(t, l) PROVE LinksTypeOK'
    <3>1. [step |-> "use", link |-> l] \in Using
      BY DEF Using
    <3> QED
      BY <2>6, <2>a, <3>1 DEF Use
  <2>7. ASSUME NEW t \in Threads, Commit(t) PROVE LinksTypeOK'
    <3>1. job[t] \in Using /\ job[t].link \in Links
      BY <2>7, StepShape DEF Commit, Using
    <3>2. \A u \in Threads : job'[u] \in Issuing => job'[u] = job[u] /\ job[u] \in Issuing
      BY <2>7, <2>a DEF Commit
    <3>3. job' \in [Threads -> {NoJob} \cup Issuing \cup Using]
      BY <2>7 DEF Commit
    <3>a. \A u \in Threads : job'[u] \in Using => job'[u] = job[u]
      BY <2>7, <2>a DEF Commit
    <3>4. CASE link[job[t].link].status = "gone"
      BY <2>7, <3>2, <3>3, <3>4, <3>a DEF Commit
    <3>5. CASE link[job[t].link].status # "gone"
      <4>1. link' = [link EXCEPT ![job[t].link].status = "used"]
        BY <2>7, <3>5 DEF Commit
      <4>2. link' \in [Links -> Row]
        BY <3>1, <4>1 DEF Row, Status
      <4>3. standing' \in [Accounts -> {"absent", "pending", "verified", "deleted"}]
        BY <2>7, <3>5 DEF Commit
      <4>4. spent' \subseteq Links /\ respent' \subseteq Links
        BY <2>7, <3>1, <3>5 DEF Commit
      <4>5. \A l \in Links : link'[l].account = link[l].account
                             /\ (link[l].status # "none" <=> link'[l].status # "none")
        BY <3>1, <4>1 DEF Row
      <4>6. \A u \in Threads : job'[u] \in Issuing => \A m \in job'[u].old : link'[m].status # "none"
        BY <3>2, <4>5 DEF Issuing
      <4>7. \A u \in Threads : job'[u] \in Using => link'[job'[u].link].status # "none"
        BY <3>a, <4>5 DEF Using
      <4> QED
        BY <2>7, <3>3, <4>2, <4>3, <4>4, <4>5, <4>6, <4>7 DEF Commit
    <3> QED
      BY <3>4, <3>5
  <2>8. ASSUME NEW t \in Threads, Crash(t) PROVE LinksTypeOK'
    BY <2>8, <2>a DEF Crash
  <2>9. ASSUME NEW a \in Accounts, DeleteUser(a) PROVE LinksTypeOK'
    <3>1. link' \in [Links -> Row]
      BY <2>9 DEF DeleteUser, Row, Status
    <3>2. \A l \in Links : link'[l].account = link[l].account
                           /\ (link'[l].status # "none" <=>
                                link[l].status # "none" \/ link[l].account = a)
      BY <2>9 DEF DeleteUser, Row
    <3> QED
      BY <2>9, <3>1, <3>2 DEF DeleteUser, Issuing, Using
  <2>10. ASSUME NEW l \in Links, Expire(l) PROVE LinksTypeOK'
    BY <2>10 DEF Expire
  <2>11. CASE UNCHANGED linkVars
    BY <2>11 DEF linkVars
  <2> QED
    BY <2>1, <2>2, <2>3, <2>4, <2>5, <2>6, <2>7, <2>8, <2>9, <2>10, <2>11 DEF LinksNext
<1> QED
  BY <1>2

\* Every reachable state is well-typed, and every issued row names an account.
THEOREM LinksTypeCorrect == LinksSpec => []LinksTypeOK
  BY LinksTypeInit, LinksTypeStep, PTL DEF LinksSpec

-----------------------------------------------------------------------------
(* One live link.                                                          *)

\* Nobody overlapped: one thread issues at most, the live link is the newest, a thread
\* that has read the old links has them all, and one that has voided them left none.
Orderly(a, k) ==
  /\ \A t, u \in Threads : IssuingFor(t, a, k) /\ IssuingFor(u, a, k) => t = u
  /\ \A l \in Live(a, k) : newest[a][k] = l
  /\ \A t \in Threads : IssuingFor(t, a, k) /\ job[t].step = "read" => Live(a, k) \subseteq job[t].old
  /\ \A t \in Threads : IssuingFor(t, a, k) /\ job[t].step = "cleared" => Live(a, k) = {}

LinksIssued == \A a \in Accounts, k \in LinkKinds : <<a, k>> \notin crossed => Orderly(a, k)

\* A step that neither begins, reads, voids nor issues for a and k leaves them in order.
LEMMA Quiet ==
  ASSUME NEW a \in Accounts, NEW k \in LinkKinds, Orderly(a, k),
         Live(a, k)' \subseteq Live(a, k), newest'[a][k] = newest[a][k],
         \A u \in Threads : IssuingFor(u, a, k)' => job'[u] = job[u]
  PROVE  Orderly(a, k)'
<1>1. \A u \in Threads : IssuingFor(u, a, k)' => IssuingFor(u, a, k)
  BY DEF IssuingFor
<1> QED
  BY <1>1 DEF Orderly

\* No step breaks the order of an account and a kind, unless it makes requests overlap.
LEMMA LinksIssuedStep == LinksTypeOK /\ LinksIssued /\ [LinksNext]_linkVars => LinksIssued'
<1> SUFFICES ASSUME LinksTypeOK, LinksIssued, [LinksNext]_linkVars,
                    NEW a \in Accounts, NEW k \in LinkKinds, <<a, k>> \notin crossed'
             PROVE  Orderly(a, k)'
  BY DEF LinksIssued
<1> USE DEF Become
<1>a. job \in [Threads -> {NoJob} \cup Issuing \cup Using] /\ link \in [Links -> Row]
  BY DEF LinksTypeOK
<1>1. ASSUME NEW t \in Threads, NEW b \in Accounts, NEW c \in LinkKinds, Begin(t, b, c), job[t] = NoJob,
             link' = link, newest' = newest
      PROVE  Orderly(a, k)'
  <2>1. <<a, k>> \notin crossed /\ Orderly(a, k)
    BY <1>1 DEF Begin, LinksIssued
  <2>2. Live(a, k)' = Live(a, k)
    BY <1>1 DEF Live, Of
  <2>3. \A u \in Threads : u # t => job'[u] = job[u]
    BY <1>1, <1>a DEF Begin
  <2>4. job'[t] = [step |-> "asked", account |-> b, kind |-> c, old |-> {}]
    BY <1>1, <1>a DEF Begin
  <2>5. CASE a = b /\ k = c
    <3>1. \A u \in Threads : ~IssuingFor(u, a, k)
      BY <1>1, <2>5 DEF Begin
    <3>2. \A u \in Threads : IssuingFor(u, a, k)' => u = t
      BY <2>3, <3>1 DEF IssuingFor
    <3>3. \A u \in Threads : IssuingFor(u, a, k)' => job'[u].step = "asked"
      BY <2>4, <3>2
    <3> QED
      BY <1>1, <2>1, <2>2, <3>2, <3>3 DEF Orderly
  <2>6. CASE ~(a = b /\ k = c)
    <3>1. \A u \in Threads : IssuingFor(u, a, k)' => job'[u] = job[u]
      BY <2>3, <2>4, <2>6 DEF IssuingFor
    <3> QED
      BY <1>1, <2>1, <2>2, <3>1, Quiet
  <2> QED
    BY <2>5, <2>6
<1>2. ASSUME NEW t \in Threads, NEW b \in Accounts, Register(t, b) PROVE Orderly(a, k)'
  BY <1>1, <1>2 DEF Register, LinkKinds
<1>3. ASSUME NEW t \in Threads, NEW b \in Accounts, NEW c \in LinkKinds, Ask(t, b, c)
      PROVE  Orderly(a, k)'
  BY <1>1, <1>3 DEF Ask
<1>4. ASSUME NEW t \in Threads, Read(t) PROVE Orderly(a, k)'
  <2>1. Orderly(a, k)
    BY <1>4 DEF Read, LinksIssued
  <2>2. Live(a, k)' = Live(a, k) /\ newest' = newest
    BY <1>4 DEF Read, Live, Of
  <2>3. job[t] \in Issuing
    BY <1>4, StepShape DEF Read
  <2>4. \A u \in Threads : u # t => job'[u] = job[u]
    BY <1>4, <1>a DEF Read
  <2>5. /\ job'[t].step = "read" /\ job'[t].account = job[t].account /\ job'[t].kind = job[t].kind
        /\ job'[t].old = Live(job[t].account, job[t].kind)
    BY <1>4, <1>a, <2>3 DEF Read, Issuing
  <2>6. \A u \in Threads : IssuingFor(u, a, k)' => IssuingFor(u, a, k)
    BY <1>4, <2>4, <2>5 DEF IssuingFor, Read
  <2>7. IssuingFor(t, a, k)' => job'[t].old = Live(a, k)
    BY <2>5 DEF IssuingFor
  <2> QED
    BY <2>1, <2>2, <2>4, <2>5, <2>6, <2>7 DEF Orderly
<1>5. ASSUME NEW t \in Threads, Clear(t) PROVE Orderly(a, k)'
  <2>1. Orderly(a, k) /\ newest' = newest
    BY <1>5 DEF Clear, LinksIssued
  <2>2. job[t] \in Issuing
    BY <1>5, StepShape DEF Clear
  <2>3. \A u \in Threads : u # t => job'[u] = job[u]
    BY <1>5, <1>a DEF Clear
  <2>4. CASE \E l \in job[t].old : link[l].status = "gone"
    <3>1. job'[t] = NoJob /\ link' = link
      BY <1>5, <1>a, <2>4 DEF Clear
    <3>2. \A u \in Threads : IssuingFor(u, a, k)' => job'[u] = job[u]
      BY <2>3, <3>1 DEF IssuingFor, NoJob
    <3>3. Live(a, k)' \subseteq Live(a, k)
      BY <3>1 DEF Live, Of
    <3> QED
      BY <2>1, <3>2, <3>3, Quiet
  <2>5. CASE ~(\E l \in job[t].old : link[l].status = "gone")
    <3>1. job'[t] = [job[t] EXCEPT !.step = "cleared"]
      BY <1>5, <1>a, <2>5 DEF Clear
    <3>2. \A l \in Links : link'[l] = IF l \in job[t].old THEN [link[l] EXCEPT !.status = "used"]
                                      ELSE link[l]
      BY <1>5, <2>5 DEF Clear
    <3>3. Live(a, k)' \subseteq Live(a, k) \ job[t].old
      BY <1>a, <3>2 DEF Live, Of, Row
    <3>4. /\ job'[t].step = "cleared" /\ job'[t].account = job[t].account
          /\ job'[t].kind = job[t].kind
      BY <2>2, <3>1 DEF Issuing
    <3>5. \A u \in Threads : IssuingFor(u, a, k)' => IssuingFor(u, a, k)
      BY <1>5, <2>3, <3>4 DEF IssuingFor, Clear
    <3>6. IssuingFor(t, a, k)' => Live(a, k)' = {}
      BY <1>5, <2>1, <3>3, <3>5 DEF Orderly, Clear
    <3>7. \A u \in Threads : IssuingFor(u, a, k)' /\ job'[u].step = "cleared" => Live(a, k)' = {}
      BY <2>1, <2>3, <3>3, <3>5, <3>6 DEF Orderly
    <3>8. \A u \in Threads : IssuingFor(u, a, k)' /\ job'[u].step = "read"
                             => Live(a, k)' \subseteq job'[u].old
      BY <2>1, <2>3, <3>3, <3>4, <3>5 DEF Orderly
    <3> QED
      BY <2>1, <3>3, <3>5, <3>7, <3>8 DEF Orderly
  <2> QED
    BY <2>4, <2>5
<1>6. ASSUME NEW t \in Threads, IssueLink(t) PROVE Orderly(a, k)'
  <2>1. Orderly(a, k)
    BY <1>6 DEF IssueLink, LinksIssued
  <2>2. job[t] \in Issuing /\ job'[t] = NoJob
    BY <1>6, <1>a, StepShape DEF IssueLink
  <2>3. \A u \in Threads : IssuingFor(u, a, k)' => u # t /\ job'[u] = job[u] /\ IssuingFor(u, a, k)
    BY <1>6, <1>a, <2>2 DEF IssueLink, IssuingFor, NoJob
  <2>4. CASE standing[job[t].account] = "deleted"
    <3>1. Live(a, k)' = Live(a, k) /\ newest' = newest
      BY <1>6, <2>4 DEF IssueLink, Live, Of
    <3> QED
      BY <2>1, <2>3, <3>1, Quiet
  <2>5. CASE standing[job[t].account] # "deleted"
    <3>1. PICK l \in Links :
            /\ link' = [link EXCEPT ![l] = [status |-> "live", account |-> job[t].account,
                                            kind |-> job[t].kind]]
            /\ newest' = [newest EXCEPT ![job[t].account][job[t].kind] = l]
            /\ link[l].status = "none"
      BY <1>6, <2>5 DEF IssueLink
    <3>2. job[t].account \in Accounts /\ job[t].kind \in LinkKinds
      BY <2>2 DEF Issuing
    <3>3. newest \in [Accounts -> [LinkKinds -> Links \cup {None}]]
      BY DEF LinksTypeOK
    <3>4. CASE job[t].account = a /\ job[t].kind = k
      <4>1. IssuingFor(t, a, k) /\ Live(a, k) = {}
        BY <1>6, <2>1, <3>4 DEF IssueLink, IssuingFor, Orderly
      <4>2. \A u \in Threads : ~IssuingFor(u, a, k)'
        BY <2>1, <2>3, <4>1 DEF Orderly
      <4>3. Live(a, k)' \subseteq {l}
        BY <1>a, <3>1, <4>1 DEF Live, Of
      <4>4. newest'[a][k] = l
        BY <3>1, <3>2, <3>3, <3>4
      <4> QED
        BY <4>2, <4>3, <4>4 DEF Orderly
    <3>5. CASE ~(job[t].account = a /\ job[t].kind = k)
      <4>1. Live(a, k)' \subseteq Live(a, k)
        BY <1>a, <3>1, <3>5 DEF Live, Of
      <4>2. newest'[a][k] = newest[a][k]
        BY <3>1, <3>2, <3>3, <3>5
      <4> QED
        BY <2>1, <2>3, <4>1, <4>2, Quiet
    <3> QED
      BY <3>4, <3>5
  <2> QED
    BY <2>4, <2>5
<1>7. ASSUME NEW t \in Threads, NEW l \in Links, Use(t, l) PROVE Orderly(a, k)'
  <2>1. \A u \in Threads : IssuingFor(u, a, k)' => job'[u] = job[u]
    BY <1>7, <1>a DEF Use, IssuingFor
  <2> QED
    BY <1>7, <2>1, Quiet DEF Use, LinksIssued, Live, Of
<1>8. ASSUME NEW t \in Threads, Commit(t) PROVE Orderly(a, k)'
  <2>1. \A u \in Threads : IssuingFor(u, a, k)' => job'[u] = job[u]
    BY <1>8, <1>a DEF Commit, IssuingFor, NoJob
  <2>2. link' = link \/ link' = [link EXCEPT ![job[t].link].status = "used"]
    BY <1>8 DEF Commit
  <2>3. Live(a, k)' \subseteq Live(a, k)
    BY <1>a, <2>2 DEF Live, Of, Row
  <2> QED
    BY <1>8, <2>1, <2>3, Quiet DEF Commit, LinksIssued
<1>9. ASSUME NEW t \in Threads, Crash(t) PROVE Orderly(a, k)'
  <2>1. \A u \in Threads : IssuingFor(u, a, k)' => job'[u] = job[u]
    BY <1>9, <1>a DEF Crash, IssuingFor, NoJob
  <2> QED
    BY <1>9, <2>1, Quiet DEF Crash, LinksIssued, Live, Of
<1>10. ASSUME NEW b \in Accounts, DeleteUser(b) PROVE Orderly(a, k)'
  <2>1. Live(a, k)' \subseteq Live(a, k)
    BY <1>10, <1>a DEF DeleteUser, Live, Of, Row
  <2> QED
    BY <1>10, <2>1, Quiet DEF DeleteUser, LinksIssued
<1>11. ASSUME NEW l \in Links, Expire(l) PROVE Orderly(a, k)'
  BY <1>11, Quiet DEF Expire, LinksIssued, Live, Of
<1>12. CASE UNCHANGED linkVars
  BY <1>12, Quiet DEF linkVars, LinksIssued, Live, Of
<1> QED
  BY <1>2, <1>3, <1>4, <1>5, <1>6, <1>7, <1>8, <1>9, <1>10, <1>11, <1>12 DEF LinksNext

\* Orderly issuing is an invariant.
THEOREM LinksIssuedInOrder == LinksSpec => []LinksIssued
<1>1. LinksInit => LinksIssued
  <2>1. LinksInit => \A a \in Accounts, k \in LinkKinds : Live(a, k) = {}
    BY DEF LinksInit, Live
  <2>2. LinksInit => \A t \in Threads, a \in Accounts, k \in LinkKinds : ~IssuingFor(t, a, k)
    BY DEF LinksInit, IssuingFor, NoJob
  <2> QED
    BY <2>1, <2>2 DEF LinksIssued, Orderly
<1> QED
  BY <1>1, LinksIssuedStep, LinksTypeCorrect, PTL DEF LinksSpec

\* However many threads issue links, crash, or see them expire, an account has one live link
\* of each kind unless two requests for it have overlapped.
THEOREM OneLinkLives == LinksSpec => []OneLiveLink
<1>1. LinksIssued => OneLiveLink
  BY DEF LinksIssued, Orderly, OneLiveLink
<1> QED
  BY <1>1, LinksIssuedInOrder, PTL
-----------------------------------------------------------------------------
(* A link works once, and only the newest.                                 *)

\* A link that has worked is not live, and one in use alone is fresh.
Fresh(l) ==
  /\ l \in spent => link[l].status \in {"used", "gone"}
  /\ \A t \in Threads : UsedBy(t, l) /\ l \notin contended =>
       /\ link[l].status \in {"live", "gone"} /\ l \notin spent
       /\ \A u \in Threads : UsedBy(u, l) => u = t

Used == \A l \in Links : Fresh(l)

\* A step that uses and spends nothing new, and voids l only while nobody uses it, keeps it
\* fresh.
LEMMA StillFresh ==
  ASSUME NEW l \in Links, Fresh(l), spent' = spent, contended \subseteq contended',
         \A u \in Threads : UsedBy(u, l)' => UsedBy(u, l),
         \/ link'[l].status = link[l].status
         \/ link'[l].status = "gone"
         \/ l \notin spent /\ ((\E u \in Threads : UsedBy(u, l)) => l \in contended')
  PROVE  Fresh(l)'
  BY DEF Fresh

\* No step makes a link that was used alone stale.
LEMMA UsedStep == LinksTypeOK /\ Used /\ [LinksNext]_linkVars => Used'
<1> SUFFICES ASSUME LinksTypeOK, Used, [LinksNext]_linkVars, NEW l \in Links PROVE Fresh(l)'
  BY DEF Used
<1> USE DEF Become
<1>a. /\ job \in [Threads -> {NoJob} \cup Issuing \cup Using] /\ link \in [Links -> Row]
      /\ Fresh(l)
      /\ \A t \in Threads : job[t] \in Using => link[job[t].link].status # "none"
  BY DEF LinksTypeOK, Used
<1>1. ASSUME NEW t \in Threads, NEW b \in Accounts, NEW c \in LinkKinds, Begin(t, b, c),
             link' = link, spent' = spent, contended' = contended
      PROVE  Fresh(l)'
  <2>1. \A u \in Threads : UsedBy(u, l)' => UsedBy(u, l)
    BY <1>1, <1>a DEF Begin, UsedBy
  <2> QED
    BY <1>1, <1>a, <2>1, StillFresh
<1>2. ASSUME NEW t \in Threads, NEW b \in Accounts, Register(t, b) PROVE Fresh(l)'
  BY <1>1, <1>2 DEF Register, LinkKinds
<1>3. ASSUME NEW t \in Threads, NEW b \in Accounts, NEW c \in LinkKinds, Ask(t, b, c) PROVE Fresh(l)'
  BY <1>1, <1>3 DEF Ask
<1>4. ASSUME NEW t \in Threads, Read(t) PROVE Fresh(l)'
  <2>1. job[t] \in Issuing
    BY <1>4, StepShape DEF Read
  <2>2. job'[t].step = "read"
    BY <1>4, <1>a, <2>1 DEF Read, Issuing
  <2>3. \A u \in Threads : UsedBy(u, l)' => UsedBy(u, l)
    BY <1>4, <1>a, <2>2 DEF Read, UsedBy
  <2> QED
    BY <1>4, <1>a, <2>3, StillFresh DEF Read
<1>5. ASSUME NEW t \in Threads, Clear(t) PROVE Fresh(l)'
  <2>1. job[t] \in Issuing
    BY <1>5, StepShape DEF Clear
  <2>2. job'[t].step # "use"
    BY <1>5, <1>a, <2>1 DEF Clear, Issuing, NoJob
  <2>3. \A u \in Threads : UsedBy(u, l)' => UsedBy(u, l)
    BY <1>5, <1>a, <2>2 DEF Clear, UsedBy
  <2>4. spent' = spent /\ contended \subseteq contended'
    BY <1>5 DEF Clear
  <2>5. CASE link' = link
    BY <1>a, <2>3, <2>4, <2>5, StillFresh
  <2>6. CASE link' # link
    <3>1. /\ link'[l] = IF l \in job[t].old THEN [link[l] EXCEPT !.status = "used"] ELSE link[l]
          /\ contended' = contended \cup {m \in job[t].old : \E u \in Threads : UsedBy(u, m)}
      BY <1>5, <2>6 DEF Clear
    <3>2. CASE l \in job[t].old
      <4>1. link'[l].status = "used"
        BY <1>a, <3>1, <3>2 DEF Row
      <4>2. (\E u \in Threads : UsedBy(u, l)) => l \in contended'
        BY <3>1, <3>2
      <4> QED
        BY <1>a, <2>3, <2>4, <4>1, <4>2 DEF Fresh
    <3>3. CASE l \notin job[t].old
      BY <1>a, <2>3, <2>4, <3>1, <3>3, StillFresh
    <3> QED
      BY <3>2, <3>3
  <2> QED
    BY <2>5, <2>6
<1>6. ASSUME NEW t \in Threads, IssueLink(t) PROVE Fresh(l)'
  <2>1. \A u \in Threads : UsedBy(u, l)' => UsedBy(u, l)
    BY <1>6, <1>a DEF IssueLink, UsedBy, NoJob
  <2>2. spent' = spent /\ contended' = contended
    BY <1>6 DEF IssueLink
  <2>3. CASE link'[l] = link[l]
    BY <1>a, <2>1, <2>2, <2>3, StillFresh
  <2>4. CASE link'[l] # link[l]
    <3>1. link[l].status = "none" /\ link'[l].status = "live"
      <4>1. PICK m \in Links :
              /\ link[m].status = "none"
              /\ link' = [link EXCEPT ![m] = [status |-> "live", account |-> job[t].account,
                                              kind |-> job[t].kind]]
        BY <1>6, <2>4 DEF IssueLink
      <4>2. m = l
        BY <1>a, <2>4, <4>1
      <4> QED
        BY <1>a, <4>1, <4>2
    <3>2. l \notin spent
      BY <1>a, <3>1 DEF Fresh
    <3>3. \A u \in Threads : ~UsedBy(u, l)
      BY <1>a, <3>1, StepShape DEF UsedBy
    <3> QED
      BY <2>1, <2>2, <3>2, <3>3 DEF Fresh
  <2> QED
    BY <2>3, <2>4
<1>7. ASSUME NEW t \in Threads, NEW m \in Links, Use(t, m) PROVE Fresh(l)'
  <2>1. /\ link' = link /\ spent' = spent /\ link[m].status = "live" /\ contended \subseteq contended'
        /\ (\E u \in Threads : UsedBy(u, m)) => m \in contended'
    BY <1>7 DEF Use
  <2>2. \A u \in Threads : u # t => (UsedBy(u, l)' <=> UsedBy(u, l))
    BY <1>7, <1>a DEF Use, UsedBy
  <2>3. UsedBy(t, l)' <=> l = m
    BY <1>7, <1>a DEF Use, UsedBy
  <2>4. CASE l = m
    <3>1. l \notin spent
      BY <1>a, <2>1, <2>4 DEF Fresh
    <3>2. l \notin contended' => \A u \in Threads : UsedBy(u, l)' => u = t
      BY <2>1, <2>2, <2>4
    <3> QED
      BY <2>1, <2>4, <3>1, <3>2 DEF Fresh
  <2>5. CASE l # m
    BY <1>a, <2>1, <2>2, <2>3, <2>5, StillFresh
  <2> QED
    BY <2>4, <2>5
<1>8. ASSUME NEW t \in Threads, Commit(t) PROVE Fresh(l)'
  <2>1. \A u \in Threads : UsedBy(u, l)' => UsedBy(u, l) /\ u # t
    BY <1>8, <1>a DEF Commit, UsedBy, NoJob
  <2>2. contended' = contended
    BY <1>8 DEF Commit
  <2>3. CASE link[job[t].link].status = "gone"
    BY <1>8, <1>a, <2>1, <2>2, <2>3, StillFresh DEF Commit
  <2>4. CASE link[job[t].link].status # "gone" /\ l = job[t].link
    <3>1. link'[l].status = "used"
      BY <1>8, <1>a, <2>4 DEF Commit, Row
    <3>2. UsedBy(t, l)
      BY <1>8, <2>4 DEF Commit, UsedBy
    <3>3. l \notin contended => \A u \in Threads : ~UsedBy(u, l)'
      BY <1>a, <2>1, <3>2 DEF Fresh
    <3> QED
      BY <2>2, <3>1, <3>3 DEF Fresh
  <2>5. CASE link[job[t].link].status # "gone" /\ l # job[t].link
    <3>1. link'[l] = link[l] /\ (l \in spent' <=> l \in spent)
      BY <1>8, <1>a, <2>5 DEF Commit
    <3> QED
      BY <1>a, <2>1, <2>2, <3>1 DEF Fresh
  <2> QED
    BY <2>3, <2>4, <2>5
<1>9. ASSUME NEW t \in Threads, Crash(t) PROVE Fresh(l)'
  <2>1. \A u \in Threads : UsedBy(u, l)' => UsedBy(u, l)
    BY <1>9, <1>a DEF Crash, UsedBy, NoJob
  <2> QED
    BY <1>9, <1>a, <2>1, StillFresh DEF Crash
<1>10. ASSUME NEW b \in Accounts, DeleteUser(b) PROVE Fresh(l)'
  <2>1. link'[l].status = link[l].status \/ link'[l].status = "gone"
    BY <1>10, <1>a DEF DeleteUser, Row
  <2> QED
    BY <1>10, <1>a, <2>1, StillFresh DEF DeleteUser, UsedBy
<1>11. ASSUME NEW m \in Links, Expire(m) PROVE Fresh(l)'
  BY <1>11, <1>a, StillFresh DEF Expire, UsedBy
<1>12. CASE UNCHANGED linkVars
  BY <1>12, <1>a, StillFresh DEF linkVars, UsedBy
<1> QED
  BY <1>2, <1>3, <1>4, <1>5, <1>6, <1>7, <1>8, <1>9, <1>10, <1>11, <1>12 DEF LinksNext

\* Links that nobody raced for are fresh, in every reachable state.
THEOREM UsedAlone == LinksSpec => []Used
<1>1. LinksInit => Used
  BY DEF LinksInit, Used, Fresh, UsedBy, NoJob
<1> QED
  BY <1>1, UsedStep, LinksTypeCorrect, PTL DEF LinksSpec

\* A link confirms an address or sets a password once, unless something else used or voided
\* it between the check and the commit.
THEOREM LinkWorksOnce == LinksSpec => []LinkUsedOnce
<1>1. LinksInit => LinkUsedOnce
  BY DEF LinksInit, LinkUsedOnce
<1>2. LinksTypeOK /\ Used /\ LinkUsedOnce /\ [LinksNext]_linkVars => LinkUsedOnce'
  <2> SUFFICES ASSUME LinksTypeOK, Used, LinkUsedOnce, [LinksNext]_linkVars PROVE LinkUsedOnce'
    OBVIOUS
  <2>1. ASSUME NEW t \in Threads, Commit(t) PROVE LinkUsedOnce'
    <3>1. job[t].link \in Links /\ UsedBy(t, job[t].link)
      BY <2>1, StepShape DEF Commit, UsedBy, Using
    <3>2. job[t].link \in spent => job[t].link \in contended
      BY <3>1 DEF Used, Fresh
    <3> QED
      BY <2>1, <3>2 DEF Commit, LinkUsedOnce
  <2>2. CASE respent' = respent /\ contended \subseteq contended'
    BY <2>2 DEF LinkUsedOnce
  <2>3. ASSUME NEW t \in Threads, Clear(t) \/ \E l \in Links : Use(t, l) PROVE LinkUsedOnce'
    BY <2>2, <2>3 DEF Clear, Use
  <2>4. ASSUME NEW t \in Threads,
               \/ Read(t) \/ IssueLink(t) \/ Crash(t)
               \/ \E a \in Accounts : Register(t, a) \/ \E k \in LinkKinds : Ask(t, a, k)
        PROVE  LinkUsedOnce'
    BY <2>2, <2>4 DEF Read, IssueLink, Crash, Register, Ask
  <2>5. ASSUME (\E a \in Accounts : DeleteUser(a)) \/ (\E l \in Links : Expire(l)) PROVE LinkUsedOnce'
    BY <2>2, <2>5 DEF DeleteUser, Expire
  <2>6. CASE UNCHANGED linkVars
    BY <2>2, <2>6 DEF linkVars
  <2> QED
    BY <2>1, <2>3, <2>4, <2>5, <2>6 DEF LinksNext
<1> QED
  BY <1>1, <1>2, LinksTypeCorrect, UsedAlone, PTL DEF LinksSpec

\* A link that an issued newer one has replaced does nothing any more, unless the requests
\* overlapped.
THEOREM OldLinkRefused == LinksSpec => NewestLinkWorks
<1> DEFINE UsesNewest ==
             \A t \in Threads :
               (job[t].step = "use" /\ Commit(t) /\ link[job[t].link].status # "gone") =>
                 LET l == job[t].link IN
                 \/ newest[link[l].account][link[l].kind] = l
                 \/ l \in contended \/ <<link[l].account, link[l].kind>> \in crossed
<1>1. LinksTypeOK /\ LinksIssued /\ Used /\ [LinksNext]_linkVars => [UsesNewest]_linkVars
  <2> SUFFICES ASSUME LinksTypeOK, LinksIssued, Used, NEW t \in Threads, job[t].step = "use",
                      link[job[t].link].status # "gone", job[t].link \notin contended,
                      <<link[job[t].link].account, link[job[t].link].kind>> \notin crossed
               PROVE  newest[link[job[t].link].account][link[job[t].link].kind] = job[t].link
    OBVIOUS
  <2> DEFINE l == job[t].link
  <2>1. l \in Links /\ UsedBy(t, l)
    BY StepShape DEF UsedBy, Using
  <2>2. link[l].status = "live"
    BY <2>1 DEF Used, Fresh
  <2>3. link[l].account \in Accounts /\ link[l].kind \in LinkKinds
    BY <2>1, <2>2 DEF LinksTypeOK, Row
  <2>4. l \in Live(link[l].account, link[l].kind)
    BY <2>1, <2>2 DEF Live, Of
  <2> QED
    BY <2>3, <2>4 DEF LinksIssued, Orderly
<1> QED
  BY <1>1, LinksTypeCorrect, LinksIssuedInOrder, UsedAlone, PTL DEF LinksSpec, NewestLinkWorks
=============================================================================
