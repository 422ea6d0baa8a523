----------------------------- MODULE WebClient ------------------------------
(***************************************************************************)
(* The browser's side of a session: lib/api.ts and lib/auth.ts, and the    *)
(* pages that log in, log out and write the stored session.  Every tab has *)
(* its own stored session and at most one refresh under way; all tabs      *)
(* share the cookies.  What the server does with a session is RefreshChain *)
(* (which Sessions implements); an access token is named by the refresh    *)
(* token that was issued with it.  Code runs to its next await in a step,  *)
(* and so do all calls that wait for one refresh when it settles.          *)
(***************************************************************************)
EXTENDS Integers

CONSTANTS Tabs,
          Calls,     \* page actions in flight: one apiFetch after another
          Sessions,
          Tokens,
          None

ASSUME TabsAssumption == None \notin Tabs \cup Calls \cup Sessions \cup Tokens

VARIABLES live, opened, spent,  \* the server's sessions and refresh tokens
          issuedTo,  \* the session each token was issued to
          expired,   \* access tokens past their ACCESS_TOKEN_TTL
          cookie,    \* refreshToken and sessionId
          stored,    \* the StoredSession of each tab
          layout,    \* the session the layout read when it was mounted
          promise,   \* refreshPromise of each tab: the call that began it
          refresh,   \* the refresh begun by a call
          pc,
          call,
          spentBy,   \* ghost: the tab whose refresh used a token
          lost       \* ghost: sessions a refresh of which went unanswered

Server == INSTANCE RefreshChain

server == <<live, opened, spent, issuedTo, expired, spentBy>>
browser == <<cookie, stored, layout>>
calls == <<promise, refresh, pc, call>>
webVars == <<server, browser, calls, lost>>

Nothing == [session |-> None, token |-> None]  \* no cookie, or nothing stored

NoRefresh == [phase |-> "none", presented |-> Nothing, token |-> None]

NoCall == [tab |-> None, kind |-> "load", captured |-> Nothing, access |-> None,
           skipRefresh |-> FALSE, effects |-> 0, awaits |-> None]

At(k, label) == pc[k] = label
Goto(k, label) == pc' = [pc EXCEPT ![k] = label]
Finish(k) == Goto(k, "idle") /\ call' = [call EXCEPT ![k] = NoCall]
Tab(k) == call[k].tab

WebInit ==
  /\ Server!Init
  /\ issuedTo = [t \in Tokens |-> None]
  /\ expired = {}
  /\ cookie = Nothing
  /\ stored = [b \in Tabs |-> Nothing]
  /\ layout = [b \in Tabs |-> Nothing]
  /\ promise = [b \in Tabs |-> None]
  /\ refresh = [k \in Calls |-> NoRefresh]
  /\ pc = [k \in Calls |-> "idle"]
  /\ call = [k \in Calls |-> NoCall]
  /\ spentBy = [t \in Tokens |-> None]
  /\ lost = {}

-----------------------------------------------------------------------------
(* A page calls apiFetch, with the session it has captured.                *)

Begin(k, b, kind, session) ==
  /\ At(k, "idle")
  /\ Goto(k, "sent")
  /\ call' = [call EXCEPT ![k] =
       [NoCall EXCEPT !.tab = b, !.kind = kind, !.captured = session,
                      !.access = session.token, !.skipRefresh = kind = "logout"]]
  /\ UNCHANGED <<server, browser, promise, refresh, lost>>

LogIn(k, b) == Begin(k, b, "login", Nothing)

Load(k, b) == stored[b] # Nothing /\ Begin(k, b, "load", stored[b])
Switch(k, b) == stored[b] # Nothing /\ Begin(k, b, "switch", stored[b])
LogOut(k, b) == layout[b] # Nothing /\ Begin(k, b, "logout", layout[b])

-----------------------------------------------------------------------------
(* The server answers.  An error other than 401 may follow the effect, and *)
(* an answer that is lost on its way is one.                               *)

\* Once a session is closed, which of its tokens had expired or who had used
\* them makes no difference.
EndSession(s) ==
  LET its == {t \in Tokens : issuedTo[t] = s}
  IN /\ Server!Close({s})
     /\ expired' = expired \cup its
     /\ spentBy' = [t \in Tokens |-> IF t \in its THEN None ELSE spentBy[t]]
     /\ lost' = lost \ {s}
     /\ UNCHANGED issuedTo

Authorised(a) == a \notin expired /\ live[issuedTo[a]] # None

ServeLogin(k) ==
  /\ At(k, "sent") /\ call[k].kind = "login"
  /\ \/ \E s \in Sessions, t \in Tokens :
          /\ Server!Open(s, t)
          /\ issuedTo' = [issuedTo EXCEPT ![t] = s]
          /\ call' = [call EXCEPT ![k].captured = [session |-> s, token |-> t]]
          /\ Goto(k, "ok")
     \/ Goto(k, "failed") /\ UNCHANGED <<live, opened, spent, issuedTo, call>>
  /\ UNCHANGED <<expired, spentBy, browser, promise, refresh, lost>>

\* Signing out ends the session of the access token, whatever the cookies say.
Served(k) ==
  /\ Authorised(call[k].access)
  /\ IF call[k].kind = "logout"
     THEN EndSession(issuedTo[call[k].access])
     ELSE UNCHANGED <<server, lost>>
  /\ call' = [call EXCEPT ![k].effects = @ + 1]

Serve(k) ==
  /\ At(k, "sent") /\ call[k].kind # "login"
  /\ \/ Served(k) /\ (Goto(k, "ok") \/ Goto(k, "failed"))
     \/ /\ \/ Goto(k, "unauthorized") /\ ~Authorised(call[k].access)
           \/ Goto(k, "failed")
        /\ UNCHANGED <<server, lost, call>>
  /\ UNCHANGED <<browser, promise, refresh>>

-----------------------------------------------------------------------------
(* The answer arrives.                                                     *)

Save(b, session) == stored' = [stored EXCEPT ![b] = session]
Clear(b) == Save(b, Nothing)
Mount(b, session) == layout' = [layout EXCEPT ![b] = session]
SetSessionCookies(pair) == cookie' = pair
ClearSessionCookies == cookie' = Nothing

\* The page goes on with its next call, and the token it has captured.
GoOn(k, next) ==
  /\ Goto(k, "sent")
  /\ call' = [call EXCEPT ![k] =
       [call[k] EXCEPT !.kind = next, !.access = call[k].captured.token,
                       !.skipRefresh = FALSE, !.effects = 0]]

\* A login may go on to accept an invitation.
LoggedIn(k) ==
  LET b == Tab(k)
      session == call[k].captured
  IN /\ call[k].kind = "login"
     /\ SetSessionCookies(session) /\ Save(b, session) /\ Mount(b, session)
     /\ Finish(k) \/ GoOn(k, "switch")

\* Loading may go on to load more, making an organization to switch to it.
Loaded(k) ==
  /\ call[k].kind = "load"
  /\ Finish(k) \/ GoOn(k, "load") \/ GoOn(k, "switch")
  /\ UNCHANGED browser

\* Switching the organization, and accepting, write back what was read before.
Switched(k) ==
  /\ call[k].kind = "switch"
  /\ Save(Tab(k), call[k].captured)
  /\ Finish(k)
  /\ UNCHANGED <<cookie, layout>>

LoggedOut(k) ==
  LET b == Tab(k)
  IN /\ call[k].kind = "logout"
     /\ ClearSessionCookies /\ Clear(b) /\ Mount(b, Nothing)
     /\ Finish(k)

Receive(k) ==
  /\ At(k, "ok")
  /\ LoggedIn(k) \/ Loaded(k) \/ Switched(k) \/ LoggedOut(k)
  /\ UNCHANGED <<server, promise, refresh, lost>>

\* (variant of Retriable) every failed call is sent again
RetriableAlways(k) == pc[k] \in {"unauthorized", "failed"} /\ ~call[k].skipRefresh

Retriable(k) ==
  /\ At(k, "unauthorized") /\ ~call[k].skipRefresh
  /\ call[k].access # None

\* apiFetch throws; signing out then clears the session, and so does a page
\* that loads, if it is the dashboard.
Throw(k) ==
  LET b == Tab(k)
  IN /\ pc[k] \in {"unauthorized", "failed"} /\ ~Retriable(k)
     /\ \/ call[k].kind = "logout" /\ Clear(b) /\ Mount(b, Nothing)
        \/ call[k].kind = "load" /\ Clear(b) /\ UNCHANGED layout
        \/ call[k].kind # "logout" /\ UNCHANGED <<stored, layout>>
     /\ Finish(k)
     /\ UNCHANGED <<server, cookie, promise, refresh, lost>>

-----------------------------------------------------------------------------
(* refreshAccessToken                                                      *)

\* (variant of Refreshing) every call starts a refresh of its own
RefreshingNever(b) == FALSE

Refreshing(b) == promise[b] # None

AwaitRefresh(k) ==
  LET b == Tab(k)
  IN /\ Retriable(k)
     /\ Goto(k, "wait")
     /\ \/ /\ Refreshing(b)
           /\ call' = [call EXCEPT ![k].awaits = promise[b]]
           /\ UNCHANGED <<promise, refresh>>
        \/ /\ ~Refreshing(b)
           /\ call' = [call EXCEPT ![k].awaits = k]
           /\ promise' = [promise EXCEPT ![b] = k]
           /\ refresh' = [refresh EXCEPT ![k] =
                [NoRefresh EXCEPT !.phase = "sent", !.presented = cookie]]
     /\ UNCHANGED <<server, browser, lost>>

\* CsrfGuard and the controller: all cookies were set by one answer.
HasCookies(c) == c # Nothing

\* A refresh that presents a token that is not live is refused, and changes
\* nothing (its revocation is rolled back); any refresh may fail otherwise.
ServeRefresh(k) ==
  LET c == refresh[k].presented
  IN /\ refresh[k].phase = "sent"
     /\ \/ \E t \in Tokens :
             /\ HasCookies(c) /\ live[c.session] = c.token
             /\ Server!Rotate(c.session, t)
             /\ issuedTo' = [issuedTo EXCEPT ![t] = c.session]
             /\ spentBy' = [spentBy EXCEPT ![c.token] = Tab(k)]
             /\ \/ /\ refresh' = [refresh EXCEPT ![k].phase = "granted", ![k].token = t]
                   /\ UNCHANGED lost
                \/ /\ refresh' = [refresh EXCEPT ![k].phase = "refused"]
                   /\ lost' = lost \cup {c.session}
        \/ /\ refresh' = [refresh EXCEPT ![k].phase = "refused"]
           /\ UNCHANGED <<live, opened, spent, issuedTo, spentBy, lost>>
     /\ UNCHANGED <<expired, browser, promise, pc, call>>

\* (variant of Result) the session is stored again if it was cleared
ResultAnyway(k) == refresh[k].token

\* What the promise resolves to: null when the tab has signed out meanwhile.
Result(k) == IF stored[Tab(k)] = Nothing THEN None ELSE refresh[k].token

\* (variant of Settled) the finally block is missing
SettledNever(b) == promise

\* The finally block.
Settled(b) == [promise EXCEPT ![b] = None]

\* The refresh settles; who waits for it sends its call again or signs out.
RefreshSettles(k) ==
  LET b == Tab(k)
      result == Result(k)
      waiting == {q \in Calls : At(q, "wait") /\ call[q].awaits = k}
      session == refresh[k].presented.session
  IN /\ refresh[k].phase \in {"granted", "refused"}
     /\ IF refresh[k].phase = "granted"
        THEN SetSessionCookies([session |-> session, token |-> refresh[k].token])
        ELSE UNCHANGED cookie
     /\ IF result = None
        THEN /\ Clear(b)
             /\ pc' = [q \in Calls |-> IF q \in waiting THEN "idle" ELSE pc[q]]
             /\ call' = [q \in Calls |-> IF q \in waiting THEN NoCall ELSE call[q]]
        ELSE /\ Save(b, [session |-> IF stored[b] = Nothing THEN session ELSE stored[b].session,
                         token |-> result])
             /\ pc' = [q \in Calls |-> IF q \in waiting THEN "sent" ELSE pc[q]]
             /\ call' = [q \in Calls |->
                  IF q \in waiting
                  THEN [call[q] EXCEPT !.access = result, !.skipRefresh = TRUE, !.awaits = None]
                  ELSE call[q]]
     /\ promise' = Settled(b)
     /\ refresh' = [refresh EXCEPT ![k] = NoRefresh]
     /\ UNCHANGED <<server, layout, lost>>

-----------------------------------------------------------------------------
(* What else happens to the server and the tabs.                           *)

Expire(t) ==
  /\ issuedTo[t] # None /\ t \notin expired
  /\ expired' = expired \cup {t}
  /\ UNCHANGED <<live, opened, spent, issuedTo, spentBy, browser, calls, lost>>

\* Signed out on another device, reset, deactivated or expired.
Revoke(s) == EndSession(s) /\ UNCHANGED <<browser, calls>>

\* Reloading a tab drops its calls; sessionStorage and the cookies stay.  What
\* the server does with a request of theirs later it can as well do just before
\* the reload, and the answer is lost either way: a refresh (lost, below) that
\* comes second to another with the same token is refused and changes nothing,
\* a logout closes the session as Revoke does, a login opens one nobody holds.
Reload(b) ==
  LET mine == {k \in Calls : Tab(k) = b}
  IN /\ mine # {}
     /\ pc' = [k \in Calls |-> IF k \in mine THEN "idle" ELSE pc[k]]
     /\ call' = [k \in Calls |-> IF k \in mine THEN NoCall ELSE call[k]]
     /\ refresh' = [k \in Calls |-> IF k \in mine THEN NoRefresh ELSE refresh[k]]
     /\ promise' = [promise EXCEPT ![b] = None]
     /\ lost' = lost \cup {refresh[k].presented.session :
                             k \in {q \in mine : refresh[q].phase = "granted"}}
     /\ Mount(b, stored[b])
     /\ UNCHANGED <<server, cookie, stored>>

WebNext ==
  \/ \E k \in Calls, b \in Tabs : LogIn(k, b) \/ Load(k, b) \/ Switch(k, b) \/ LogOut(k, b)
  \/ \E k \in Calls :
       \/ ServeLogin(k) \/ Serve(k)
       \/ Receive(k) \/ Throw(k)
       \/ AwaitRefresh(k) \/ ServeRefresh(k) \/ RefreshSettles(k)
  \/ \E t \in Tokens : Expire(t)
  \/ \E s \in Sessions : Revoke(s)
  \/ \E b \in Tabs : Reload(b)

WebSpec == WebInit /\ [][WebNext]_webVars
-----------------------------------------------------------------------------
(* Properties                                                              *)

(* Nobody waits in vain: the refresh a call waits for is under way in its  *)
(* own tab, and so is the one a tab's promise stands for, however calls    *)
(* join it, reloads drop it and answers settle it.                         *)
NobodyWaitsInVain ==
  LET UnderWay(q, b) == refresh[q] # NoRefresh /\ Tab(q) = b
  IN /\ \A k \in Calls : At(k, "wait") => UnderWay(call[k].awaits, Tab(k))
     /\ \A b \in Tabs : promise[b] # None => UnderWay(promise[b], b)

(* However often a call is refused, refreshed and sent again, what it asks *)
(* of the server is done once at most.                                     *)
AtMostOneEffect == \A k \in Calls : call[k].effects <= 1

(* A tab never spends its own refresh token under its feet: when a refresh *)
(* presents a used token of an open session, another tab used it, or the   *)
(* answer that brought its successor was lost.                             *)
NoSelfRefusal ==
  \A k \in Calls :
    LET c == refresh[k].presented
    IN refresh[k].phase = "sent" /\ c # Nothing /\ c.token \in spent /\ live[c.session] # None
         => c.session \in lost \/ spentBy[c.token] # Tab(k)

(* A tab that has signed out stays signed out until somebody logs in, even *)
(* if a refresh is answered afterwards; only switching the organization,   *)
(* or accepting an invitation, writes back the session it has captured.    *)
SignedOutStaysOut ==
  [][\A b \in Tabs : stored[b] = Nothing /\ stored'[b] # Nothing =>
       \E k \in Calls : Tab(k) = b /\ At(k, "ok") /\ call[k].kind \in {"login", "switch"}]_webVars
=============================================================================
