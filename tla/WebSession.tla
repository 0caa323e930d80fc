----------------------------- MODULE WebSession -----------------------------
(***************************************************************************)
(* One browser's use of the sessions of Sessions: pages in several tabs,   *)
(* one cookie, and calls whose answers may be lost or come in any order.   *)
(* (platform-web lib/auth-context.tsx, lib/backend-proxy.ts, the login     *)
(* page and the navigation bar; auth-service routes/auth.routes.ts.)       *)
(*                                                                         *)
(* The access token lives in a page, next to its user, and is lost with    *)
(* it; the refresh cookie is the tabs' only common state.  The server's    *)
(* side of a call is the steps of Sessions, and goes on when the page that *)
(* made it is reloaded or sees it fail.                                    *)
(***************************************************************************)
EXTENDS Sessions

CONSTANT Tab

ASSUME TabAssumption == None \notin Tab

VARIABLES
    jar,            \* the refresh cookie
    user,           \* tabs whose AuthProvider has a user
    call,           \* calls under way, by the request that serves them
    loggedOut,      \* history: families of the cookies a logout revoked
    astray,         \* history: families two calls of which carried one cookie at a time, or
                    \*          an answer of which was lost
    kept,           \* history: families the cookie of which outlived its logout
    alarmed         \* history: families ended because one of these calls reused a token

browserHistory == <<loggedOut, astray, kept, alarmed>>
browserVars == <<jar, user, call, browserHistory>>
webVars == <<vars, browserVars>>

NoCall == [op |-> "none", at |-> "idle", tab |-> None, cookie |-> None]

WebTypeOK ==
    /\ jar \in Session \cup {None}
    /\ user \in SUBSET Tab
    /\ call \in [Handler -> [op : {"none", "refresh", "me", "login", "logout"},
                             at : {"idle", "sent", "served", "ok", "failed"},
                             tab : Tab \cup {None}, cookie : Session \cup {None}]]
    /\ loggedOut \in SUBSET Session
    /\ astray \in SUBSET Session
    /\ kept \in SUBSET Session
    /\ alarmed \in SUBSET Session

\* Every tab has a page that found no cookie.
WebInit ==
    /\ Init
    /\ jar = None
    /\ user = {}
    /\ call = [h \in Handler |-> NoCall]
    /\ loggedOut = {} /\ astray = {} /\ kept = {} /\ alarmed = {}

Family(s) == IF s = None THEN {} ELSE {session[s].family}

Is(h, op, at) == call[h].op = op /\ call[h].at = at

\* A call that rotates or revokes its cookie's session.
Cookies(calls) == {calls[h].cookie : h \in {g \in Handler : calls[g].op \in {"refresh", "logout"}}}

\* Tab t starts a call with the cookie of the moment; calls are those under way, and
\* families those whose answers its page no longer waits for.
Sends(h, t, op, calls, families) ==
    /\ calls[h] = NoCall
    /\ At(h, "idle")
    /\ call' = [calls EXCEPT ![h] = [op |-> op, at |-> "sent", tab |-> t,
                                     cookie |-> IF op = "login" THEN None ELSE jar]]
    /\ astray' = astray \cup families
         \cup IF op # "login" /\ jar \in Cookies(calls) THEN Family(jar) ELSE {}

Receives(h) == call' = [call EXCEPT ![h] = NoCall]

\* A call nobody waits for is over once the server is done with it.
Settled(c) ==
    IF c.tab = None /\ (c.op = "me" \/ c.at \in {"ok", "failed"}) THEN NoCall ELSE c

Becomes(h, state) == call' = [call EXCEPT ![h] = Settled([@ EXCEPT !.at = state])]

-----------------------------------------------------------------------------
(* The pages.                                                               *)

\* The calls a tab's page has under way are its own no more.
Orphaned(t) == [h \in Handler |-> IF call[h].tab = t
                                  THEN Settled([call[h] EXCEPT !.tab = None]) ELSE call[h]]

\* The families of the answers that may still come.
Unanswered(handlers) ==
    UNION {Family(call[g].cookie) :
             g \in {g \in handlers : call[g].op \in {"refresh", "logout"} /\ call[g].at # "failed"}}

(* A page is opened or reloaded: its first refresh.                         *)
Load(t, h) ==
    /\ Sends(h, t, "refresh", Orphaned(t), Unanswered({g \in Handler : call[g].tab = t}))
    /\ user' = user \ {t}
    /\ UNCHANGED <<vars, jar, loggedOut, kept, alarmed>>

(* Mutant: the proxy leaves the cookie's path as it is, and the browser     *)
(* never sends the new cookie.                                              *)
CookieAstray(h, n) ==
    /\ Is(h, "refresh", "ok") /\ call[h].tab # None
    /\ n \in issued /\ session[n].parent = call[h].cookie
    /\ call' = [call EXCEPT ![h].op = "me", ![h].at = "sent", ![h].cookie = None]
    /\ UNCHANGED <<vars, jar, user, browserHistory>>

(* The refresh is answered: the cookie, and a call of /me with the token.   *)
RefreshAnswered(h, n) ==
    /\ Is(h, "refresh", "ok") /\ call[h].tab # None
    /\ n \in issued /\ session[n].parent = call[h].cookie
    /\ jar' = n
    /\ call' = [call EXCEPT ![h].op = "me", ![h].at = "sent", ![h].cookie = None]
    /\ UNCHANGED <<vars, user, browserHistory>>

(* The end of the page's first calls: /me is answered or fails ...          *)
MeAnswered(h) ==
    /\ Is(h, "me", "sent") /\ call[h].tab # None
    /\ user' \in {user \cup {call[h].tab}, user \ {call[h].tab}}
    /\ Receives(h)
    /\ UNCHANGED <<vars, jar, browserHistory>>

(* ... or the refresh was refused.  Either way they have the last word on   *)
(* the user, over a login that was answered in the meantime.                *)
RefreshRefused(h) ==
    /\ Is(h, "refresh", "failed") /\ call[h].tab # None
    /\ user' = user \ {call[h].tab}
    /\ Receives(h)
    /\ UNCHANGED <<vars, jar, browserHistory>>

\* isLoading.
Loading(t) == \E h \in Handler : call[h].tab = t /\ call[h].op \in {"refresh", "me"}

(* login(), from a page without a user (nav.tsx links to the form for no    *)
(* other): the form waits for its own call only, not for the page's first.  *)
PressLogin(t, h) ==
    /\ t \notin user
    /\ \A g \in Handler : call[g].tab = t => call[g].op # "login"
    /\ Sends(h, t, "login", call, {})
    /\ UNCHANGED <<vars, jar, user, loggedOut, kept, alarmed>>

LoginAnswered(h, n) ==
    /\ Is(h, "login", "ok") /\ call[h].tab # None
    /\ n = call[h].cookie
    /\ jar' = n
    /\ user' = user \cup {call[h].tab}
    /\ Receives(h)
    /\ UNCHANGED <<vars, browserHistory>>

LoginRefused(h) ==
    /\ Is(h, "login", "failed") /\ call[h].tab # None
    /\ Receives(h)
    /\ UNCHANGED <<vars, jar, user, browserHistory>>

(* logout().                                                                *)
PressLogout(t, h) ==
    /\ t \in user /\ ~Loading(t)
    /\ Sends(h, t, "logout", call, {})
    /\ UNCHANGED <<vars, jar, user, loggedOut, kept, alarmed>>

(* The status of the answer is not looked at.  The removal names no path,   *)
(* unlike the cookie: whether the browser's goes is the library's choice.   *)
LogoutAnswered(h) ==
    /\ call[h].op = "logout" /\ call[h].at \in {"ok", "failed"} /\ call[h].tab # None
    /\ user' = user \ {call[h].tab}
    /\ \/ call[h].at = "ok" /\ jar' = None /\ kept' = kept
       \/ jar' = jar /\ kept' = IF call[h].at = "ok" THEN kept \cup Family(jar) ELSE kept
    /\ Receives(h)
    /\ UNCHANGED <<vars, loggedOut, astray, alarmed>>

(* The page sees a call fail, on the network, that the server goes on with. *)
Lose(h) ==
    /\ call[h].tab # None /\ call[h].at # "failed"
    /\ user' = IF call[h].op \in {"refresh", "me"} THEN user \ {call[h].tab} ELSE user
    /\ call' = [call EXCEPT ![h] = Settled([@ EXCEPT !.tab = None])]
    /\ astray' = astray \cup Unanswered({h})
    /\ UNCHANGED <<vars, jar, loggedOut, kept, alarmed>>

-----------------------------------------------------------------------------
(* The server: the steps of Sessions.                                       *)

Begin(h) ==
    \/ /\ Is(h, "refresh", "sent") /\ call[h].cookie # None
       /\ LoadSession(h, call[h].cookie)
       /\ Becomes(h, "served")
       /\ UNCHANGED <<jar, user, browserHistory>>
    \/ /\ Is(h, "login", "sent")
       /\ LoadLogin(h)
       /\ Becomes(h, "served")
       /\ UNCHANGED <<jar, user, browserHistory>>

(* No cookie to refresh with, or a logout that failed; a refresh or a login *)
(* refused later is ServeAbandon.                                           *)
Reject(h) ==
    /\ (Is(h, "refresh", "sent") /\ call[h].cookie = None) \/ Is(h, "logout", "sent")
    /\ Becomes(h, "failed")
    /\ UNCHANGED <<vars, jar, user, browserHistory>>

Serve(h) ==
    /\ call[h].at = "served"
    /\ \/ \E n \in Session : CreateSession(h, n) \/ InsertNext(h, n)
       \/ CheckUser(h) \/ RevokeOld(h)
    /\ UNCHANGED browserVars

(* A login's cookie is kept with the call until the page takes it.          *)
ServeAnswer(h) ==
    /\ call[h].at = "served"
    /\ call' = [call EXCEPT ![h] = Settled([@ EXCEPT !.at = "ok",
                                   !.cookie = IF call[h].op = "login" THEN handler[h].next
                                              ELSE call[h].cookie])]
    /\ Answer(h)
    /\ UNCHANGED <<jar, user, browserHistory>>

ServeReuse(h) ==
    /\ call[h].at = "served"
    /\ RevokeFamily(h)
    /\ alarmed' = alarmed \cup Family(call[h].cookie)
    /\ Becomes(h, "failed")
    /\ UNCHANGED <<jar, user, loggedOut, astray, kept>>

ServeAbandon(h) ==
    /\ call[h].at = "served"
    /\ astray' = IF handler[h].pc \in {"inserted", "answer"} THEN astray \cup Family(call[h].cookie)
                 ELSE astray
    /\ Abandon(h)
    /\ Becomes(h, "failed")
    /\ UNCHANGED <<jar, user, loggedOut, kept, alarmed>>

(* Mutant: a logout takes the cookie and leaves the session.                *)
ServeForgetting(h) ==
    /\ Is(h, "logout", "sent")
    /\ loggedOut' = loggedOut \cup Family(call[h].cookie)
    /\ Becomes(h, "ok")
    /\ UNCHANGED <<vars, jar, user, astray, kept, alarmed>>

ServeLogout(h) ==
    /\ Is(h, "logout", "sent")
    /\ IF call[h].cookie = None THEN UNCHANGED vars ELSE Logout(call[h].cookie)
    /\ loggedOut' = loggedOut \cup Family(call[h].cookie)
    /\ Becomes(h, "ok")
    /\ UNCHANGED <<jar, user, astray, kept, alarmed>>

-----------------------------------------------------------------------------
PagesNext(h) ==
    \/ \E t \in Tab : Load(t, h) \/ PressLogin(t, h) \/ PressLogout(t, h)
    \/ \E n \in Session : RefreshAnswered(h, n) \/ LoginAnswered(h, n)
    \/ MeAnswered(h) \/ RefreshRefused(h) \/ LoginRefused(h) \/ LogoutAnswered(h)
    \/ Lose(h)

WebNext ==
    \E h \in Handler :
        \/ PagesNext(h)
        \/ Begin(h) \/ Reject(h) \/ Serve(h) \/ ServeAnswer(h)
        \/ ServeReuse(h) \/ ServeAbandon(h) \/ ServeLogout(h)

WebSpec == WebInit /\ [][WebNext]_webVars

-----------------------------------------------------------------------------
(* "Any reuse of a rotated token is treated as theft" (sessions.ts:50-55):  *)
(* a browser nobody has stolen from raises that alarm only for a family two *)
(* calls of which carried one cookie at a time (two tabs opened together    *)
(* will do), an answer of which was lost after the server had acted, or the *)
(* cookie of which outlived its logout.                                     *)
NoFalseAlarm == alarmed \subseteq astray \cup kept

(* The cookie the tabs share keeps up with the rotations: with no call      *)
(* under way that could change it, and barring those accidents, it is the   *)
(* token of a live session, whatever logins and refreshes of other families *)
(* overlapped; or there is none.                                            *)
CookieInStep ==
    (\A h \in Handler : call[h].op \in {"none", "me"}) =>
        jar = None \/ jar \in Live \/ session[jar].family \in astray \cup kept

(* A logout revokes the one session of its cookie, and that is enough: no   *)
(* session of the family is alive afterwards, unless a call crossed the     *)
(* logout or an answer was lost.                                            *)
LogoutHolds == \A s \in Live : session[s].family \in loggedOut => session[s].family \in astray
=============================================================================
