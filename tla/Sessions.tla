------------------------------ MODULE Sessions ------------------------------
(***************************************************************************)
(* auth-service: the refresh sessions of one user, their rotation, and     *)
(* what ends them.  (domain/sessions.ts, routes/auth.routes.ts,            *)
(* routes/admin.routes.ts; one user, since no statement touches two.)      *)
(*                                                                         *)
(* No route uses a transaction: every statement commits on its own and an  *)
(* action is one statement, or several of which only the last depends on   *)
(* what can change.  A session stands for its refresh token, which only    *)
(* the answer of a request makes known; a family is named after its first  *)
(* session.  Abandon is a refusal (expired token, bad password, disabled   *)
(* account, rate limit), an error or a crash.                              *)
(***************************************************************************)
EXTENDS Naturals, FiniteSets

CONSTANTS
    Session,        \* ids of sessions
    Handler,        \* requests that may be in flight together
    MaxVersion,     \* bound: users.token_version
    None

ASSUME SessionNoneAssumption == None \notin Session
ASSUME VersionAssumption == MaxVersion \in Nat \ {0}

VARIABLES
    account,        \* users.status
    tokenVersion,   \* users.token_version
    session,        \* sessions
    issued,         \* refresh tokens that reached the client
    access,         \* token_version of the access tokens that reached the client
    handler,        \* requests in flight
    ended,          \* history: families ended by the reuse of a token or a logout-all
    late,           \* history: sessions from a request such a revocation crossed
    split,          \* history: families two of whose refreshes overlapped, or one died halfway
    halfway         \* history: the latest disable died before it revoked anything

history == <<ended, late, split, halfway>>
vars == <<account, tokenVersion, session, issued, access, handler, history>>

TypeOK ==
    /\ account \in {"active", "disabled"}
    /\ tokenVersion \in 1..MaxVersion
    /\ session \in [Session -> [status : {"absent", "live", "revoked"},
                                family : Session \cup {None}, parent : Session \cup {None},
                                replacedBy : Session \cup {None}]]
    /\ issued \in SUBSET Session
    /\ access \in SUBSET (1..MaxVersion)
    /\ handler \in [Handler ->
         [pc : {"idle", "login", "live", "checked", "inserted", "answer", "reused",
                "bump", "disabling", "disabled"},
          session : Session \cup {None}, next : Session \cup {None}, version : 0..MaxVersion,
          crossed : BOOLEAN]]
    /\ ended \in SUBSET Session
    /\ late \in SUBSET Session
    /\ split \in SUBSET Session
    /\ halfway \in BOOLEAN

Idle == [pc |-> "idle", session |-> None, next |-> None, version |-> 0, crossed |-> FALSE]

Init ==
    /\ account = "active"
    /\ tokenVersion = 1
    /\ session = [s \in Session |-> [status |-> "absent", family |-> None, parent |-> None,
                                     replacedBy |-> None]]
    /\ issued = {}
    /\ access = {}
    /\ handler = [h \in Handler |-> Idle]
    /\ ended = {} /\ late = {} /\ split = {} /\ halfway = FALSE

Live == {s \in Session : session[s].status = "live"}
Of(f) == {s \in Session : session[s].family = f}
Families == {f \in Session : Of(f) # {}}
Goes(h, request) == handler' = [handler EXCEPT ![h] = request]
At(h, pc) == handler[h].pc = pc

\* UPDATE sessions SET revokedAt .. WHERE .. AND revokedAt IS NULL
Revoked(set) ==
    [s \in Session |-> IF s \in set \cap Live
                       THEN [session[s] EXCEPT !.status = "revoked"] ELSE session[s]]

\* A revocation of whole families crosses the requests with one of these pcs that are on
\* their way to insert a session into one of them, or a new family if all are revoked;
\* h, the revoking request, goes on with request.
Crosses(h, request, families, pcs) ==
    handler' = [g \in Handler |->
      IF g = h THEN request
      ELSE [handler[g] EXCEPT !.crossed =
              \/ @
              \/ At(g, "login") /\ families = Session
              \/ handler[g].pc \in pcs /\ session[handler[g].session].family \in families]]

-----------------------------------------------------------------------------
(* POST /v1/auth/login, and signup after its insert of the user.            *)

LoadLogin(h) ==
    /\ At(h, "idle")
    /\ account = "active"
    /\ Goes(h, [Idle EXCEPT !.pc = "login", !.version = tokenVersion])
    /\ UNCHANGED <<account, tokenVersion, session, issued, access, history>>

(* createSession. *)
CreateSession(h, n) ==
    /\ At(h, "login")
    /\ session[n].status = "absent"
    /\ session' = [session EXCEPT ![n] = [status |-> "live", family |-> n, parent |-> None,
                                          replacedBy |-> None]]
    /\ late' = IF handler[h].crossed THEN late \cup {n} ELSE late
    /\ Goes(h, [handler[h] EXCEPT !.pc = "answer", !.next = n])
    /\ UNCHANGED <<account, tokenVersion, issued, access, ended, split, halfway>>

-----------------------------------------------------------------------------
(* POST /v1/auth/refresh: rotateSession.                                    *)

Rotating(s) == {h \in Handler : handler[h].session = s /\ handler[h].pc \in
                                  {"live", "checked", "inserted"}}

LoadSession(h, s) ==
    /\ At(h, "idle")
    /\ s \in issued
    /\ Goes(h, [Idle EXCEPT !.pc = IF s \in Live THEN "live" ELSE "reused", !.session = s])
    /\ split' = IF s \in Live /\ Rotating(s) # {} THEN split \cup {session[s].family} ELSE split
    /\ UNCHANGED <<account, tokenVersion, session, issued, access, ended, late, halfway>>

(* Mutant: the account's status is not looked at.                           *)
CheckAnyUser(h) ==
    /\ At(h, "live")
    /\ Goes(h, [handler[h] EXCEPT !.pc = "checked", !.version = tokenVersion])
    /\ UNCHANGED <<account, tokenVersion, session, issued, access, history>>

CheckUser(h) ==
    /\ At(h, "live")
    /\ account = "active"
    /\ Goes(h, [handler[h] EXCEPT !.pc = "checked", !.version = tokenVersion])
    /\ UNCHANGED <<account, tokenVersion, session, issued, access, history>>

InsertNext(h, n) ==
    LET current == handler[h].session
    IN  /\ At(h, "checked")
        /\ session[n].status = "absent"
        /\ session' = [session EXCEPT ![n] =
             [status |-> "live", family |-> session[current].family, parent |-> current,
              replacedBy |-> None]]
        /\ late' = IF handler[h].crossed \/ current \in late THEN late \cup {n} ELSE late
        /\ Goes(h, [handler[h] EXCEPT !.pc = "inserted", !.next = n])
        /\ UNCHANGED <<account, tokenVersion, issued, access, ended, split, halfway>>

(* Mutant: the replacement is noted and the old session left alive.         *)
LinkOnly(h) ==
    LET own == handler[h]
    IN  /\ At(h, "inserted")
        /\ session' = [session EXCEPT ![own.session].replacedBy = own.next]
        /\ Goes(h, [own EXCEPT !.pc = "answer"])
        /\ UNCHANGED <<account, tokenVersion, issued, access, history>>

(* Mutant: the new session is revoked instead.                              *)
RevokeNew(h) ==
    LET own == handler[h]
    IN  /\ At(h, "inserted")
        /\ session' = [session EXCEPT ![own.next].status = "revoked",
                                      ![own.session].replacedBy = own.next]
        /\ Goes(h, [own EXCEPT !.pc = "answer"])
        /\ UNCHANGED <<account, tokenVersion, issued, access, history>>

RevokeOld(h) ==
    LET own == handler[h]
    IN  /\ At(h, "inserted")
        /\ session' = [session EXCEPT ![own.session].status = "revoked",
                                      ![own.session].replacedBy = own.next]
        /\ Goes(h, [own EXCEPT !.pc = "answer"])
        /\ UNCHANGED <<account, tokenVersion, issued, access, history>>

(* Mutant: the answer leaves before the old session is revoked.             *)
AnswerEarly(h) ==
    /\ handler[h].pc \in {"inserted", "answer"}
    /\ issued' = issued \cup {handler[h].next}
    /\ access' = access \cup {handler[h].version}
    /\ Goes(h, Idle)
    /\ UNCHANGED <<account, tokenVersion, session, history>>

(* signAccessToken with the version read before, and the refresh cookie.    *)
Answer(h) ==
    /\ At(h, "answer")
    /\ issued' = issued \cup {handler[h].next}
    /\ access' = access \cup {handler[h].version}
    /\ Goes(h, Idle)
    /\ UNCHANGED <<account, tokenVersion, session, history>>

(* Mutant: only the session of the replayed token is revoked.               *)
RevokeReplayed(h) ==
    LET f == session[handler[h].session].family
    IN  /\ At(h, "reused")
        /\ session' = Revoked({handler[h].session})
        /\ ended' = ended \cup {f}
        /\ Crosses(h, Idle, {f}, {"live", "checked"})
        /\ UNCHANGED <<account, tokenVersion, issued, access, late, split, halfway>>

(* revokeSessionFamily, for a token that was rotated or logged out before.  *)
RevokeFamily(h) ==
    LET f == session[handler[h].session].family
    IN  /\ At(h, "reused")
        /\ session' = Revoked(Of(f))
        /\ ended' = ended \cup {f}
        /\ Crosses(h, Idle, {f}, {"live", "checked"})
        /\ UNCHANGED <<account, tokenVersion, issued, access, late, split, halfway>>

-----------------------------------------------------------------------------
(* POST /v1/auth/logout.                                                    *)
Logout(s) ==
    /\ s \in issued
    /\ session' = Revoked({s})
    /\ UNCHANGED <<account, tokenVersion, issued, access, handler, history>>

(* POST /v1/auth/logout-all, with an access token of version v ...          *)
LogoutAll(h, v) ==
    /\ At(h, "idle")
    /\ v \in access
    /\ v < MaxVersion
    /\ session' = Revoked(Session)
    /\ ended' = ended \cup Families
    /\ Crosses(h, [Idle EXCEPT !.pc = "bump", !.version = v], Session, {"live", "checked"})
    /\ UNCHANGED <<account, tokenVersion, issued, access, late, split, halfway>>

(* ... the version written is the token's plus one, whatever the row has.   *)
BumpVersion(h) ==
    /\ At(h, "bump")
    /\ tokenVersion' = handler[h].version + 1
    /\ Goes(h, Idle)
    /\ UNCHANGED <<account, session, issued, access, history>>

-----------------------------------------------------------------------------
(* POST /v1/admin/users/:id/disable: three statements.                      *)
Disable(h) ==
    /\ At(h, "idle")
    /\ tokenVersion < MaxVersion
    /\ account' = "disabled"
    /\ Goes(h, [Idle EXCEPT !.pc = "disabling", !.version = tokenVersion])
    /\ UNCHANGED <<tokenVersion, session, issued, access, history>>

RevokeDisabled(h) ==
    /\ At(h, "disabling")
    /\ session' = Revoked(Session)
    /\ Crosses(h, [handler[h] EXCEPT !.pc = "disabled"], Session, {"checked"})
    /\ halfway' = FALSE
    /\ UNCHANGED <<account, tokenVersion, issued, access, ended, late, split>>

BumpDisabled(h) ==
    /\ At(h, "disabled")
    /\ tokenVersion' = handler[h].version + 1
    /\ Goes(h, Idle)
    /\ UNCHANGED <<account, session, issued, access, history>>

Enable ==
    /\ account' = "active"
    /\ UNCHANGED <<tokenVersion, session, issued, access, handler, history>>

Abandon(h) ==
    /\ handler[h] # Idle
    /\ split' = IF At(h, "inserted")
                THEN split \cup {session[handler[h].session].family} ELSE split
    /\ halfway' = (halfway \/ At(h, "disabling"))
    /\ Goes(h, Idle)
    /\ UNCHANGED <<account, tokenVersion, session, issued, access, ended, late>>

-----------------------------------------------------------------------------
RefreshNext(h) ==
    \/ \E s \in Session : LoadSession(h, s) \/ InsertNext(h, s)
    \/ CheckUser(h) \/ RevokeOld(h) \/ RevokeFamily(h)

AdminNext(h) == Disable(h) \/ RevokeDisabled(h) \/ BumpDisabled(h)

Next ==
    \/ Enable
    \/ \E s \in Session : Logout(s)
    \/ \E h \in Handler :
         \/ LoadLogin(h) \/ \E s \in Session : CreateSession(h, s)
         \/ RefreshNext(h) \/ Answer(h)
         \/ \E v \in access : LogoutAll(h, v)
         \/ BumpVersion(h) \/ AdminNext(h) \/ Abandon(h)

Spec == Init /\ [][Next]_vars

-----------------------------------------------------------------------------
(* A family is one chain of sessions (SessionFamily), unless two of its     *)
(* refreshes overlapped or one died between its insert and its update.      *)
(* What stands for it is the session a refresh has found alive, until that  *)
(* refresh is through, though the session be revoked meanwhile; without a   *)
(* refresh the session that is alive.  So a revocation that crosses a       *)
(* refresh comes before it or is of the new session, and no other sequence  *)
(* of statements revives a family, forks it, or goes back to an old token   *)
(* (sessions.ts:56-124 against the revocations in 126-145).                 *)
Arriving(s) == \E h \in Handler : At(h, "inserted") /\ handler[h].next = s

Stands(s) ==
    /\ session[s].family \notin split
    /\ \/ session[s].status = "live" /\ ~Arriving(s)
       \/ Rotating(s) # {}

Held(f) == {s \in Of(f) : Stands(s)}

Gone == {s \in Session : session[s].status = "revoked" /\ ~Stands(s)}

Chain == INSTANCE SessionFamily WITH
    Token  <- Session,
    holder <- [f \in Session |-> Held(f)],
    spent  <- Gone,
    loose  <- split

FamiliesAreChains == Chain!FamilySpec

(* Whoever holds a rotated token can be sure the token it replaced is spent *)
(* (schema.ts:29-32): its session is revoked and names a successor.         *)
AnsweredIsRotated ==
    \A s \in issued : session[s].parent # None =>
        LET old == session[session[s].parent]
        IN  old.status = "revoked" /\ old.replacedBy # None

(* The reuse of a spent token (sessions.ts:50-55) and a logout-all end the  *)
(* families they revoke for good: afterwards only a session from a refresh  *)
(* that had already found its token alive, or a successor of such a         *)
(* session, is alive in one.                                                *)
EndedStaysEnded ==
    \A f \in ended : Of(f) \cap Live \subseteq late

(* A disabled account is logged out (admin.routes.ts:37-38): once a disable *)
(* has revoked the sessions, the only live ones are those of requests that  *)
(* were past the check of the account by then.                              *)
DisabledIsOut ==
    account = "disabled" /\ ~halfway /\ (\A h \in Handler : ~At(h, "disabling"))
        => Live \subseteq late
=============================================================================
