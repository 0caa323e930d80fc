--------------------------- MODULE Sessions_proofs ---------------------------
(***************************************************************************)
(* Proofs about Sessions for any sessions, requests and versions: what a   *)
(* revocation, a disable and an answered refresh promise.  The pages of    *)
(* one browser (WebSession) use auth-service as Sessions says, so that     *)
(* they rely on the same promises; and, for any tabs and calls, the        *)
(* browser raises no false alarm, its cookie is current, and a logout of   *)
(* one session ends the family: a family that met with no accident has     *)
(* one call at a time, and what that call's token is depends on how far    *)
(* it has come.                                                            *)
(***************************************************************************)
EXTENDS WebSession, FiniteSetTheorems, TLAPS

USE SessionNoneAssumption, VersionAssumption

Row == [status : {"absent", "live", "revoked"}, family : Session \cup {None},
        parent : Session \cup {None}, replacedBy : Session \cup {None}]

Request == [pc : {"idle", "login", "live", "checked", "inserted", "answer", "reused",
                  "bump", "disabling", "disabled"},
            session : Session \cup {None}, next : Session \cup {None},
            version : 0..MaxVersion, crossed : BOOLEAN]

Known == {s \in Session : session[s].status # "absent"}

(* Who is named exists: the family and the parent of a session, what        *)
(* reached a client, a family that was ended, ...                           *)
RowsRefer ==
    /\ \A s \in Known : session[s].family \in Known
                        /\ (session[s].parent # None => session[s].parent \in Known)
    /\ \A s \in Session \ Known : session[s].family = None
    /\ issued \subseteq Known
    /\ ended \subseteq Known

(* ... and what a request works on.                                         *)
Refers(h) ==
    /\ handler[h].pc \in {"live", "checked", "inserted", "reused"} => handler[h].session \in Known
    /\ handler[h].pc \in {"inserted", "answer"} => handler[h].next \in Known

References == RowsRefer /\ \A h \in Handler : Refers(h)

(* The version a request answers with, or writes plus one, is one.          *)
VersionFits(h) ==
    /\ handler[h].pc \in {"login", "checked", "inserted", "answer"} => handler[h].version # 0
    /\ handler[h].pc \in {"bump", "disabling", "disabled"} => handler[h].version # MaxVersion

Versions == \A h \in Handler : VersionFits(h)

(* A request that may still insert a session into an ended family was       *)
(* crossed by the end, or works on a session that is late already.          *)
EndSeen(h) ==
    handler[h].pc \in {"live", "checked"} /\ session[handler[h].session].family \in ended
        => handler[h].crossed \/ handler[h].session \in late

(* The account's sessions were revoked since it was disabled: then a        *)
(* request past the check of the account was crossed.                       *)
LoggedOff == account = "disabled" /\ ~halfway /\ (\A h \in Handler : handler[h].pc # "disabling")

DisableSeen(h) == LoggedOff /\ handler[h].pc \in {"login", "checked"} => handler[h].crossed

Spent(s) == session[s].status = "revoked" /\ session[s].replacedBy # None

(* A request that is about to answer has spent the token it was called with;*)
(* before that, nobody has the token it will answer with.                   *)
Succeeds(h) ==
    /\ handler[h].pc = "inserted" =>
         /\ session[handler[h].next].parent = handler[h].session
         /\ session[handler[h].next].family = session[handler[h].session].family
         /\ handler[h].next # handler[h].session
         /\ handler[h].next \notin issued
    /\ handler[h].pc = "answer" /\ session[handler[h].next].parent # None
         => Spent(session[handler[h].next].parent)

OwnNext ==
    \A g, h \in Handler :
        /\ handler[g].pc \in {"inserted", "answer"}
        /\ handler[h].pc \in {"inserted", "answer"}
        /\ handler[g].next = handler[h].next
        => g = h

(* Outside of split, a family has one rotation at a time; while it has one, *)
(* the sessions alive are the old and the new one, and no two are alive     *)
(* otherwise.                                                               *)
Rotates(h, f) == handler[h].pc \in {"live", "checked", "inserted"}
                 /\ session[handler[h].session].family = f

OneRotation ==
    \A f \in Session \ split, g, h \in Handler : Rotates(g, f) /\ Rotates(h, f) => g = h

OldOrNew ==
    \A f \in Session \ split, h \in Handler, s \in Session :
        Rotates(h, f) /\ session[s].status = "live" /\ session[s].family = f
            => \/ s = handler[h].session
               \/ handler[h].pc = "inserted" /\ s = handler[h].next

OneAlive ==
    \A f \in Session \ split, s, t \in Session :
        /\ session[s].status = "live" /\ session[s].family = f
        /\ session[t].status = "live" /\ session[t].family = f
        => \/ s = t
           \/ \E h \in Handler : handler[h].pc = "inserted" /\ handler[h].next \in {s, t}

NotReplaced == \A s \in Session : session[s].status = "live" => session[s].replacedBy = None

Base == TypeOK /\ References /\ Versions
Ends == EndedStaysEnded /\ \A h \in Handler : EndSeen(h)
Disables == (LoggedOff => Live \subseteq late) /\ \A h \in Handler : DisableSeen(h)
Rotations == AnsweredIsRotated /\ OwnNext /\ \A h \in Handler : Succeeds(h)
Chains == OneRotation /\ OldOrNew /\ OneAlive /\ NotReplaced

IInv == Base /\ Ends /\ Disables /\ Rotations /\ Chains

-----------------------------------------------------------------------------
(* What a step does, field by field.  The request h goes on with a pc, a    *)
(* session, its next session, a version and whether it was crossed; the     *)
(* others stay as they are, ...                                             *)
Becoming(h, pc, s, n, v, c) ==
    /\ handler' \in [Handler -> Request]
    /\ handler'[h].pc = pc /\ handler'[h].session = s /\ handler'[h].next = n
    /\ handler'[h].version = v /\ handler'[h].crossed = c

OthersStay(h) ==
    \A g \in Handler \ {h} :
        /\ handler'[g].pc = handler[g].pc /\ handler'[g].session = handler[g].session
        /\ handler'[g].next = handler[g].next /\ handler'[g].version = handler[g].version
        /\ handler[g].crossed => handler'[g].crossed

Turns(h, pc, s, n, v, c) == Becoming(h, pc, s, n, v, c) /\ OthersStay(h)

(* ... a session is inserted, ...                                           *)
Spawns(n, family, parent) ==
    /\ session' \in [Session -> Row]
    /\ session[n].status = "absent"
    /\ session'[n].status = "live" /\ session'[n].replacedBy = None
    /\ session'[n].family = family /\ session'[n].parent = parent
    /\ \A s \in Session \ {n} : session'[s] = session[s]

(* ... or those of a set are revoked.                                       *)
Revokes(set) ==
    /\ session' \in [Session -> Row]
    /\ \A s \in Session :
         /\ session'[s].status = IF s \in set /\ session[s].status = "live"
                                 THEN "revoked" ELSE session[s].status
         /\ session'[s].family = session[s].family
         /\ session'[s].parent = session[s].parent
         /\ session'[s].replacedBy = session[s].replacedBy

(* Sessions are never taken back: they keep their family and their parent,  *)
(* stay spent, and are not revived.                                         *)
Grows ==
    \A s \in Known :
        /\ session'[s].status # "absent"
        /\ session'[s].family = session[s].family /\ session'[s].parent = session[s].parent
        /\ Spent(s) => session'[s].status = "revoked" /\ session'[s].replacedBy # None
        /\ session'[s].status = "live" => session[s].status = "live"

-----------------------------------------------------------------------------
(* What Goes, Crosses and Revoked do of this.                               *)
LEMMA GoesTurns ==
    ASSUME Base, NEW h \in Handler, NEW r \in Request, Goes(h, r)
    PROVE  Turns(h, r.pc, r.session, r.next, r.version, r.crossed)
<1>1. handler \in [Handler -> Request] /\ handler' = [handler EXCEPT ![h] = r]
  BY DEF Base, TypeOK, Goes, Request
<1>2. handler' \in [Handler -> Request] /\ handler'[h] = r
      /\ \A g \in Handler \ {h} : handler'[g] = handler[g]
  BY <1>1
<1> QED
  BY <1>2 DEF Turns, Becoming, OthersStay

LEMMA CrossesTurns ==
    ASSUME Base, NEW h \in Handler, NEW r \in Request, NEW families, NEW pcs,
           Crosses(h, r, families, pcs)
    PROVE  /\ Turns(h, r.pc, r.session, r.next, r.version, r.crossed)
           /\ \A g \in Handler \ {h} :
                /\ handler[g].pc = "login" /\ families = Session => handler'[g].crossed
                /\ handler[g].pc \in pcs /\ session[handler[g].session].family \in families
                     => handler'[g].crossed
<1> DEFINE c(g) == \/ handler[g].crossed
                   \/ At(g, "login") /\ families = Session
                   \/ handler[g].pc \in pcs /\ session[handler[g].session].family \in families
<1>1. \A g \in Handler : handler[g] \in Request
  BY DEF Base, TypeOK, Request
<1>2. \A g \in Handler : c(g) \in BOOLEAN
  BY <1>1 DEF Request
<1>3. handler' = [g \in Handler |-> IF g = h THEN r ELSE [handler[g] EXCEPT !.crossed = c(g)]]
  BY DEF Crosses
<1>4. \A q \in Request, b \in BOOLEAN :
        /\ [q EXCEPT !.crossed = b] \in Request /\ [q EXCEPT !.crossed = b].crossed = b
        /\ [q EXCEPT !.crossed = b].pc = q.pc /\ [q EXCEPT !.crossed = b].session = q.session
        /\ [q EXCEPT !.crossed = b].next = q.next
        /\ [q EXCEPT !.crossed = b].version = q.version
  BY DEF Request
<1> HIDE DEF c
<1>5. ASSUME NEW g \in Handler \ {h}
      PROVE  /\ handler'[g] \in Request /\ handler'[g].crossed = c(g)
             /\ handler'[g].pc = handler[g].pc /\ handler'[g].session = handler[g].session
             /\ handler'[g].next = handler[g].next /\ handler'[g].version = handler[g].version
  <2>1. handler'[g] = [handler[g] EXCEPT !.crossed = c(g)]
    BY <1>3
  <2>2. handler[g] \in Request /\ c(g) \in BOOLEAN
    BY <1>1, <1>2
  <2> DEFINE b == c(g)
             q == handler[g]
  <2>3. handler'[g] = [q EXCEPT !.crossed = b] /\ q \in Request /\ b \in BOOLEAN
    BY <2>1, <2>2
  <2> HIDE DEF b, q
  <2>4. /\ handler'[g] \in Request /\ handler'[g].crossed = b
        /\ handler'[g].pc = q.pc /\ handler'[g].session = q.session
        /\ handler'[g].next = q.next /\ handler'[g].version = q.version
    BY <2>3, <1>4
  <2> QED
    BY <2>4 DEF b, q
<1>6. handler' \in [Handler -> Request] /\ handler'[h] = r
  BY <1>3, <1>5
<1> QED
  BY <1>5, <1>6 DEF c, Turns, Becoming, OthersStay, At

LEMMA RevokedRevokes ==
    ASSUME Base, NEW set, session' = Revoked(set)
    PROVE  Revokes(set)
<1>1. session \in [Session -> Row]
  BY DEF Base, TypeOK, Row
<1> QED
  BY <1>1 DEF Revoked, Live, Row, Revokes

LEMMA RevokesGrows ==
    ASSUME Base, NEW set, Revokes(set)
    PROVE  Grows
BY DEF Revokes, Grows, Known, Spent

-----------------------------------------------------------------------------
(* The actions of Sessions, in these terms.                                 *)
LEMMA EnableDoes ==
    ASSUME Enable
    PROVE  /\ account' = "active"
           /\ UNCHANGED <<tokenVersion, session, issued, access, handler, ended, late, split, halfway>>
BY DEF Enable, history

LEMMA LogoutDoes ==
    ASSUME Base, NEW s \in Session, Logout(s)
    PROVE  /\ Revokes({s})
           /\ s \in issued
           /\ UNCHANGED <<account, tokenVersion, issued, access, handler, ended, late, split, halfway>>
<1>6. session' = Revoked({s})
  BY DEF Logout
<1>7. Revokes({s})
  BY <1>6, RevokedRevokes
<1>q. /\ s \in issued
      /\ UNCHANGED <<account, tokenVersion, issued, access, handler, ended, late, split, halfway>>
  BY DEF Logout, history, At
<1> QED
  BY <1>7, <1>q

LEMMA LoadLoginDoes ==
    ASSUME Base, NEW h \in Handler, LoadLogin(h)
    PROVE  /\ Turns(h, "login", None, None, tokenVersion, FALSE)
           /\ handler[h].pc = "idle"
           /\ account = "active"
           /\ UNCHANGED <<account, tokenVersion, session, issued, access, ended, late, split, halfway>>
<1>0. handler[h] \in Request /\ tokenVersion \in 0..MaxVersion /\ access \subseteq 0..MaxVersion
  BY DEF Base, TypeOK, Request
<1> DEFINE r == [Idle EXCEPT !.pc = "login", !.version = tokenVersion]
<1>1. r \in Request /\ r.pc = "login"
      /\ r.session = None /\ r.next = None /\ r.version = tokenVersion /\ r.crossed = FALSE
  BY <1>0 DEF Request, Idle
<1>2. Goes(h, r)
  BY DEF LoadLogin
<1> HIDE DEF r
<1>3. Turns(h, r.pc, r.session, r.next, r.version, r.crossed)
  BY <1>1, <1>2, GoesTurns
<1>4. Turns(h, "login", None, None, tokenVersion, FALSE)
  BY <1>1, <1>3
<1>5. handler[h].pc = "idle"
  BY <1>0 DEF LoadLogin, At, Idle
<1>q. /\ account = "active"
      /\ UNCHANGED <<account, tokenVersion, session, issued, access, ended, late, split, halfway>>
  BY DEF LoadLogin, history, At
<1> QED
  BY <1>4, <1>5, <1>q

LEMMA CreateSessionDoes ==
    ASSUME Base, NEW h \in Handler, NEW n \in Session, CreateSession(h, n)
    PROVE  /\ Turns(h, "answer", handler[h].session, n, handler[h].version, handler[h].crossed)
           /\ handler[h].pc = "login"
           /\ Spawns(n, n, None)
           /\ late' = IF handler[h].crossed THEN late \cup {n} ELSE late
           /\ UNCHANGED <<account, tokenVersion, issued, access, ended, split, halfway>>
<1>0. handler[h] \in Request /\ tokenVersion \in 0..MaxVersion /\ access \subseteq 0..MaxVersion
  BY DEF Base, TypeOK, Request
<1> DEFINE r == [handler[h] EXCEPT !.pc = "answer", !.next = n]
<1>1. r \in Request /\ r.pc = "answer"
      /\ r.session = handler[h].session /\ r.next = n /\ r.version = handler[h].version /\ r.crossed = handler[h].crossed
  BY <1>0 DEF Request, Idle
<1>2. Goes(h, r)
  BY DEF CreateSession
<1> HIDE DEF r
<1>3. Turns(h, r.pc, r.session, r.next, r.version, r.crossed)
  BY <1>1, <1>2, GoesTurns
<1>4. Turns(h, "answer", handler[h].session, n, handler[h].version, handler[h].crossed)
  BY <1>1, <1>3
<1>5. handler[h].pc = "login"
  BY DEF CreateSession, At, Idle
<1>6. session[n].status = "absent" /\ session \in [Session -> Row]
  BY DEF CreateSession, Base, TypeOK, Row
<1>7. session' = [session EXCEPT ![n] =
        [status |-> "live", family |-> n, parent |-> None, replacedBy |-> None]]
  BY DEF CreateSession
<1>9. Spawns(n, n, None)
  BY <1>6, <1>7 DEF Spawns, Row
<1>q. /\ late' = IF handler[h].crossed THEN late \cup {n} ELSE late
      /\ UNCHANGED <<account, tokenVersion, issued, access, ended, split, halfway>>
  BY DEF CreateSession, history, At
<1> QED
  BY <1>4, <1>5, <1>9, <1>q

LEMMA LoadSessionDoes ==
    ASSUME Base, NEW h \in Handler, NEW s \in Session, LoadSession(h, s)
    PROVE  /\ Turns(h, IF s \in Live THEN "live" ELSE "reused", s, None, 0, FALSE)
           /\ handler[h].pc = "idle"
           /\ s \in issued
           /\ split' = IF s \in Live /\ Rotating(s) # {} THEN split \cup {session[s].family} ELSE split
           /\ UNCHANGED <<account, tokenVersion, session, issued, access, ended, late, halfway>>
<1>0. handler[h] \in Request /\ tokenVersion \in 0..MaxVersion /\ access \subseteq 0..MaxVersion
  BY DEF Base, TypeOK, Request
<1> DEFINE r == [Idle EXCEPT !.pc = IF s \in Live THEN "live" ELSE "reused", !.session = s]
<1>1. r \in Request /\ r.pc = (IF s \in Live THEN "live" ELSE "reused")
      /\ r.session = s /\ r.next = None /\ r.version = 0 /\ r.crossed = FALSE
  <2>1. CASE s \in Live
    <3>1. r = [Idle EXCEPT !.pc = "live", !.session = s]
      BY <2>1
    <3> HIDE DEF r
    <3>2. r = [pc |-> "live", session |-> s, next |-> None, version |-> 0, crossed |-> FALSE]
      BY <3>1 DEF Idle
    <3>3. 0 \in 0..MaxVersion
      OBVIOUS
    <3>4. r \in Request
      BY <3>2, <3>3 DEF Request
    <3> QED
      BY <2>1, <3>2, <3>4
  <2>2. CASE s \notin Live
    <3>1. r = [Idle EXCEPT !.pc = "reused", !.session = s]
      BY <2>2
    <3> HIDE DEF r
    <3>2. r = [pc |-> "reused", session |-> s, next |-> None, version |-> 0, crossed |-> FALSE]
      BY <3>1 DEF Idle
    <3>3. 0 \in 0..MaxVersion
      OBVIOUS
    <3>4. r \in Request
      BY <3>2, <3>3 DEF Request
    <3> QED
      BY <2>2, <3>2, <3>4
  <2> QED
    BY <2>1, <2>2
<1>2. Goes(h, r)
  BY DEF LoadSession
<1> HIDE DEF r
<1>3. Turns(h, r.pc, r.session, r.next, r.version, r.crossed)
  BY <1>1, <1>2, GoesTurns
<1>4. Turns(h, IF s \in Live THEN "live" ELSE "reused", s, None, 0, FALSE)
  BY <1>1, <1>3
<1>5. handler[h].pc = "idle"
  BY <1>0 DEF LoadSession, At, Idle
<1>q. /\ s \in issued
      /\ split' = IF s \in Live /\ Rotating(s) # {} THEN split \cup {session[s].family} ELSE split
      /\ UNCHANGED <<account, tokenVersion, session, issued, access, ended, late, halfway>>
  BY DEF LoadSession, history, At
<1> QED
  BY <1>4, <1>5, <1>q

LEMMA CheckUserDoes ==
    ASSUME Base, NEW h \in Handler, CheckUser(h)
    PROVE  /\ Turns(h, "checked", handler[h].session, handler[h].next, tokenVersion, handler[h].crossed)
           /\ handler[h].pc = "live"
           /\ account = "active"
           /\ UNCHANGED <<account, tokenVersion, session, issued, access, ended, late, split, halfway>>
<1>0. handler[h] \in Request /\ tokenVersion \in 0..MaxVersion /\ access \subseteq 0..MaxVersion
  BY DEF Base, TypeOK, Request
<1> DEFINE r == [handler[h] EXCEPT !.pc = "checked", !.version = tokenVersion]
<1>1. r \in Request /\ r.pc = "checked"
      /\ r.session = handler[h].session /\ r.next = handler[h].next /\ r.version = tokenVersion /\ r.crossed = handler[h].crossed
  BY <1>0 DEF Request, Idle
<1>2. Goes(h, r)
  BY DEF CheckUser
<1> HIDE DEF r
<1>3. Turns(h, r.pc, r.session, r.next, r.version, r.crossed)
  BY <1>1, <1>2, GoesTurns
<1>4. Turns(h, "checked", handler[h].session, handler[h].next, tokenVersion, handler[h].crossed)
  BY <1>1, <1>3
<1>5. handler[h].pc = "live"
  BY DEF CheckUser, At, Idle
<1>q. /\ account = "active"
      /\ UNCHANGED <<account, tokenVersion, session, issued, access, ended, late, split, halfway>>
  BY DEF CheckUser, history, At
<1> QED
  BY <1>4, <1>5, <1>q

LEMMA InsertNextDoes ==
    ASSUME Base, NEW h \in Handler, NEW n \in Session, InsertNext(h, n)
    PROVE  /\ Turns(h, "inserted", handler[h].session, n, handler[h].version, handler[h].crossed)
           /\ handler[h].pc = "checked"
           /\ Spawns(n, session[handler[h].session].family, handler[h].session)
           /\ late' = IF handler[h].crossed \/ handler[h].session \in late THEN late \cup {n} ELSE late
           /\ UNCHANGED <<account, tokenVersion, issued, access, ended, split, halfway>>
<1>0. handler[h] \in Request /\ tokenVersion \in 0..MaxVersion /\ access \subseteq 0..MaxVersion
  BY DEF Base, TypeOK, Request
<1> DEFINE r == [handler[h] EXCEPT !.pc = "inserted", !.next = n]
<1>1. r \in Request /\ r.pc = "inserted"
      /\ r.session = handler[h].session /\ r.next = n /\ r.version = handler[h].version /\ r.crossed = handler[h].crossed
  BY <1>0 DEF Request, Idle
<1>2. Goes(h, r)
  BY DEF InsertNext
<1> HIDE DEF r
<1>3. Turns(h, r.pc, r.session, r.next, r.version, r.crossed)
  BY <1>1, <1>2, GoesTurns
<1>4. Turns(h, "inserted", handler[h].session, n, handler[h].version, handler[h].crossed)
  BY <1>1, <1>3
<1>5. handler[h].pc = "checked"
  BY DEF InsertNext, At, Idle
<1>6. session[n].status = "absent" /\ session \in [Session -> Row]
  BY DEF InsertNext, Base, TypeOK, Row
<1>7. session' = [session EXCEPT ![n] =
        [status |-> "live", family |-> session[handler[h].session].family,
                             parent |-> handler[h].session, replacedBy |-> None]]
  BY DEF InsertNext
<1>8. handler[h].session \in Session /\ session[handler[h].session].family \in Session \cup {None}
  BY <1>5, <1>6 DEF Base, References, Refers, Known, Row
<1>9. Spawns(n, session[handler[h].session].family, handler[h].session)
  BY <1>6, <1>7, <1>8 DEF Spawns, Row
<1>q. /\ late' = IF handler[h].crossed \/ handler[h].session \in late THEN late \cup {n} ELSE late
      /\ UNCHANGED <<account, tokenVersion, issued, access, ended, split, halfway>>
  BY DEF InsertNext, history, At
<1> QED
  BY <1>4, <1>5, <1>9, <1>q

LEMMA RevokeOldDoes ==
    ASSUME Base, NEW h \in Handler, RevokeOld(h)
    PROVE  /\ Turns(h, "answer", handler[h].session, handler[h].next, handler[h].version, handler[h].crossed)
           /\ handler[h].pc = "inserted"
           /\ handler[h].session \in Known /\ handler[h].next \in Known
           /\ session' \in [Session -> Row]
           /\ session'[handler[h].session].status = "revoked"
           /\ session'[handler[h].session].replacedBy = handler[h].next
           /\ session'[handler[h].session].family = session[handler[h].session].family
           /\ session'[handler[h].session].parent = session[handler[h].session].parent
           /\ \A s \in Session \ {handler[h].session} : session'[s] = session[s]
           /\ UNCHANGED <<account, tokenVersion, issued, access, ended, late, split, halfway>>
<1>0. handler[h] \in Request /\ tokenVersion \in 0..MaxVersion /\ access \subseteq 0..MaxVersion
  BY DEF Base, TypeOK, Request
<1> DEFINE r == [handler[h] EXCEPT !.pc = "answer"]
<1>1. r \in Request /\ r.pc = "answer"
      /\ r.session = handler[h].session /\ r.next = handler[h].next /\ r.version = handler[h].version /\ r.crossed = handler[h].crossed
  BY <1>0 DEF Request, Idle
<1>2. Goes(h, r)
  BY DEF RevokeOld
<1> HIDE DEF r
<1>3. Turns(h, r.pc, r.session, r.next, r.version, r.crossed)
  BY <1>1, <1>2, GoesTurns
<1>4. Turns(h, "answer", handler[h].session, handler[h].next, handler[h].version, handler[h].crossed)
  BY <1>1, <1>3
<1>5. handler[h].pc = "inserted"
  BY DEF RevokeOld, At, Idle
<1>6. handler[h].session \in Known /\ handler[h].next \in Known /\ session \in [Session -> Row]
  BY <1>5 DEF Base, References, Refers, TypeOK, Row
<1>7. session' = [session EXCEPT ![handler[h].session] =
        [session[handler[h].session] EXCEPT !.status = "revoked", !.replacedBy = handler[h].next]]
  BY DEF RevokeOld
<1>8. /\ session' \in [Session -> Row]
      /\ session'[handler[h].session].status = "revoked"
      /\ session'[handler[h].session].replacedBy = handler[h].next
      /\ session'[handler[h].session].family = session[handler[h].session].family
      /\ session'[handler[h].session].parent = session[handler[h].session].parent
      /\ \A s \in Session \ {handler[h].session} : session'[s] = session[s]
  <2>1. \A q \in Row, m \in Session :
          LET u == [q EXCEPT !.status = "revoked", !.replacedBy = m]
          IN  /\ u \in Row /\ u.status = "revoked" /\ u.replacedBy = m
              /\ u.family = q.family /\ u.parent = q.parent
    BY DEF Row
  <2>2. handler[h].session \in Session /\ handler[h].next \in Session
        /\ session[handler[h].session] \in Row
    BY <1>6 DEF Known
  <2> QED
    BY <1>6, <1>7, <2>1, <2>2
<1>q. /\ UNCHANGED <<account, tokenVersion, issued, access, ended, late, split, halfway>>
  BY DEF RevokeOld, history, At
<1> QED
  BY <1>4, <1>5, <1>6, <1>8, <1>q

LEMMA RevokeFamilyDoes ==
    ASSUME Base, NEW h \in Handler, RevokeFamily(h)
    PROVE  /\ Turns(h, "idle", None, None, 0, FALSE)
           /\ handler[h].pc = "reused"
           /\ \A g \in Handler \ {h} : handler[g].pc \in {"live", "checked"}
                 /\ session[handler[g].session].family = session[handler[h].session].family
                 => handler'[g].crossed
           /\ Revokes(Of(session[handler[h].session].family))
           /\ ended' = ended \cup {session[handler[h].session].family}
           /\ UNCHANGED <<account, tokenVersion, issued, access, late, split, halfway>>
<1>0. handler[h] \in Request /\ tokenVersion \in 0..MaxVersion /\ access \subseteq 0..MaxVersion
  BY DEF Base, TypeOK, Request
<1> DEFINE r == Idle
<1>1. r \in Request /\ r.pc = "idle"
      /\ r.session = None /\ r.next = None /\ r.version = 0 /\ r.crossed = FALSE
  BY <1>0 DEF Request, Idle
<1> DEFINE families == {session[handler[h].session].family}
<1>2. Crosses(h, r, families, {"live", "checked"})
  BY DEF RevokeFamily
<1> HIDE DEF r, families
<1>3. /\ Turns(h, r.pc, r.session, r.next, r.version, r.crossed)
      /\ \A g \in Handler \ {h} :
           /\ handler[g].pc = "login" /\ families = Session => handler'[g].crossed
           /\ handler[g].pc \in {"live", "checked"} /\ session[handler[g].session].family \in families
                => handler'[g].crossed
  BY <1>1, <1>2, CrossesTurns
<1>c. \A g \in Handler \ {h} : handler[g].pc \in {"live", "checked"}
           /\ session[handler[g].session].family = session[handler[h].session].family
           => handler'[g].crossed
  BY <1>3 DEF families
<1>4. Turns(h, "idle", None, None, 0, FALSE)
  BY <1>1, <1>3
<1>5. handler[h].pc = "reused"
  BY DEF RevokeFamily, At, Idle
<1>6. session' = Revoked(Of(session[handler[h].session].family))
  BY DEF RevokeFamily
<1>7. Revokes(Of(session[handler[h].session].family))
  BY <1>6, RevokedRevokes
<1>q. /\ ended' = ended \cup {session[handler[h].session].family}
      /\ UNCHANGED <<account, tokenVersion, issued, access, late, split, halfway>>
  BY DEF RevokeFamily, history, At
<1> QED
  BY <1>c, <1>4, <1>5, <1>7, <1>q

LEMMA AnswerDoes ==
    ASSUME Base, NEW h \in Handler, Answer(h)
    PROVE  /\ Turns(h, "idle", None, None, 0, FALSE)
           /\ handler[h].pc = "answer"
           /\ issued' = issued \cup {handler[h].next}
           /\ access' = access \cup {handler[h].version}
           /\ UNCHANGED <<account, tokenVersion, session, ended, late, split, halfway>>
<1>0. handler[h] \in Request /\ tokenVersion \in 0..MaxVersion /\ access \subseteq 0..MaxVersion
  BY DEF Base, TypeOK, Request
<1> DEFINE r == Idle
<1>1. r \in Request /\ r.pc = "idle"
      /\ r.session = None /\ r.next = None /\ r.version = 0 /\ r.crossed = FALSE
  BY <1>0 DEF Request, Idle
<1>2. Goes(h, r)
  BY DEF Answer
<1> HIDE DEF r
<1>3. Turns(h, r.pc, r.session, r.next, r.version, r.crossed)
  BY <1>1, <1>2, GoesTurns
<1>4. Turns(h, "idle", None, None, 0, FALSE)
  BY <1>1, <1>3
<1>5. handler[h].pc = "answer"
  BY DEF Answer, At, Idle
<1>q. /\ issued' = issued \cup {handler[h].next}
      /\ access' = access \cup {handler[h].version}
      /\ UNCHANGED <<account, tokenVersion, session, ended, late, split, halfway>>
  BY DEF Answer, history, At
<1> QED
  BY <1>4, <1>5, <1>q

LEMMA LogoutAllDoes ==
    ASSUME Base, NEW h \in Handler, NEW v \in access, LogoutAll(h, v)
    PROVE  /\ Turns(h, "bump", None, None, v, FALSE)
           /\ handler[h].pc = "idle"
           /\ \A g \in Handler \ {h} :
                 /\ handler[g].pc = "login" => handler'[g].crossed
                 /\ handler[g].pc \in {"live", "checked"} /\ session[handler[g].session].family \in Session
                      => handler'[g].crossed
           /\ Revokes(Session)
           /\ v < MaxVersion
           /\ ended' = ended \cup Families
           /\ UNCHANGED <<account, tokenVersion, issued, access, late, split, halfway>>
<1>0. handler[h] \in Request /\ tokenVersion \in 0..MaxVersion /\ access \subseteq 0..MaxVersion
  BY DEF Base, TypeOK, Request
<1> DEFINE r == [Idle EXCEPT !.pc = "bump", !.version = v]
<1>1. r \in Request /\ r.pc = "bump"
      /\ r.session = None /\ r.next = None /\ r.version = v /\ r.crossed = FALSE
  BY <1>0 DEF Request, Idle
<1> DEFINE families == Session
<1>2. Crosses(h, r, families, {"live", "checked"})
  BY DEF LogoutAll
<1> HIDE DEF r, families
<1>3. /\ Turns(h, r.pc, r.session, r.next, r.version, r.crossed)
      /\ \A g \in Handler \ {h} :
           /\ handler[g].pc = "login" /\ families = Session => handler'[g].crossed
           /\ handler[g].pc \in {"live", "checked"} /\ session[handler[g].session].family \in families
                => handler'[g].crossed
  BY <1>1, <1>2, CrossesTurns
<1>c. \A g \in Handler \ {h} :
           /\ handler[g].pc = "login" => handler'[g].crossed
           /\ handler[g].pc \in {"live", "checked"} /\ session[handler[g].session].family \in Session
                => handler'[g].crossed
  BY <1>3 DEF families
<1>4. Turns(h, "bump", None, None, v, FALSE)
  BY <1>1, <1>3
<1>5. handler[h].pc = "idle"
  BY <1>0 DEF LogoutAll, At, Idle
<1>6. session' = Revoked(Session)
  BY DEF LogoutAll
<1>7. Revokes(Session)
  BY <1>6, RevokedRevokes
<1>q. /\ v < MaxVersion
      /\ ended' = ended \cup Families
      /\ UNCHANGED <<account, tokenVersion, issued, access, late, split, halfway>>
  BY DEF LogoutAll, history, At
<1> QED
  BY <1>c, <1>4, <1>5, <1>7, <1>q

LEMMA BumpVersionDoes ==
    ASSUME Base, NEW h \in Handler, BumpVersion(h)
    PROVE  /\ Turns(h, "idle", None, None, 0, FALSE)
           /\ handler[h].pc = "bump"
           /\ tokenVersion' = handler[h].version + 1
           /\ UNCHANGED <<account, session, issued, access, ended, late, split, halfway>>
<1>0. handler[h] \in Request /\ tokenVersion \in 0..MaxVersion /\ access \subseteq 0..MaxVersion
  BY DEF Base, TypeOK, Request
<1> DEFINE r == Idle
<1>1. r \in Request /\ r.pc = "idle"
      /\ r.session = None /\ r.next = None /\ r.version = 0 /\ r.crossed = FALSE
  BY <1>0 DEF Request, Idle
<1>2. Goes(h, r)
  BY DEF BumpVersion
<1> HIDE DEF r
<1>3. Turns(h, r.pc, r.session, r.next, r.version, r.crossed)
  BY <1>1, <1>2, GoesTurns
<1>4. Turns(h, "idle", None, None, 0, FALSE)
  BY <1>1, <1>3
<1>5. handler[h].pc = "bump"
  BY DEF BumpVersion, At, Idle
<1>q. /\ tokenVersion' = handler[h].version + 1
      /\ UNCHANGED <<account, session, issued, access, ended, late, split, halfway>>
  BY DEF BumpVersion, history, At
<1> QED
  BY <1>4, <1>5, <1>q

LEMMA DisableDoes ==
    ASSUME Base, NEW h \in Handler, Disable(h)
    PROVE  /\ Turns(h, "disabling", None, None, tokenVersion, FALSE)
           /\ handler[h].pc = "idle"
           /\ account' = "disabled"
           /\ tokenVersion < MaxVersion
           /\ UNCHANGED <<tokenVersion, session, issued, access, ended, late, split, halfway>>
<1>0. handler[h] \in Request /\ tokenVersion \in 0..MaxVersion /\ access \subseteq 0..MaxVersion
  BY DEF Base, TypeOK, Request
<1> DEFINE r == [Idle EXCEPT !.pc = "disabling", !.version = tokenVersion]
<1>1. r \in Request /\ r.pc = "disabling"
      /\ r.session = None /\ r.next = None /\ r.version = tokenVersion /\ r.crossed = FALSE
  BY <1>0 DEF Request, Idle
<1>2. Goes(h, r)
  BY DEF Disable
<1> HIDE DEF r
<1>3. Turns(h, r.pc, r.session, r.next, r.version, r.crossed)
  BY <1>1, <1>2, GoesTurns
<1>4. Turns(h, "disabling", None, None, tokenVersion, FALSE)
  BY <1>1, <1>3
<1>5. handler[h].pc = "idle"
  BY <1>0 DEF Disable, At, Idle
<1>q. /\ account' = "disabled"
      /\ tokenVersion < MaxVersion
      /\ UNCHANGED <<tokenVersion, session, issued, access, ended, late, split, halfway>>
  BY DEF Disable, history, At
<1> QED
  BY <1>4, <1>5, <1>q

LEMMA RevokeDisabledDoes ==
    ASSUME Base, NEW h \in Handler, RevokeDisabled(h)
    PROVE  /\ Turns(h, "disabled", handler[h].session, handler[h].next, handler[h].version, handler[h].crossed)
           /\ handler[h].pc = "disabling"
           /\ \A g \in Handler \ {h} :
                 /\ handler[g].pc = "login" => handler'[g].crossed
                 /\ handler[g].pc \in {"checked"} /\ session[handler[g].session].family \in Session
                      => handler'[g].crossed
           /\ Revokes(Session)
           /\ halfway' = FALSE
           /\ UNCHANGED <<account, tokenVersion, issued, access, ended, late, split>>
<1>0. handler[h] \in Request /\ tokenVersion \in 0..MaxVersion /\ access \subseteq 0..MaxVersion
  BY DEF Base, TypeOK, Request
<1> DEFINE r == [handler[h] EXCEPT !.pc = "disabled"]
<1>1. r \in Request /\ r.pc = "disabled"
      /\ r.session = handler[h].session /\ r.next = handler[h].next /\ r.version = handler[h].version /\ r.crossed = handler[h].crossed
  BY <1>0 DEF Request, Idle
<1> DEFINE families == Session
<1>2. Crosses(h, r, families, {"checked"})
  BY DEF RevokeDisabled
<1> HIDE DEF r, families
<1>3. /\ Turns(h, r.pc, r.session, r.next, r.version, r.crossed)
      /\ \A g \in Handler \ {h} :
           /\ handler[g].pc = "login" /\ families = Session => handler'[g].crossed
           /\ handler[g].pc \in {"checked"} /\ session[handler[g].session].family \in families
                => handler'[g].crossed
  BY <1>1, <1>2, CrossesTurns
<1>c. \A g \in Handler \ {h} :
           /\ handler[g].pc = "login" => handler'[g].crossed
           /\ handler[g].pc \in {"checked"} /\ session[handler[g].session].family \in Session
                => handler'[g].crossed
  BY <1>3 DEF families
<1>4. Turns(h, "disabled", handler[h].session, handler[h].next, handler[h].version, handler[h].crossed)
  BY <1>1, <1>3
<1>5. handler[h].pc = "disabling"
  BY DEF RevokeDisabled, At, Idle
<1>6. session' = Revoked(Session)
  BY DEF RevokeDisabled
<1>7. Revokes(Session)
  BY <1>6, RevokedRevokes
<1>q. /\ halfway' = FALSE
      /\ UNCHANGED <<account, tokenVersion, issued, access, ended, late, split>>
  BY DEF RevokeDisabled, history, At
<1> QED
  BY <1>c, <1>4, <1>5, <1>7, <1>q

LEMMA BumpDisabledDoes ==
    ASSUME Base, NEW h \in Handler, BumpDisabled(h)
    PROVE  /\ Turns(h, "idle", None, None, 0, FALSE)
           /\ handler[h].pc = "disabled"
           /\ tokenVersion' = handler[h].version + 1
           /\ UNCHANGED <<account, session, issued, access, ended, late, split, halfway>>
<1>0. handler[h] \in Request /\ tokenVersion \in 0..MaxVersion /\ access \subseteq 0..MaxVersion
  BY DEF Base, TypeOK, Request
<1> DEFINE r == Idle
<1>1. r \in Request /\ r.pc = "idle"
      /\ r.session = None /\ r.next = None /\ r.version = 0 /\ r.crossed = FALSE
  BY <1>0 DEF Request, Idle
<1>2. Goes(h, r)
  BY DEF BumpDisabled
<1> HIDE DEF r
<1>3. Turns(h, r.pc, r.session, r.next, r.version, r.crossed)
  BY <1>1, <1>2, GoesTurns
<1>4. Turns(h, "idle", None, None, 0, FALSE)
  BY <1>1, <1>3
<1>5. handler[h].pc = "disabled"
  BY DEF BumpDisabled, At, Idle
<1>q. /\ tokenVersion' = handler[h].version + 1
      /\ UNCHANGED <<account, session, issued, access, ended, late, split, halfway>>
  BY DEF BumpDisabled, history, At
<1> QED
  BY <1>4, <1>5, <1>q

LEMMA AbandonDoes ==
    ASSUME Base, NEW h \in Handler, Abandon(h)
    PROVE  /\ Turns(h, "idle", None, None, 0, FALSE)
           /\ split' = IF handler[h].pc = "inserted"
                           THEN split \cup {session[handler[h].session].family} ELSE split
           /\ halfway' = (halfway \/ handler[h].pc = "disabling")
           /\ UNCHANGED <<account, tokenVersion, session, issued, access, ended, late>>
<1>0. handler[h] \in Request /\ tokenVersion \in 0..MaxVersion /\ access \subseteq 0..MaxVersion
  BY DEF Base, TypeOK, Request
<1> DEFINE r == Idle
<1>1. r \in Request /\ r.pc = "idle"
      /\ r.session = None /\ r.next = None /\ r.version = 0 /\ r.crossed = FALSE
  BY <1>0 DEF Request, Idle
<1>2. Goes(h, r)
  BY DEF Abandon
<1> HIDE DEF r
<1>3. Turns(h, r.pc, r.session, r.next, r.version, r.crossed)
  BY <1>1, <1>2, GoesTurns
<1>4. Turns(h, "idle", None, None, 0, FALSE)
  BY <1>1, <1>3
<1>q. /\ split' = IF handler[h].pc = "inserted"
                            THEN split \cup {session[handler[h].session].family} ELSE split
      /\ halfway' = (halfway \/ handler[h].pc = "disabling")
      /\ UNCHANGED <<account, tokenVersion, session, issued, access, ended, late>>
  BY DEF Abandon, history, At
<1> QED
  BY <1>4, <1>q

-----------------------------------------------------------------------------
(* References, spelled out for the provers.                                 *)
Existence ==
    /\ \A s \in Session : session[s].status # "absent" =>
         /\ session[s].family \in Session /\ session[session[s].family].status # "absent"
         /\ session[s].parent # None => /\ session[s].parent \in Session
                                       /\ session[session[s].parent].status # "absent"
    /\ \A s \in Session : session[s].status = "absent" => session[s].family = None
    /\ \A s \in issued \cup ended : s \in Session /\ session[s].status # "absent"
    /\ \A g \in Handler :
         /\ handler[g].pc \in {"live", "checked", "inserted", "reused"} =>
              handler[g].session \in Session /\ session[handler[g].session].status # "absent"
         /\ handler[g].pc \in {"inserted", "answer"} =>
              handler[g].next \in Session /\ session[handler[g].next].status # "absent"

(* Each of them keeps the invariant.                                        *)
LEMMA EnableKeeps ==
    ASSUME IInv, Enable
    PROVE  IInv'
<1>0. /\ account' = "active"
      /\ UNCHANGED <<tokenVersion, session, issued, access, handler, ended, late, split, halfway>>
  BY EnableDoes DEF IInv
<1>i. /\ TypeOK /\ RowsRefer /\ EndedStaysEnded /\ (LoggedOff => Live \subseteq late)
      /\ AnsweredIsRotated /\ OwnNext /\ OneRotation /\ OldOrNew /\ OneAlive /\ NotReplaced
      /\ \A g \in Handler : Refers(g) /\ VersionFits(g) /\ EndSeen(g) /\ DisableSeen(g)
                             /\ Succeeds(g)
  BY DEF IInv, Base, References, Versions, Ends, Disables, Rotations, Chains
<1>t. /\ session \in [Session -> Row] /\ handler \in [Handler -> Request]
      /\ issued \subseteq Session /\ ended \subseteq Session /\ tokenVersion \in 1..MaxVersion
  BY <1>i DEF TypeOK, Row, Request
<1>k. Existence
  BY <1>i DEF Existence, RowsRefer, Refers, Known
<1>y. TypeOK'
  BY <1>0, <1>i DEF TypeOK, Row, Request
<1>1. RowsRefer'
  BY <1>0, <1>i DEF RowsRefer, Known
<1>2. EndedStaysEnded'
  BY <1>0, <1>i DEF EndedStaysEnded, Of, Live
<1>3. (LoggedOff => Live \subseteq late)'
  BY <1>0, <1>i DEF LoggedOff, Live
<1>4. AnsweredIsRotated'
  BY <1>0, <1>i DEF AnsweredIsRotated
<1>5. OwnNext'
  BY <1>0, <1>i DEF OwnNext
<1>6. OneRotation'
  BY <1>0, <1>i DEF OneRotation, Rotates
<1>7. OldOrNew'
  BY <1>0, <1>i DEF OldOrNew, Rotates
<1>8. OneAlive'
  BY <1>0, <1>i DEF OneAlive
<1>9. NotReplaced'
  BY <1>0, <1>i DEF NotReplaced
<1>r. ASSUME NEW g \in Handler PROVE Refers(g)'
  BY <1>0, <1>i DEF Refers, Known
<1>v. ASSUME NEW g \in Handler PROVE VersionFits(g)'
  BY <1>0, <1>i DEF VersionFits
<1>e. ASSUME NEW g \in Handler PROVE EndSeen(g)'
  BY <1>0, <1>i DEF EndSeen
<1>d. ASSUME NEW g \in Handler PROVE DisableSeen(g)'
  BY <1>0, <1>i DEF DisableSeen, LoggedOff
<1>s. ASSUME NEW g \in Handler PROVE Succeeds(g)'
  BY <1>0, <1>i DEF Succeeds, Spent
<1> QED
  BY <1>y, <1>1, <1>2, <1>3, <1>4, <1>5, <1>6, <1>7, <1>8, <1>9, <1>r, <1>v, <1>e, <1>d, <1>s
  DEF IInv, Base, References, Versions, Ends, Disables, Rotations, Chains

LEMMA LogoutKeeps ==
    ASSUME IInv, NEW s \in Session, Logout(s)
    PROVE  IInv'
<1>0. /\ Revokes({s})
      /\ s \in issued
      /\ UNCHANGED <<account, tokenVersion, issued, access, handler, ended, late, split, halfway>>
  BY LogoutDoes DEF IInv
<1>i. /\ TypeOK /\ RowsRefer /\ EndedStaysEnded /\ (LoggedOff => Live \subseteq late)
      /\ AnsweredIsRotated /\ OwnNext /\ OneRotation /\ OldOrNew /\ OneAlive /\ NotReplaced
      /\ \A g \in Handler : Refers(g) /\ VersionFits(g) /\ EndSeen(g) /\ DisableSeen(g)
                             /\ Succeeds(g)
  BY DEF IInv, Base, References, Versions, Ends, Disables, Rotations, Chains
<1>t. /\ session \in [Session -> Row] /\ handler \in [Handler -> Request]
      /\ issued \subseteq Session /\ ended \subseteq Session /\ tokenVersion \in 1..MaxVersion
  BY <1>i DEF TypeOK, Row, Request
<1>k. Existence
  BY <1>i DEF Existence, RowsRefer, Refers, Known
<1>y. TypeOK'
  BY <1>0, <1>i DEF Revokes, TypeOK, Row, Request
<1>1. RowsRefer'
  BY <1>0, <1>i DEF Revokes, RowsRefer, Known
<1>2. EndedStaysEnded'
  BY <1>0, <1>i DEF Revokes, EndedStaysEnded, Of, Live
<1>3. (LoggedOff => Live \subseteq late)'
  BY <1>0, <1>i DEF Revokes, LoggedOff, Live
<1>4. AnsweredIsRotated'
  BY <1>0, <1>i, <1>t, <1>k DEF Existence, Revokes, AnsweredIsRotated
<1>5. OwnNext'
  BY <1>0, <1>i DEF Revokes, OwnNext
<1>6. OneRotation'
  BY <1>0, <1>i, <1>t, <1>k DEF Existence, Revokes, OneRotation, Rotates
<1>7. OldOrNew'
  BY <1>0, <1>i, <1>t, <1>k DEF Existence, Revokes, OldOrNew, Rotates
<1>8. OneAlive'
  BY <1>0, <1>i DEF Revokes, OneAlive
<1>9. NotReplaced'
  BY <1>0, <1>i DEF Revokes, NotReplaced
<1>r. ASSUME NEW g \in Handler PROVE Refers(g)'
  BY <1>0, <1>i DEF Revokes, Refers, Known
<1>v. ASSUME NEW g \in Handler PROVE VersionFits(g)'
  BY <1>0, <1>i DEF Revokes, VersionFits
<1>e. ASSUME NEW g \in Handler PROVE EndSeen(g)'
  BY <1>0, <1>i, <1>t, <1>k DEF Existence, Revokes, EndSeen
<1>d. ASSUME NEW g \in Handler PROVE DisableSeen(g)'
  BY <1>0, <1>i DEF Revokes, DisableSeen, LoggedOff
<1>s. ASSUME NEW g \in Handler PROVE Succeeds(g)'
  BY <1>0, <1>i, <1>t, <1>k DEF Existence, Revokes, Succeeds, Spent
<1> QED
  BY <1>y, <1>1, <1>2, <1>3, <1>4, <1>5, <1>6, <1>7, <1>8, <1>9, <1>r, <1>v, <1>e, <1>d, <1>s
  DEF IInv, Base, References, Versions, Ends, Disables, Rotations, Chains

LEMMA LoadLoginKeeps ==
    ASSUME IInv, NEW h \in Handler, LoadLogin(h)
    PROVE  IInv'
<1>0. /\ Turns(h, "login", None, None, tokenVersion, FALSE)
      /\ handler[h].pc = "idle"
      /\ account = "active"
      /\ UNCHANGED <<account, tokenVersion, session, issued, access, ended, late, split, halfway>>
  BY LoadLoginDoes DEF IInv
<1>i. /\ TypeOK /\ RowsRefer /\ EndedStaysEnded /\ (LoggedOff => Live \subseteq late)
      /\ AnsweredIsRotated /\ OwnNext /\ OneRotation /\ OldOrNew /\ OneAlive /\ NotReplaced
      /\ \A g \in Handler : Refers(g) /\ VersionFits(g) /\ EndSeen(g) /\ DisableSeen(g)
                             /\ Succeeds(g)
  BY DEF IInv, Base, References, Versions, Ends, Disables, Rotations, Chains
<1>t. /\ session \in [Session -> Row] /\ handler \in [Handler -> Request]
      /\ issued \subseteq Session /\ ended \subseteq Session /\ tokenVersion \in 1..MaxVersion
  BY <1>i DEF TypeOK, Row, Request
<1>k. Existence
  BY <1>i DEF Existence, RowsRefer, Refers, Known
<1>y. TypeOK'
  BY <1>0, <1>i DEF Turns, Becoming, OthersStay, TypeOK, Row, Request
<1>1. RowsRefer'
  BY <1>0, <1>i DEF Turns, Becoming, OthersStay, RowsRefer, Known
<1>2. EndedStaysEnded'
  BY <1>0, <1>i DEF Turns, Becoming, OthersStay, EndedStaysEnded, Of, Live
<1>3. (LoggedOff => Live \subseteq late)'
  BY <1>0, <1>i DEF Turns, Becoming, OthersStay, LoggedOff, Live
<1>4. AnsweredIsRotated'
  BY <1>0, <1>i DEF Turns, Becoming, OthersStay, AnsweredIsRotated
<1>5. OwnNext'
  BY <1>0, <1>i DEF Turns, Becoming, OthersStay, OwnNext
<1>6. OneRotation'
  BY <1>0, <1>i DEF Turns, Becoming, OthersStay, OneRotation, Rotates
<1>7. OldOrNew'
  BY <1>0, <1>i DEF Turns, Becoming, OthersStay, OldOrNew, Rotates
<1>8. OneAlive'
  BY <1>0, <1>i DEF Turns, Becoming, OthersStay, OneAlive
<1>9. NotReplaced'
  BY <1>0, <1>i DEF Turns, Becoming, OthersStay, NotReplaced
<1>r. ASSUME NEW g \in Handler PROVE Refers(g)'
  <2>1. CASE g = h
    BY <1>0, <1>i, <2>1 DEF Turns, Becoming, Refers, Known
  <2>2. CASE g # h
    BY <1>0, <1>i, <2>2 DEF Turns, OthersStay, Refers, Known
  <2> QED
    BY <2>1, <2>2
<1>v. ASSUME NEW g \in Handler PROVE VersionFits(g)'
  <2>1. CASE g = h
    BY <1>0, <1>i, <1>t, <1>k, <2>1 DEF Existence, Turns, Becoming, VersionFits
  <2>2. CASE g # h
    BY <1>0, <1>i, <2>2 DEF Turns, OthersStay, VersionFits
  <2> QED
    BY <2>1, <2>2
<1>e. ASSUME NEW g \in Handler PROVE EndSeen(g)'
  <2>1. CASE g = h
    BY <1>0, <1>i, <2>1 DEF Turns, Becoming, EndSeen
  <2>2. CASE g # h
    BY <1>0, <1>i, <2>2 DEF Turns, OthersStay, EndSeen
  <2> QED
    BY <2>1, <2>2
<1>d. ASSUME NEW g \in Handler PROVE DisableSeen(g)'
  <2>1. CASE g = h
    BY <1>0, <1>i, <2>1 DEF Turns, Becoming, DisableSeen, LoggedOff
  <2>2. CASE g # h
    BY <1>0, <1>i, <2>2 DEF Turns, Becoming, OthersStay, DisableSeen, LoggedOff
  <2> QED
    BY <2>1, <2>2
<1>s. ASSUME NEW g \in Handler PROVE Succeeds(g)'
  <2>1. CASE g = h
    BY <1>0, <1>i, <2>1 DEF Turns, Becoming, Succeeds, Spent
  <2>2. CASE g # h
    BY <1>0, <1>i, <2>2 DEF Turns, OthersStay, Succeeds, Spent
  <2> QED
    BY <2>1, <2>2
<1> QED
  BY <1>y, <1>1, <1>2, <1>3, <1>4, <1>5, <1>6, <1>7, <1>8, <1>9, <1>r, <1>v, <1>e, <1>d, <1>s
  DEF IInv, Base, References, Versions, Ends, Disables, Rotations, Chains

LEMMA CreateSessionKeeps ==
    ASSUME IInv, NEW h \in Handler, NEW n \in Session, CreateSession(h, n)
    PROVE  IInv'
<1>0. /\ Turns(h, "answer", handler[h].session, n, handler[h].version, handler[h].crossed)
      /\ handler[h].pc = "login"
      /\ Spawns(n, n, None)
      /\ late' = IF handler[h].crossed THEN late \cup {n} ELSE late
      /\ UNCHANGED <<account, tokenVersion, issued, access, ended, split, halfway>>
  BY CreateSessionDoes DEF IInv
<1>i. /\ TypeOK /\ RowsRefer /\ EndedStaysEnded /\ (LoggedOff => Live \subseteq late)
      /\ AnsweredIsRotated /\ OwnNext /\ OneRotation /\ OldOrNew /\ OneAlive /\ NotReplaced
      /\ \A g \in Handler : Refers(g) /\ VersionFits(g) /\ EndSeen(g) /\ DisableSeen(g)
                             /\ Succeeds(g)
  BY DEF IInv, Base, References, Versions, Ends, Disables, Rotations, Chains
<1>t. /\ session \in [Session -> Row] /\ handler \in [Handler -> Request]
      /\ issued \subseteq Session /\ ended \subseteq Session /\ tokenVersion \in 1..MaxVersion
  BY <1>i DEF TypeOK, Row, Request
<1>k. Existence
  BY <1>i DEF Existence, RowsRefer, Refers, Known
<1>y. TypeOK'
  BY <1>0, <1>i DEF Turns, Becoming, OthersStay, Spawns, TypeOK, Row, Request
<1>1. RowsRefer'
  BY <1>0, <1>i DEF Turns, Becoming, OthersStay, Spawns, RowsRefer, Known
<1>2. EndedStaysEnded'
  BY <1>0, <1>i, <1>t, <1>k DEF Existence, Turns, Becoming, OthersStay, Spawns, EndedStaysEnded, Of, Live
<1>3. (LoggedOff => Live \subseteq late)'
  <2> SUFFICES ASSUME LoggedOff' PROVE Live' \subseteq late'
    OBVIOUS
  <2>1. LoggedOff
    BY <1>0 DEF LoggedOff, Turns, Becoming, OthersStay
  <2>2. handler[h].crossed /\ Live \subseteq late
    BY <1>0, <1>i, <2>1 DEF DisableSeen
  <2> QED
    BY <1>0, <2>2 DEF Spawns, Live
<1>4. AnsweredIsRotated'
  BY <1>0, <1>i, <1>t, <1>k DEF Existence, Turns, Becoming, OthersStay, Spawns, AnsweredIsRotated
<1>5. OwnNext'
  BY <1>0, <1>i, <1>t, <1>k DEF Existence, Turns, Becoming, OthersStay, Spawns, OwnNext
<1>6. OneRotation'
  BY <1>0, <1>i, <1>t, <1>k DEF Existence, Turns, Becoming, OthersStay, Spawns, OneRotation, Rotates
<1>7. OldOrNew'
  BY <1>0, <1>i, <1>t, <1>k DEF Existence, Turns, Becoming, OthersStay, Spawns, OldOrNew, Rotates
<1>8. OneAlive'
  BY <1>0, <1>i, <1>t, <1>k DEF Existence, Turns, Becoming, OthersStay, Spawns, OneAlive
<1>9. NotReplaced'
  BY <1>0, <1>i DEF Turns, Becoming, OthersStay, Spawns, NotReplaced
<1>r. ASSUME NEW g \in Handler PROVE Refers(g)'
  <2>1. CASE g = h
    BY <1>0, <1>i, <2>1 DEF Turns, Becoming, Spawns, Refers, Known
  <2>2. CASE g # h
    BY <1>0, <1>i, <2>2 DEF Turns, OthersStay, Spawns, Refers, Known
  <2> QED
    BY <2>1, <2>2
<1>v. ASSUME NEW g \in Handler PROVE VersionFits(g)'
  <2>1. CASE g = h
    BY <1>0, <1>i, <2>1 DEF Turns, Becoming, Spawns, VersionFits
  <2>2. CASE g # h
    BY <1>0, <1>i, <2>2 DEF Turns, OthersStay, Spawns, VersionFits
  <2> QED
    BY <2>1, <2>2
<1>e. ASSUME NEW g \in Handler PROVE EndSeen(g)'
  <2>1. CASE g = h
    BY <1>0, <1>i, <2>1 DEF Turns, Becoming, Spawns, EndSeen
  <2>2. CASE g # h
    BY <1>0, <1>i, <1>t, <1>k, <2>2 DEF Existence, Turns, OthersStay, Spawns, EndSeen
  <2> QED
    BY <2>1, <2>2
<1>d. ASSUME NEW g \in Handler PROVE DisableSeen(g)'
  <2>1. CASE g = h
    BY <1>0, <1>i, <2>1 DEF Turns, Becoming, Spawns, DisableSeen, LoggedOff
  <2>2. CASE g # h
    BY <1>0, <1>i, <2>2 DEF Turns, Becoming, OthersStay, Spawns, DisableSeen, LoggedOff
  <2> QED
    BY <2>1, <2>2
<1>s. ASSUME NEW g \in Handler PROVE Succeeds(g)'
  <2>1. CASE g = h
    BY <1>0, <1>i, <2>1 DEF Turns, Becoming, Spawns, Succeeds, Spent
  <2>2. CASE g # h
    BY <1>0, <1>i, <1>t, <1>k, <2>2 DEF Existence, Turns, OthersStay, Spawns, Succeeds, Spent
  <2> QED
    BY <2>1, <2>2
<1> QED
  BY <1>y, <1>1, <1>2, <1>3, <1>4, <1>5, <1>6, <1>7, <1>8, <1>9, <1>r, <1>v, <1>e, <1>d, <1>s
  DEF IInv, Base, References, Versions, Ends, Disables, Rotations, Chains

LEMMA LoadSessionKeeps ==
    ASSUME IInv, NEW h \in Handler, NEW s \in Session, LoadSession(h, s)
    PROVE  IInv'
<1>0. /\ Turns(h, IF s \in Live THEN "live" ELSE "reused", s, None, 0, FALSE)
      /\ handler[h].pc = "idle"
      /\ s \in issued
      /\ split' = IF s \in Live /\ Rotating(s) # {} THEN split \cup {session[s].family} ELSE split
      /\ UNCHANGED <<account, tokenVersion, session, issued, access, ended, late, halfway>>
  BY LoadSessionDoes DEF IInv
<1>i. /\ TypeOK /\ RowsRefer /\ EndedStaysEnded /\ (LoggedOff => Live \subseteq late)
      /\ AnsweredIsRotated /\ OwnNext /\ OneRotation /\ OldOrNew /\ OneAlive /\ NotReplaced
      /\ \A g \in Handler : Refers(g) /\ VersionFits(g) /\ EndSeen(g) /\ DisableSeen(g)
                             /\ Succeeds(g)
  BY DEF IInv, Base, References, Versions, Ends, Disables, Rotations, Chains
<1>t. /\ session \in [Session -> Row] /\ handler \in [Handler -> Request]
      /\ issued \subseteq Session /\ ended \subseteq Session /\ tokenVersion \in 1..MaxVersion
  BY <1>i DEF TypeOK, Row, Request
<1>k. Existence
  BY <1>i DEF Existence, RowsRefer, Refers, Known
<1>y. TypeOK'
  BY <1>0, <1>i, <1>t, <1>k DEF Existence, Turns, Becoming, OthersStay, TypeOK, Row, Request
<1>1. RowsRefer'
  BY <1>0, <1>i DEF Turns, Becoming, OthersStay, RowsRefer, Known
<1>2. EndedStaysEnded'
  BY <1>0, <1>i DEF Turns, Becoming, OthersStay, EndedStaysEnded, Of, Live
<1>3. (LoggedOff => Live \subseteq late)'
  BY <1>0, <1>i DEF Turns, Becoming, OthersStay, LoggedOff, Live
<1>4. AnsweredIsRotated'
  BY <1>0, <1>i DEF Turns, Becoming, OthersStay, AnsweredIsRotated
<1>5. OwnNext'
  BY <1>0, <1>i DEF Turns, Becoming, OthersStay, OwnNext
<1>a. ASSUME s \in Live, session[s].family \notin split', NEW g \in Handler,
             Rotates(g, session[s].family)
      PROVE  FALSE
  <2>1. handler[g].session # s
    BY <1>0, <1>a DEF Rotating, Rotates
  <2>2. session[s].family \in Session \ split
    BY <1>0, <1>a, <1>k DEF Existence, Live
  <2>3. handler[g].pc = "inserted" /\ s = handler[g].next
    BY <1>i, <1>a, <2>1, <2>2 DEF OldOrNew, Live
  <2> QED
    BY <1>0, <1>i, <2>3 DEF Succeeds
<1>6. OneRotation'
  <2> SUFFICES ASSUME NEW f \in Session \ split', NEW g \in Handler, NEW j \in Handler,
                      Rotates(g, f)', Rotates(j, f)'
               PROVE  g = j
    BY DEF OneRotation
  <2>1. f \in Session \ split
    BY <1>0
  <2>2. \A i \in Handler \ {h} : Rotates(i, f)' => Rotates(i, f)
    BY <1>0 DEF Turns, Becoming, OthersStay, Rotates
  <2>3. Rotates(h, f)' => s \in Live /\ session[s].family = f
    BY <1>0 DEF Turns, Becoming, Rotates
  <2> QED
    BY <1>a, <1>i, <2>1, <2>2, <2>3 DEF OneRotation
<1>7. OldOrNew'
  <2> SUFFICES ASSUME NEW f \in Session \ split', NEW g \in Handler, NEW t \in Session,
                      Rotates(g, f)', session[t].status = "live", session[t].family = f
               PROVE  \/ t = handler'[g].session
                      \/ handler'[g].pc = "inserted" /\ t = handler'[g].next
    BY <1>0 DEF OldOrNew
  <2>0. f \in Session \ split
    BY <1>0
  <2>1. CASE g # h
    BY <1>0, <1>i, <2>0, <2>1 DEF OldOrNew, Turns, Becoming, OthersStay, Rotates
  <2>2. CASE g = h
    <3>1. s \in Live /\ session[s].family = f /\ handler'[g].session = s
      BY <1>0, <2>2 DEF Turns, Becoming, Rotates
    <3>2. \A j \in Handler : ~(handler[j].pc = "inserted" /\ handler[j].next \in {s, t})
      BY <1>a, <1>i, <3>1 DEF Succeeds, Rotates
    <3> QED
      BY <1>i, <2>0, <3>1, <3>2 DEF OneAlive, Live
  <2> QED
    BY <2>1, <2>2
<1>8. OneAlive'
  BY <1>0, <1>i DEF Turns, Becoming, OthersStay, OneAlive
<1>9. NotReplaced'
  BY <1>0, <1>i DEF Turns, Becoming, OthersStay, NotReplaced
<1>r. ASSUME NEW g \in Handler PROVE Refers(g)'
  <2>1. CASE g = h
    BY <1>0, <1>i, <1>t, <1>k, <2>1 DEF Existence, Turns, Becoming, Refers, Known
  <2>2. CASE g # h
    BY <1>0, <1>i, <2>2 DEF Turns, OthersStay, Refers, Known
  <2> QED
    BY <2>1, <2>2
<1>v. ASSUME NEW g \in Handler PROVE VersionFits(g)'
  <2>1. CASE g = h
    BY <1>0, <1>i, <2>1 DEF Turns, Becoming, VersionFits
  <2>2. CASE g # h
    BY <1>0, <1>i, <2>2 DEF Turns, OthersStay, VersionFits
  <2> QED
    BY <2>1, <2>2
<1>e. ASSUME NEW g \in Handler PROVE EndSeen(g)'
  <2>1. CASE g = h
    <3>1. s \in Live /\ session[s].family \in ended => s \in late
      BY <1>0, <1>i, <1>k DEF Existence, EndedStaysEnded, Of, Live
    <3> QED
      BY <1>0, <2>1, <3>1 DEF Turns, Becoming, EndSeen
  <2>2. CASE g # h
    BY <1>0, <1>i, <2>2 DEF Turns, OthersStay, EndSeen
  <2> QED
    BY <2>1, <2>2
<1>d. ASSUME NEW g \in Handler PROVE DisableSeen(g)'
  <2>1. CASE g = h
    BY <1>0, <1>i, <2>1 DEF Turns, Becoming, DisableSeen, LoggedOff
  <2>2. CASE g # h
    BY <1>0, <1>i, <2>2 DEF Turns, Becoming, OthersStay, DisableSeen, LoggedOff
  <2> QED
    BY <2>1, <2>2
<1>s. ASSUME NEW g \in Handler PROVE Succeeds(g)'
  <2>1. CASE g = h
    BY <1>0, <1>i, <2>1 DEF Turns, Becoming, Succeeds, Spent
  <2>2. CASE g # h
    BY <1>0, <1>i, <2>2 DEF Turns, OthersStay, Succeeds, Spent
  <2> QED
    BY <2>1, <2>2
<1> QED
  BY <1>y, <1>1, <1>2, <1>3, <1>4, <1>5, <1>6, <1>7, <1>8, <1>9, <1>r, <1>v, <1>e, <1>d, <1>s
  DEF IInv, Base, References, Versions, Ends, Disables, Rotations, Chains

LEMMA CheckUserKeeps ==
    ASSUME IInv, NEW h \in Handler, CheckUser(h)
    PROVE  IInv'
<1>0. /\ Turns(h, "checked", handler[h].session, handler[h].next, tokenVersion, handler[h].crossed)
      /\ handler[h].pc = "live"
      /\ account = "active"
      /\ UNCHANGED <<account, tokenVersion, session, issued, access, ended, late, split, halfway>>
  BY CheckUserDoes DEF IInv
<1>i. /\ TypeOK /\ RowsRefer /\ EndedStaysEnded /\ (LoggedOff => Live \subseteq late)
      /\ AnsweredIsRotated /\ OwnNext /\ OneRotation /\ OldOrNew /\ OneAlive /\ NotReplaced
      /\ \A g \in Handler : Refers(g) /\ VersionFits(g) /\ EndSeen(g) /\ DisableSeen(g)
                             /\ Succeeds(g)
  BY DEF IInv, Base, References, Versions, Ends, Disables, Rotations, Chains
<1>t. /\ session \in [Session -> Row] /\ handler \in [Handler -> Request]
      /\ issued \subseteq Session /\ ended \subseteq Session /\ tokenVersion \in 1..MaxVersion
  BY <1>i DEF TypeOK, Row, Request
<1>k. Existence
  BY <1>i DEF Existence, RowsRefer, Refers, Known
<1>y. TypeOK'
  BY <1>0, <1>i DEF Turns, Becoming, OthersStay, TypeOK, Row, Request
<1>1. RowsRefer'
  BY <1>0, <1>i DEF Turns, Becoming, OthersStay, RowsRefer, Known
<1>2. EndedStaysEnded'
  BY <1>0, <1>i DEF Turns, Becoming, OthersStay, EndedStaysEnded, Of, Live
<1>3. (LoggedOff => Live \subseteq late)'
  BY <1>0, <1>i DEF Turns, Becoming, OthersStay, LoggedOff, Live
<1>4. AnsweredIsRotated'
  BY <1>0, <1>i DEF Turns, Becoming, OthersStay, AnsweredIsRotated
<1>5. OwnNext'
  BY <1>0, <1>i DEF Turns, Becoming, OthersStay, OwnNext
<1>6. OneRotation'
  BY <1>0, <1>i DEF Turns, Becoming, OthersStay, OneRotation, Rotates
<1>7. OldOrNew'
  BY <1>0, <1>i DEF Turns, Becoming, OthersStay, OldOrNew, Rotates
<1>8. OneAlive'
  BY <1>0, <1>i DEF Turns, Becoming, OthersStay, OneAlive
<1>9. NotReplaced'
  BY <1>0, <1>i DEF Turns, Becoming, OthersStay, NotReplaced
<1>r. ASSUME NEW g \in Handler PROVE Refers(g)'
  <2>1. CASE g = h
    BY <1>0, <1>i, <2>1 DEF Turns, Becoming, Refers, Known
  <2>2. CASE g # h
    BY <1>0, <1>i, <2>2 DEF Turns, OthersStay, Refers, Known
  <2> QED
    BY <2>1, <2>2
<1>v. ASSUME NEW g \in Handler PROVE VersionFits(g)'
  <2>1. CASE g = h
    BY <1>0, <1>i, <1>t, <1>k, <2>1 DEF Existence, Turns, Becoming, VersionFits
  <2>2. CASE g # h
    BY <1>0, <1>i, <2>2 DEF Turns, OthersStay, VersionFits
  <2> QED
    BY <2>1, <2>2
<1>e. ASSUME NEW g \in Handler PROVE EndSeen(g)'
  <2>1. CASE g = h
    BY <1>0, <1>i, <2>1 DEF Turns, Becoming, EndSeen
  <2>2. CASE g # h
    BY <1>0, <1>i, <2>2 DEF Turns, OthersStay, EndSeen
  <2> QED
    BY <2>1, <2>2
<1>d. ASSUME NEW g \in Handler PROVE DisableSeen(g)'
  <2>1. CASE g = h
    BY <1>0, <1>i, <2>1 DEF Turns, Becoming, DisableSeen, LoggedOff
  <2>2. CASE g # h
    BY <1>0, <1>i, <2>2 DEF Turns, Becoming, OthersStay, DisableSeen, LoggedOff
  <2> QED
    BY <2>1, <2>2
<1>s. ASSUME NEW g \in Handler PROVE Succeeds(g)'
  <2>1. CASE g = h
    BY <1>0, <1>i, <2>1 DEF Turns, Becoming, Succeeds, Spent
  <2>2. CASE g # h
    BY <1>0, <1>i, <2>2 DEF Turns, OthersStay, Succeeds, Spent
  <2> QED
    BY <2>1, <2>2
<1> QED
  BY <1>y, <1>1, <1>2, <1>3, <1>4, <1>5, <1>6, <1>7, <1>8, <1>9, <1>r, <1>v, <1>e, <1>d, <1>s
  DEF IInv, Base, References, Versions, Ends, Disables, Rotations, Chains

LEMMA InsertNextKeeps ==
    ASSUME IInv, NEW h \in Handler, NEW n \in Session, InsertNext(h, n)
    PROVE  IInv'
<1>0. /\ Turns(h, "inserted", handler[h].session, n, handler[h].version, handler[h].crossed)
      /\ handler[h].pc = "checked"
      /\ Spawns(n, session[handler[h].session].family, handler[h].session)
      /\ late' = IF handler[h].crossed \/ handler[h].session \in late THEN late \cup {n} ELSE late
      /\ UNCHANGED <<account, tokenVersion, issued, access, ended, split, halfway>>
  BY InsertNextDoes DEF IInv
<1>i. /\ TypeOK /\ RowsRefer /\ EndedStaysEnded /\ (LoggedOff => Live \subseteq late)
      /\ AnsweredIsRotated /\ OwnNext /\ OneRotation /\ OldOrNew /\ OneAlive /\ NotReplaced
      /\ \A g \in Handler : Refers(g) /\ VersionFits(g) /\ EndSeen(g) /\ DisableSeen(g)
                             /\ Succeeds(g)
  BY DEF IInv, Base, References, Versions, Ends, Disables, Rotations, Chains
<1>t. /\ session \in [Session -> Row] /\ handler \in [Handler -> Request]
      /\ issued \subseteq Session /\ ended \subseteq Session /\ tokenVersion \in 1..MaxVersion
  BY <1>i DEF TypeOK, Row, Request
<1>k. Existence
  BY <1>i DEF Existence, RowsRefer, Refers, Known
<1>y. TypeOK'
  BY <1>0, <1>i DEF Turns, Becoming, OthersStay, Spawns, TypeOK, Row, Request
<1>1. RowsRefer'
  <2>1. /\ handler[h].session \in Known /\ session[handler[h].session].family \in Known
        /\ n \notin Known
    BY <1>0, <1>i, <1>k DEF Existence, Spawns, Known
  <2>2. Known' = Known \cup {n}
    BY <1>0 DEF Spawns, Known
  <2>3. \A s \in Known : session'[s] = session[s]
    BY <1>0, <2>1 DEF Spawns, Known
  <2>4. session'[n].family \in Known /\ session'[n].parent \in Known
    BY <1>0, <2>1 DEF Spawns
  <2>5. \A s \in Session \ Known' : session'[s] = session[s] /\ s \notin Known
    BY <1>0, <2>2 DEF Spawns
  <2> QED
    BY <1>0, <1>i, <2>2, <2>3, <2>4, <2>5 DEF RowsRefer
<1>2. EndedStaysEnded'
  <2>1. session[handler[h].session].family \in ended => n \in late'
    BY <1>0, <1>i DEF EndSeen
  <2>2. /\ late \subseteq late' /\ ended' = ended
        /\ \A s \in Session \ {n} : session'[s] = session[s]
        /\ session'[n].family = session[handler[h].session].family
    BY <1>0 DEF Spawns
  <2> QED
    BY <1>i, <2>1, <2>2 DEF EndedStaysEnded, Of, Live
<1>3. (LoggedOff => Live \subseteq late)'
  <2> SUFFICES ASSUME LoggedOff' PROVE Live' \subseteq late'
    OBVIOUS
  <2>1. LoggedOff
    BY <1>0 DEF LoggedOff, Turns, Becoming, OthersStay
  <2>2. handler[h].crossed /\ Live \subseteq late
    BY <1>0, <1>i, <2>1 DEF DisableSeen
  <2> QED
    BY <1>0, <2>2 DEF Spawns, Live
<1>4. AnsweredIsRotated'
  BY <1>0, <1>i, <1>t, <1>k DEF Existence, Turns, Becoming, OthersStay, Spawns, AnsweredIsRotated
<1>5. OwnNext'
  BY <1>0, <1>i, <1>t, <1>k DEF Existence, Turns, Becoming, OthersStay, Spawns, OwnNext
<1>6. OneRotation'
  BY <1>0, <1>i, <1>t, <1>k DEF Existence, Turns, Becoming, OthersStay, Spawns, OneRotation, Rotates
<1>7. OldOrNew'
  <2> SUFFICES ASSUME NEW f \in Session \ split, NEW g \in Handler, NEW t \in Session,
                      Rotates(g, f)', session'[t].status = "live", session'[t].family = f
               PROVE  \/ t = handler'[g].session
                      \/ handler'[g].pc = "inserted" /\ t = handler'[g].next
    BY <1>0 DEF OldOrNew
  <2>1. Rotates(g, f)
    <3>1. CASE g = h
      BY <1>0, <1>k, <3>1 DEF Existence, Turns, Becoming, Rotates, Spawns
    <3>2. CASE g # h
      BY <1>0, <1>k, <3>2 DEF Existence, Turns, OthersStay, Rotates, Spawns
    <3> QED
      BY <3>1, <3>2
  <2>2. CASE t = n
    <3>1. Rotates(h, f)
      BY <1>0, <2>2 DEF Rotates, Spawns
    <3>2. g = h
      BY <1>i, <2>1, <3>1 DEF OneRotation
    <3> QED
      BY <1>0, <2>2, <3>2 DEF Turns, Becoming
  <2>3. CASE t # n
    <3>1. session[t].status = "live" /\ session[t].family = f
      BY <1>0, <2>3 DEF Spawns
    <3>2. \/ t = handler[g].session
          \/ handler[g].pc = "inserted" /\ t = handler[g].next
      BY <1>i, <2>1, <3>1 DEF OldOrNew
    <3>3. CASE g = h
      BY <1>0, <3>2, <3>3 DEF Turns, Becoming
    <3>4. CASE g # h
      BY <1>0, <3>2, <3>4 DEF Turns, OthersStay
    <3> QED
      BY <3>3, <3>4
  <2> QED
    BY <2>2, <2>3
<1>8. OneAlive'
  BY <1>0, <1>i DEF Turns, Becoming, OthersStay, Spawns, OneAlive
<1>9. NotReplaced'
  BY <1>0, <1>i DEF Turns, Becoming, OthersStay, Spawns, NotReplaced
<1>r. ASSUME NEW g \in Handler PROVE Refers(g)'
  <2>1. CASE g = h
    BY <1>0, <1>i, <2>1 DEF Turns, Becoming, Spawns, Refers, Known
  <2>2. CASE g # h
    BY <1>0, <1>i, <2>2 DEF Turns, OthersStay, Spawns, Refers, Known
  <2> QED
    BY <2>1, <2>2
<1>v. ASSUME NEW g \in Handler PROVE VersionFits(g)'
  <2>1. CASE g = h
    BY <1>0, <1>i, <2>1 DEF Turns, Becoming, Spawns, VersionFits
  <2>2. CASE g # h
    BY <1>0, <1>i, <2>2 DEF Turns, OthersStay, Spawns, VersionFits
  <2> QED
    BY <2>1, <2>2
<1>e. ASSUME NEW g \in Handler PROVE EndSeen(g)'
  <2>1. CASE g = h
    BY <1>0, <1>i, <2>1 DEF Turns, Becoming, Spawns, EndSeen
  <2>2. CASE g # h
    BY <1>0, <1>i, <1>t, <1>k, <2>2 DEF Existence, Turns, OthersStay, Spawns, EndSeen
  <2> QED
    BY <2>1, <2>2
<1>d. ASSUME NEW g \in Handler PROVE DisableSeen(g)'
  <2>1. CASE g = h
    BY <1>0, <1>i, <2>1 DEF Turns, Becoming, Spawns, DisableSeen, LoggedOff
  <2>2. CASE g # h
    BY <1>0, <1>i, <2>2 DEF Turns, Becoming, OthersStay, Spawns, DisableSeen, LoggedOff
  <2> QED
    BY <2>1, <2>2
<1>s. ASSUME NEW g \in Handler PROVE Succeeds(g)'
  <2>1. CASE g = h
    BY <1>0, <1>i, <1>t, <1>k, <2>1 DEF Existence, Turns, Becoming, Spawns, Succeeds, Spent
  <2>2. CASE g # h
    BY <1>0, <1>i, <1>t, <1>k, <2>2 DEF Existence, Turns, OthersStay, Spawns, Succeeds, Spent
  <2> QED
    BY <2>1, <2>2
<1> QED
  BY <1>y, <1>1, <1>2, <1>3, <1>4, <1>5, <1>6, <1>7, <1>8, <1>9, <1>r, <1>v, <1>e, <1>d, <1>s
  DEF IInv, Base, References, Versions, Ends, Disables, Rotations, Chains

LEMMA RevokeOldKeeps ==
    ASSUME IInv, NEW h \in Handler, RevokeOld(h)
    PROVE  IInv'
<1>0. /\ Turns(h, "answer", handler[h].session, handler[h].next, handler[h].version, handler[h].crossed)
      /\ handler[h].pc = "inserted"
      /\ handler[h].session \in Known /\ handler[h].next \in Known
      /\ session' \in [Session -> Row]
      /\ session'[handler[h].session].status = "revoked"
      /\ session'[handler[h].session].replacedBy = handler[h].next
      /\ session'[handler[h].session].family = session[handler[h].session].family
      /\ session'[handler[h].session].parent = session[handler[h].session].parent
      /\ \A s \in Session \ {handler[h].session} : session'[s] = session[s]
      /\ UNCHANGED <<account, tokenVersion, issued, access, ended, late, split, halfway>>
  BY RevokeOldDoes DEF IInv
<1>i. /\ TypeOK /\ RowsRefer /\ EndedStaysEnded /\ (LoggedOff => Live \subseteq late)
      /\ AnsweredIsRotated /\ OwnNext /\ OneRotation /\ OldOrNew /\ OneAlive /\ NotReplaced
      /\ \A g \in Handler : Refers(g) /\ VersionFits(g) /\ EndSeen(g) /\ DisableSeen(g)
                             /\ Succeeds(g)
  BY DEF IInv, Base, References, Versions, Ends, Disables, Rotations, Chains
<1>t. /\ session \in [Session -> Row] /\ handler \in [Handler -> Request]
      /\ issued \subseteq Session /\ ended \subseteq Session /\ tokenVersion \in 1..MaxVersion
  BY <1>i DEF TypeOK, Row, Request
<1>k. Existence
  BY <1>i DEF Existence, RowsRefer, Refers, Known
<1>y. TypeOK'
  BY <1>0, <1>i DEF Turns, Becoming, OthersStay, TypeOK, Row, Request
<1>1. RowsRefer'
  BY <1>0, <1>i DEF Turns, Becoming, OthersStay, RowsRefer, Known
<1>2. EndedStaysEnded'
  BY <1>0, <1>i DEF Turns, Becoming, OthersStay, EndedStaysEnded, Of, Live
<1>3. (LoggedOff => Live \subseteq late)'
  BY <1>0, <1>i DEF Turns, Becoming, OthersStay, LoggedOff, Live
<1>4. AnsweredIsRotated'
  BY <1>0, <1>i, <1>t, <1>k DEF Existence, Turns, Becoming, OthersStay, AnsweredIsRotated
<1>5. OwnNext'
  BY <1>0, <1>i DEF Turns, Becoming, OthersStay, OwnNext
<1>6. OneRotation'
  BY <1>0, <1>i, <1>t, <1>k DEF Existence, Turns, Becoming, OthersStay, OneRotation, Rotates
<1>7. OldOrNew'
  BY <1>0, <1>i, <1>t, <1>k DEF Existence, Turns, Becoming, OthersStay, OldOrNew, Rotates
<1>8. OneAlive'
  <2> SUFFICES ASSUME NEW f \in Session \ split, NEW s \in Session, NEW t \in Session,
                      session'[s].status = "live", session'[s].family = f,
                      session'[t].status = "live", session'[t].family = f,
                      s # t
               PROVE  \E g \in Handler : handler'[g].pc = "inserted" /\ handler'[g].next \in {s, t}
    BY <1>0 DEF OneAlive
  <2>1. /\ s # handler[h].session /\ t # handler[h].session
        /\ session[s].status = "live" /\ session[s].family = f
        /\ session[t].status = "live" /\ session[t].family = f
    BY <1>0
  <2>2. PICK g \in Handler : handler[g].pc = "inserted" /\ handler[g].next \in {s, t}
    BY <1>i, <2>1 DEF OneAlive
  <2>3. g # h
    <3> SUFFICES ASSUME g = h PROVE FALSE
      OBVIOUS
    <3>1. Rotates(h, f)
      BY <1>i, <2>1, <2>2 DEF Succeeds, Rotates
    <3> QED
      BY <1>i, <2>1, <3>1 DEF OldOrNew
  <2> QED
    BY <1>0, <2>2, <2>3 DEF Turns, OthersStay
<1>9. NotReplaced'
  BY <1>0, <1>i DEF Turns, Becoming, OthersStay, NotReplaced
<1>r. ASSUME NEW g \in Handler PROVE Refers(g)'
  <2>1. CASE g = h
    BY <1>0, <1>i, <2>1 DEF Turns, Becoming, Refers, Known
  <2>2. CASE g # h
    BY <1>0, <1>i, <2>2 DEF Turns, OthersStay, Refers, Known
  <2> QED
    BY <2>1, <2>2
<1>v. ASSUME NEW g \in Handler PROVE VersionFits(g)'
  <2>1. CASE g = h
    BY <1>0, <1>i, <2>1 DEF Turns, Becoming, VersionFits
  <2>2. CASE g # h
    BY <1>0, <1>i, <2>2 DEF Turns, OthersStay, VersionFits
  <2> QED
    BY <2>1, <2>2
<1>e. ASSUME NEW g \in Handler PROVE EndSeen(g)'
  <2>1. CASE g = h
    BY <1>0, <1>i, <2>1 DEF Turns, Becoming, EndSeen
  <2>2. CASE g # h
    BY <1>0, <1>i, <1>t, <1>k, <2>2 DEF Existence, Turns, OthersStay, EndSeen
  <2> QED
    BY <2>1, <2>2
<1>d. ASSUME NEW g \in Handler PROVE DisableSeen(g)'
  <2>1. CASE g = h
    BY <1>0, <1>i, <2>1 DEF Turns, Becoming, DisableSeen, LoggedOff
  <2>2. CASE g # h
    BY <1>0, <1>i, <2>2 DEF Turns, Becoming, OthersStay, DisableSeen, LoggedOff
  <2> QED
    BY <2>1, <2>2
<1>s. ASSUME NEW g \in Handler PROVE Succeeds(g)'
  <2>1. CASE g = h
    BY <1>0, <1>i, <1>t, <1>k, <2>1 DEF Existence, Turns, Becoming, Succeeds, Spent
  <2>2. CASE g # h
    BY <1>0, <1>i, <1>t, <1>k, <2>2 DEF Existence, Turns, OthersStay, Succeeds, Spent
  <2> QED
    BY <2>1, <2>2
<1> QED
  BY <1>y, <1>1, <1>2, <1>3, <1>4, <1>5, <1>6, <1>7, <1>8, <1>9, <1>r, <1>v, <1>e, <1>d, <1>s
  DEF IInv, Base, References, Versions, Ends, Disables, Rotations, Chains

LEMMA RevokeFamilyKeeps ==
    ASSUME IInv, NEW h \in Handler, RevokeFamily(h)
    PROVE  IInv'
<1>0. /\ Turns(h, "idle", None, None, 0, FALSE)
      /\ handler[h].pc = "reused"
      /\ \A g \in Handler \ {h} : handler[g].pc \in {"live", "checked"}
                  /\ session[handler[g].session].family = session[handler[h].session].family
                  => handler'[g].crossed
      /\ Revokes(Of(session[handler[h].session].family))
      /\ ended' = ended \cup {session[handler[h].session].family}
      /\ UNCHANGED <<account, tokenVersion, issued, access, late, split, halfway>>
  BY RevokeFamilyDoes DEF IInv
<1>i. /\ TypeOK /\ RowsRefer /\ EndedStaysEnded /\ (LoggedOff => Live \subseteq late)
      /\ AnsweredIsRotated /\ OwnNext /\ OneRotation /\ OldOrNew /\ OneAlive /\ NotReplaced
      /\ \A g \in Handler : Refers(g) /\ VersionFits(g) /\ EndSeen(g) /\ DisableSeen(g)
                             /\ Succeeds(g)
  BY DEF IInv, Base, References, Versions, Ends, Disables, Rotations, Chains
<1>t. /\ session \in [Session -> Row] /\ handler \in [Handler -> Request]
      /\ issued \subseteq Session /\ ended \subseteq Session /\ tokenVersion \in 1..MaxVersion
  BY <1>i DEF TypeOK, Row, Request
<1>k. Existence
  BY <1>i DEF Existence, RowsRefer, Refers, Known
<1>y. TypeOK'
  BY <1>0, <1>i, <1>t, <1>k DEF Existence, Turns, Becoming, OthersStay, Revokes, TypeOK, Row, Request
<1>1. RowsRefer'
  BY <1>0, <1>i, <1>t, <1>k DEF Existence, Turns, Becoming, OthersStay, Revokes, RowsRefer, Known
<1>2. EndedStaysEnded'
  BY <1>0, <1>i DEF Turns, Becoming, OthersStay, Revokes, EndedStaysEnded, Of, Live
<1>3. (LoggedOff => Live \subseteq late)'
  BY <1>0, <1>i DEF Turns, Becoming, OthersStay, Revokes, LoggedOff, Live
<1>4. AnsweredIsRotated'
  BY <1>0, <1>i, <1>t, <1>k DEF Existence, Turns, Becoming, OthersStay, Revokes, AnsweredIsRotated
<1>5. OwnNext'
  BY <1>0, <1>i DEF Turns, Becoming, OthersStay, Revokes, OwnNext
<1>6. OneRotation'
  BY <1>0, <1>i, <1>t, <1>k DEF Existence, Turns, Becoming, OthersStay, Revokes, OneRotation, Rotates
<1>7. OldOrNew'
  BY <1>0, <1>i, <1>t, <1>k DEF Existence, Turns, Becoming, OthersStay, Revokes, OldOrNew, Rotates
<1>8. OneAlive'
  BY <1>0, <1>i DEF Turns, Becoming, OthersStay, Revokes, OneAlive
<1>9. NotReplaced'
  BY <1>0, <1>i DEF Turns, Becoming, OthersStay, Revokes, NotReplaced
<1>r. ASSUME NEW g \in Handler PROVE Refers(g)'
  <2>1. CASE g = h
    BY <1>0, <1>i, <2>1 DEF Turns, Becoming, Revokes, Refers, Known
  <2>2. CASE g # h
    BY <1>0, <1>i, <2>2 DEF Turns, OthersStay, Revokes, Refers, Known
  <2> QED
    BY <2>1, <2>2
<1>v. ASSUME NEW g \in Handler PROVE VersionFits(g)'
  <2>1. CASE g = h
    BY <1>0, <1>i, <2>1 DEF Turns, Becoming, Revokes, VersionFits
  <2>2. CASE g # h
    BY <1>0, <1>i, <2>2 DEF Turns, OthersStay, Revokes, VersionFits
  <2> QED
    BY <2>1, <2>2
<1>e. ASSUME NEW g \in Handler PROVE EndSeen(g)'
  <2>1. CASE g = h
    BY <1>0, <1>i, <2>1 DEF Turns, Becoming, Revokes, EndSeen
  <2>2. CASE g # h
    BY <1>0, <1>i, <1>t, <1>k, <2>2 DEF Existence, Turns, OthersStay, Revokes, EndSeen
  <2> QED
    BY <2>1, <2>2
<1>d. ASSUME NEW g \in Handler PROVE DisableSeen(g)'
  <2>1. CASE g = h
    BY <1>0, <1>i, <2>1 DEF Turns, Becoming, Revokes, DisableSeen, LoggedOff
  <2>2. CASE g # h
    BY <1>0, <1>i, <2>2 DEF Turns, Becoming, OthersStay, Revokes, DisableSeen, LoggedOff
  <2> QED
    BY <2>1, <2>2
<1>s. ASSUME NEW g \in Handler PROVE Succeeds(g)'
  <2>1. CASE g = h
    BY <1>0, <1>i, <2>1 DEF Turns, Becoming, Revokes, Succeeds, Spent
  <2>2. CASE g # h
    BY <1>0, <1>i, <1>t, <1>k, <2>2 DEF Existence, Turns, OthersStay, Revokes, Succeeds, Spent
  <2> QED
    BY <2>1, <2>2
<1> QED
  BY <1>y, <1>1, <1>2, <1>3, <1>4, <1>5, <1>6, <1>7, <1>8, <1>9, <1>r, <1>v, <1>e, <1>d, <1>s
  DEF IInv, Base, References, Versions, Ends, Disables, Rotations, Chains

LEMMA AnswerKeeps ==
    ASSUME IInv, NEW h \in Handler, Answer(h)
    PROVE  IInv'
<1>0. /\ Turns(h, "idle", None, None, 0, FALSE)
      /\ handler[h].pc = "answer"
      /\ issued' = issued \cup {handler[h].next}
      /\ access' = access \cup {handler[h].version}
      /\ UNCHANGED <<account, tokenVersion, session, ended, late, split, halfway>>
  BY AnswerDoes DEF IInv
<1>i. /\ TypeOK /\ RowsRefer /\ EndedStaysEnded /\ (LoggedOff => Live \subseteq late)
      /\ AnsweredIsRotated /\ OwnNext /\ OneRotation /\ OldOrNew /\ OneAlive /\ NotReplaced
      /\ \A g \in Handler : Refers(g) /\ VersionFits(g) /\ EndSeen(g) /\ DisableSeen(g)
                             /\ Succeeds(g)
  BY DEF IInv, Base, References, Versions, Ends, Disables, Rotations, Chains
<1>t. /\ session \in [Session -> Row] /\ handler \in [Handler -> Request]
      /\ issued \subseteq Session /\ ended \subseteq Session /\ tokenVersion \in 1..MaxVersion
  BY <1>i DEF TypeOK, Row, Request
<1>k. Existence
  BY <1>i DEF Existence, RowsRefer, Refers, Known
<1>y. TypeOK'
  <2>1. handler[h].next \in Session /\ handler[h].version \in 1..MaxVersion
    <3>1. handler[h].version \in 0..MaxVersion /\ handler[h].version # 0
      BY <1>0, <1>i, <1>t DEF VersionFits, Request
    <3> QED
      BY <1>0, <1>k, <3>1 DEF Existence
  <2>2. handler' \in [Handler -> Request]
    BY <1>0 DEF Turns, Becoming
  <2> QED
    BY <1>0, <1>i, <2>1, <2>2 DEF TypeOK, Request
<1>1. RowsRefer'
  BY <1>0, <1>i, <1>t, <1>k DEF Existence, Turns, Becoming, OthersStay, RowsRefer, Known
<1>2. EndedStaysEnded'
  BY <1>0, <1>i DEF Turns, Becoming, OthersStay, EndedStaysEnded, Of, Live
<1>3. (LoggedOff => Live \subseteq late)'
  BY <1>0, <1>i DEF Turns, Becoming, OthersStay, LoggedOff, Live
<1>4. AnsweredIsRotated'
  BY <1>0, <1>i DEF AnsweredIsRotated, Succeeds, Spent
<1>5. OwnNext'
  BY <1>0, <1>i DEF Turns, Becoming, OthersStay, OwnNext
<1>6. OneRotation'
  BY <1>0, <1>i DEF Turns, Becoming, OthersStay, OneRotation, Rotates
<1>7. OldOrNew'
  BY <1>0, <1>i DEF Turns, Becoming, OthersStay, OldOrNew, Rotates
<1>8. OneAlive'
  BY <1>0, <1>i DEF Turns, Becoming, OthersStay, OneAlive
<1>9. NotReplaced'
  BY <1>0, <1>i DEF Turns, Becoming, OthersStay, NotReplaced
<1>r. ASSUME NEW g \in Handler PROVE Refers(g)'
  <2>1. CASE g = h
    BY <1>0, <1>i, <2>1 DEF Turns, Becoming, Refers, Known
  <2>2. CASE g # h
    BY <1>0, <1>i, <2>2 DEF Turns, OthersStay, Refers, Known
  <2> QED
    BY <2>1, <2>2
<1>v. ASSUME NEW g \in Handler PROVE VersionFits(g)'
  <2>1. CASE g = h
    BY <1>0, <1>i, <2>1 DEF Turns, Becoming, VersionFits
  <2>2. CASE g # h
    BY <1>0, <1>i, <2>2 DEF Turns, OthersStay, VersionFits
  <2> QED
    BY <2>1, <2>2
<1>e. ASSUME NEW g \in Handler PROVE EndSeen(g)'
  <2>1. CASE g = h
    BY <1>0, <1>i, <2>1 DEF Turns, Becoming, EndSeen
  <2>2. CASE g # h
    BY <1>0, <1>i, <2>2 DEF Turns, OthersStay, EndSeen
  <2> QED
    BY <2>1, <2>2
<1>d. ASSUME NEW g \in Handler PROVE DisableSeen(g)'
  <2>1. CASE g = h
    BY <1>0, <1>i, <2>1 DEF Turns, Becoming, DisableSeen, LoggedOff
  <2>2. CASE g # h
    BY <1>0, <1>i, <2>2 DEF Turns, Becoming, OthersStay, DisableSeen, LoggedOff
  <2> QED
    BY <2>1, <2>2
<1>s. ASSUME NEW g \in Handler PROVE Succeeds(g)'
  <2>1. CASE g = h
    BY <1>0, <2>1 DEF Turns, Becoming, Succeeds
  <2>2. CASE g # h
    <3>1. handler[g].pc \in {"inserted", "answer"} => handler[g].next # handler[h].next
      BY <1>0, <1>i, <2>2 DEF OwnNext
    <3> QED
      BY <1>0, <1>i, <2>2, <3>1 DEF Turns, OthersStay, Succeeds, Spent
  <2> QED
    BY <2>1, <2>2
<1> QED
  BY <1>y, <1>1, <1>2, <1>3, <1>4, <1>5, <1>6, <1>7, <1>8, <1>9, <1>r, <1>v, <1>e, <1>d, <1>s
  DEF IInv, Base, References, Versions, Ends, Disables, Rotations, Chains

LEMMA LogoutAllKeeps ==
    ASSUME IInv, NEW h \in Handler, NEW v \in access, LogoutAll(h, v)
    PROVE  IInv'
<1>0. /\ Turns(h, "bump", None, None, v, FALSE)
      /\ handler[h].pc = "idle"
      /\ \A g \in Handler \ {h} :
                  /\ handler[g].pc = "login" => handler'[g].crossed
                  /\ handler[g].pc \in {"live", "checked"} /\ session[handler[g].session].family \in Session
                       => handler'[g].crossed
      /\ Revokes(Session)
      /\ v < MaxVersion
      /\ ended' = ended \cup Families
      /\ UNCHANGED <<account, tokenVersion, issued, access, late, split, halfway>>
  BY LogoutAllDoes DEF IInv
<1>i. /\ TypeOK /\ RowsRefer /\ EndedStaysEnded /\ (LoggedOff => Live \subseteq late)
      /\ AnsweredIsRotated /\ OwnNext /\ OneRotation /\ OldOrNew /\ OneAlive /\ NotReplaced
      /\ \A g \in Handler : Refers(g) /\ VersionFits(g) /\ EndSeen(g) /\ DisableSeen(g)
                             /\ Succeeds(g)
  BY DEF IInv, Base, References, Versions, Ends, Disables, Rotations, Chains
<1>t. /\ session \in [Session -> Row] /\ handler \in [Handler -> Request]
      /\ issued \subseteq Session /\ ended \subseteq Session /\ tokenVersion \in 1..MaxVersion
  BY <1>i DEF TypeOK, Row, Request
<1>k. Existence
  BY <1>i DEF Existence, RowsRefer, Refers, Known
<1>y. TypeOK'
  <2>1. handler' \in [Handler -> Request] /\ session' \in [Session -> Row]
    BY <1>0 DEF Turns, Becoming, Revokes
  <2>2. ended' \in SUBSET Session
    BY <1>0, <1>t DEF Families
  <2> QED
    BY <1>0, <1>i, <2>1, <2>2 DEF TypeOK, Request, Row
<1>1. RowsRefer'
  <2>1. Families \subseteq Known
    BY <1>k, <1>t DEF Existence, Families, Of, Known
  <2>2. Known' = Known
    BY <1>0 DEF Revokes, Known
  <2> QED
    BY <1>0, <1>i, <2>1, <2>2 DEF RowsRefer, Revokes, Known
<1>2. EndedStaysEnded'
  BY <1>0, <1>i DEF Turns, Becoming, OthersStay, Revokes, EndedStaysEnded, Of, Live
<1>3. (LoggedOff => Live \subseteq late)'
  BY <1>0, <1>i DEF Turns, Becoming, OthersStay, Revokes, LoggedOff, Live
<1>4. AnsweredIsRotated'
  BY <1>0, <1>i, <1>t, <1>k DEF Existence, Turns, Becoming, OthersStay, Revokes, AnsweredIsRotated
<1>5. OwnNext'
  BY <1>0, <1>i DEF Turns, Becoming, OthersStay, Revokes, OwnNext
<1>6. OneRotation'
  BY <1>0, <1>i, <1>t, <1>k DEF Existence, Turns, Becoming, OthersStay, Revokes, OneRotation, Rotates
<1>7. OldOrNew'
  BY <1>0, <1>i DEF Turns, Becoming, OthersStay, Revokes, OldOrNew, Rotates
<1>8. OneAlive'
  BY <1>0, <1>i DEF Turns, Becoming, OthersStay, Revokes, OneAlive
<1>9. NotReplaced'
  BY <1>0, <1>i DEF Turns, Becoming, OthersStay, Revokes, NotReplaced
<1>r. ASSUME NEW g \in Handler PROVE Refers(g)'
  <2>1. CASE g = h
    BY <1>0, <1>i, <2>1 DEF Turns, Becoming, Revokes, Refers, Known
  <2>2. CASE g # h
    BY <1>0, <1>i, <2>2 DEF Turns, OthersStay, Revokes, Refers, Known
  <2> QED
    BY <2>1, <2>2
<1>v. ASSUME NEW g \in Handler PROVE VersionFits(g)'
  <2>1. CASE g = h
    BY <1>0, <1>i, <2>1 DEF Turns, Becoming, Revokes, VersionFits
  <2>2. CASE g # h
    BY <1>0, <1>i, <2>2 DEF Turns, OthersStay, Revokes, VersionFits
  <2> QED
    BY <2>1, <2>2
<1>e. ASSUME NEW g \in Handler PROVE EndSeen(g)'
  <2>1. CASE g = h
    BY <1>0, <1>i, <2>1 DEF Turns, Becoming, Revokes, EndSeen
  <2>2. CASE g # h
    BY <1>0, <1>i, <1>t, <1>k, <2>2 DEF Existence, Turns, OthersStay, Revokes, EndSeen
  <2> QED
    BY <2>1, <2>2
<1>d. ASSUME NEW g \in Handler PROVE DisableSeen(g)'
  <2>1. CASE g = h
    BY <1>0, <1>i, <2>1 DEF Turns, Becoming, Revokes, DisableSeen, LoggedOff
  <2>2. CASE g # h
    BY <1>0, <1>i, <2>2 DEF Turns, Becoming, OthersStay, Revokes, DisableSeen, LoggedOff
  <2> QED
    BY <2>1, <2>2
<1>s. ASSUME NEW g \in Handler PROVE Succeeds(g)'
  <2>1. CASE g = h
    BY <1>0, <1>i, <2>1 DEF Turns, Becoming, Revokes, Succeeds, Spent
  <2>2. CASE g # h
    BY <1>0, <1>i, <1>t, <1>k, <2>2 DEF Existence, Turns, OthersStay, Revokes, Succeeds, Spent
  <2> QED
    BY <2>1, <2>2
<1> QED
  BY <1>y, <1>1, <1>2, <1>3, <1>4, <1>5, <1>6, <1>7, <1>8, <1>9, <1>r, <1>v, <1>e, <1>d, <1>s
  DEF IInv, Base, References, Versions, Ends, Disables, Rotations, Chains

LEMMA BumpVersionKeeps ==
    ASSUME IInv, NEW h \in Handler, BumpVersion(h)
    PROVE  IInv'
<1>0. /\ Turns(h, "idle", None, None, 0, FALSE)
      /\ handler[h].pc = "bump"
      /\ tokenVersion' = handler[h].version + 1
      /\ UNCHANGED <<account, session, issued, access, ended, late, split, halfway>>
  BY BumpVersionDoes DEF IInv
<1>i. /\ TypeOK /\ RowsRefer /\ EndedStaysEnded /\ (LoggedOff => Live \subseteq late)
      /\ AnsweredIsRotated /\ OwnNext /\ OneRotation /\ OldOrNew /\ OneAlive /\ NotReplaced
      /\ \A g \in Handler : Refers(g) /\ VersionFits(g) /\ EndSeen(g) /\ DisableSeen(g)
                             /\ Succeeds(g)
  BY DEF IInv, Base, References, Versions, Ends, Disables, Rotations, Chains
<1>t. /\ session \in [Session -> Row] /\ handler \in [Handler -> Request]
      /\ issued \subseteq Session /\ ended \subseteq Session /\ tokenVersion \in 1..MaxVersion
  BY <1>i DEF TypeOK, Row, Request
<1>k. Existence
  BY <1>i DEF Existence, RowsRefer, Refers, Known
<1>y. TypeOK'
  <2>1. handler[h].version \in 0..MaxVersion /\ handler[h].version # MaxVersion
    BY <1>0, <1>i, <1>t DEF VersionFits, Request
  <2>2. handler' \in [Handler -> Request]
    BY <1>0 DEF Turns, Becoming
  <2>3. tokenVersion' \in 1..MaxVersion
    BY <1>0, <2>1
  <2> QED
    BY <1>0, <1>i, <2>2, <2>3 DEF TypeOK, Request
<1>1. RowsRefer'
  BY <1>0, <1>i DEF Turns, Becoming, OthersStay, RowsRefer, Known
<1>2. EndedStaysEnded'
  BY <1>0, <1>i DEF Turns, Becoming, OthersStay, EndedStaysEnded, Of, Live
<1>3. (LoggedOff => Live \subseteq late)'
  BY <1>0, <1>i DEF Turns, Becoming, OthersStay, LoggedOff, Live
<1>4. AnsweredIsRotated'
  BY <1>0, <1>i DEF Turns, Becoming, OthersStay, AnsweredIsRotated
<1>5. OwnNext'
  BY <1>0, <1>i DEF Turns, Becoming, OthersStay, OwnNext
<1>6. OneRotation'
  BY <1>0, <1>i DEF Turns, Becoming, OthersStay, OneRotation, Rotates
<1>7. OldOrNew'
  BY <1>0, <1>i DEF Turns, Becoming, OthersStay, OldOrNew, Rotates
<1>8. OneAlive'
  BY <1>0, <1>i DEF Turns, Becoming, OthersStay, OneAlive
<1>9. NotReplaced'
  BY <1>0, <1>i DEF Turns, Becoming, OthersStay, NotReplaced
<1>r. ASSUME NEW g \in Handler PROVE Refers(g)'
  <2>1. CASE g = h
    BY <1>0, <1>i, <2>1 DEF Turns, Becoming, Refers, Known
  <2>2. CASE g # h
    BY <1>0, <1>i, <2>2 DEF Turns, OthersStay, Refers, Known
  <2> QED
    BY <2>1, <2>2
<1>v. ASSUME NEW g \in Handler PROVE VersionFits(g)'
  <2>1. CASE g = h
    BY <1>0, <1>i, <2>1 DEF Turns, Becoming, VersionFits
  <2>2. CASE g # h
    BY <1>0, <1>i, <2>2 DEF Turns, OthersStay, VersionFits
  <2> QED
    BY <2>1, <2>2
<1>e. ASSUME NEW g \in Handler PROVE EndSeen(g)'
  <2>1. CASE g = h
    BY <1>0, <1>i, <2>1 DEF Turns, Becoming, EndSeen
  <2>2. CASE g # h
    BY <1>0, <1>i, <2>2 DEF Turns, OthersStay, EndSeen
  <2> QED
    BY <2>1, <2>2
<1>d. ASSUME NEW g \in Handler PROVE DisableSeen(g)'
  <2>1. CASE g = h
    BY <1>0, <1>i, <2>1 DEF Turns, Becoming, DisableSeen, LoggedOff
  <2>2. CASE g # h
    BY <1>0, <1>i, <2>2 DEF Turns, Becoming, OthersStay, DisableSeen, LoggedOff
  <2> QED
    BY <2>1, <2>2
<1>s. ASSUME NEW g \in Handler PROVE Succeeds(g)'
  <2>1. CASE g = h
    BY <1>0, <1>i, <2>1 DEF Turns, Becoming, Succeeds, Spent
  <2>2. CASE g # h
    BY <1>0, <1>i, <2>2 DEF Turns, OthersStay, Succeeds, Spent
  <2> QED
    BY <2>1, <2>2
<1> QED
  BY <1>y, <1>1, <1>2, <1>3, <1>4, <1>5, <1>6, <1>7, <1>8, <1>9, <1>r, <1>v, <1>e, <1>d, <1>s
  DEF IInv, Base, References, Versions, Ends, Disables, Rotations, Chains

LEMMA DisableKeeps ==
    ASSUME IInv, NEW h \in Handler, Disable(h)
    PROVE  IInv'
<1>0. /\ Turns(h, "disabling", None, None, tokenVersion, FALSE)
      /\ handler[h].pc = "idle"
      /\ account' = "disabled"
      /\ tokenVersion < MaxVersion
      /\ UNCHANGED <<tokenVersion, session, issued, access, ended, late, split, halfway>>
  BY DisableDoes DEF IInv
<1>i. /\ TypeOK /\ RowsRefer /\ EndedStaysEnded /\ (LoggedOff => Live \subseteq late)
      /\ AnsweredIsRotated /\ OwnNext /\ OneRotation /\ OldOrNew /\ OneAlive /\ NotReplaced
      /\ \A g \in Handler : Refers(g) /\ VersionFits(g) /\ EndSeen(g) /\ DisableSeen(g)
                             /\ Succeeds(g)
  BY DEF IInv, Base, References, Versions, Ends, Disables, Rotations, Chains
<1>t. /\ session \in [Session -> Row] /\ handler \in [Handler -> Request]
      /\ issued \subseteq Session /\ ended \subseteq Session /\ tokenVersion \in 1..MaxVersion
  BY <1>i DEF TypeOK, Row, Request
<1>k. Existence
  BY <1>i DEF Existence, RowsRefer, Refers, Known
<1>y. TypeOK'
  BY <1>0, <1>i DEF Turns, Becoming, OthersStay, TypeOK, Row, Request
<1>1. RowsRefer'
  BY <1>0, <1>i DEF Turns, Becoming, OthersStay, RowsRefer, Known
<1>2. EndedStaysEnded'
  BY <1>0, <1>i DEF Turns, Becoming, OthersStay, EndedStaysEnded, Of, Live
<1>3. (LoggedOff => Live \subseteq late)'
  BY <1>0, <1>i DEF Turns, Becoming, OthersStay, LoggedOff, Live
<1>4. AnsweredIsRotated'
  BY <1>0, <1>i DEF Turns, Becoming, OthersStay, AnsweredIsRotated
<1>5. OwnNext'
  BY <1>0, <1>i DEF Turns, Becoming, OthersStay, OwnNext
<1>6. OneRotation'
  BY <1>0, <1>i DEF Turns, Becoming, OthersStay, OneRotation, Rotates
<1>7. OldOrNew'
  BY <1>0, <1>i DEF Turns, Becoming, OthersStay, OldOrNew, Rotates
<1>8. OneAlive'
  BY <1>0, <1>i DEF Turns, Becoming, OthersStay, OneAlive
<1>9. NotReplaced'
  BY <1>0, <1>i DEF Turns, Becoming, OthersStay, NotReplaced
<1>r. ASSUME NEW g \in Handler PROVE Refers(g)'
  <2>1. CASE g = h
    BY <1>0, <1>i, <2>1 DEF Turns, Becoming, Refers, Known
  <2>2. CASE g # h
    BY <1>0, <1>i, <2>2 DEF Turns, OthersStay, Refers, Known
  <2> QED
    BY <2>1, <2>2
<1>v. ASSUME NEW g \in Handler PROVE VersionFits(g)'
  <2>1. CASE g = h
    BY <1>0, <1>i, <2>1 DEF Turns, Becoming, VersionFits
  <2>2. CASE g # h
    BY <1>0, <1>i, <2>2 DEF Turns, OthersStay, VersionFits
  <2> QED
    BY <2>1, <2>2
<1>e. ASSUME NEW g \in Handler PROVE EndSeen(g)'
  <2>1. CASE g = h
    BY <1>0, <1>i, <2>1 DEF Turns, Becoming, EndSeen
  <2>2. CASE g # h
    BY <1>0, <1>i, <2>2 DEF Turns, OthersStay, EndSeen
  <2> QED
    BY <2>1, <2>2
<1>d. ASSUME NEW g \in Handler PROVE DisableSeen(g)'
  <2>1. CASE g = h
    BY <1>0, <1>i, <2>1 DEF Turns, Becoming, DisableSeen, LoggedOff
  <2>2. CASE g # h
    BY <1>0, <1>i, <1>t, <1>k, <2>2 DEF Existence, Turns, Becoming, OthersStay, DisableSeen, LoggedOff
  <2> QED
    BY <2>1, <2>2
<1>s. ASSUME NEW g \in Handler PROVE Succeeds(g)'
  <2>1. CASE g = h
    BY <1>0, <1>i, <2>1 DEF Turns, Becoming, Succeeds, Spent
  <2>2. CASE g # h
    BY <1>0, <1>i, <2>2 DEF Turns, OthersStay, Succeeds, Spent
  <2> QED
    BY <2>1, <2>2
<1> QED
  BY <1>y, <1>1, <1>2, <1>3, <1>4, <1>5, <1>6, <1>7, <1>8, <1>9, <1>r, <1>v, <1>e, <1>d, <1>s
  DEF IInv, Base, References, Versions, Ends, Disables, Rotations, Chains

LEMMA RevokeDisabledKeeps ==
    ASSUME IInv, NEW h \in Handler, RevokeDisabled(h)
    PROVE  IInv'
<1>0. /\ Turns(h, "disabled", handler[h].session, handler[h].next, handler[h].version, handler[h].crossed)
      /\ handler[h].pc = "disabling"
      /\ \A g \in Handler \ {h} :
                  /\ handler[g].pc = "login" => handler'[g].crossed
                  /\ handler[g].pc \in {"checked"} /\ session[handler[g].session].family \in Session
                       => handler'[g].crossed
      /\ Revokes(Session)
      /\ halfway' = FALSE
      /\ UNCHANGED <<account, tokenVersion, issued, access, ended, late, split>>
  BY RevokeDisabledDoes DEF IInv
<1>i. /\ TypeOK /\ RowsRefer /\ EndedStaysEnded /\ (LoggedOff => Live \subseteq late)
      /\ AnsweredIsRotated /\ OwnNext /\ OneRotation /\ OldOrNew /\ OneAlive /\ NotReplaced
      /\ \A g \in Handler : Refers(g) /\ VersionFits(g) /\ EndSeen(g) /\ DisableSeen(g)
                             /\ Succeeds(g)
  BY DEF IInv, Base, References, Versions, Ends, Disables, Rotations, Chains
<1>t. /\ session \in [Session -> Row] /\ handler \in [Handler -> Request]
      /\ issued \subseteq Session /\ ended \subseteq Session /\ tokenVersion \in 1..MaxVersion
  BY <1>i DEF TypeOK, Row, Request
<1>k. Existence
  BY <1>i DEF Existence, RowsRefer, Refers, Known
<1>y. TypeOK'
  BY <1>0, <1>i DEF Turns, Becoming, OthersStay, Revokes, TypeOK, Row, Request
<1>1. RowsRefer'
  BY <1>0, <1>i DEF Turns, Becoming, OthersStay, Revokes, RowsRefer, Known
<1>2. EndedStaysEnded'
  BY <1>0, <1>i DEF Turns, Becoming, OthersStay, Revokes, EndedStaysEnded, Of, Live
<1>3. (LoggedOff => Live \subseteq late)'
  BY <1>0, <1>i DEF Turns, Becoming, OthersStay, Revokes, LoggedOff, Live
<1>4. AnsweredIsRotated'
  BY <1>0, <1>i, <1>t, <1>k DEF Existence, Turns, Becoming, OthersStay, Revokes, AnsweredIsRotated
<1>5. OwnNext'
  BY <1>0, <1>i DEF Turns, Becoming, OthersStay, Revokes, OwnNext
<1>6. OneRotation'
  BY <1>0, <1>i, <1>t, <1>k DEF Existence, Turns, Becoming, OthersStay, Revokes, OneRotation, Rotates
<1>7. OldOrNew'
  BY <1>0, <1>i DEF Turns, Becoming, OthersStay, Revokes, OldOrNew, Rotates
<1>8. OneAlive'
  BY <1>0, <1>i DEF Turns, Becoming, OthersStay, Revokes, OneAlive
<1>9. NotReplaced'
  BY <1>0, <1>i DEF Turns, Becoming, OthersStay, Revokes, NotReplaced
<1>r. ASSUME NEW g \in Handler PROVE Refers(g)'
  <2>1. CASE g = h
    BY <1>0, <1>i, <2>1 DEF Turns, Becoming, Revokes, Refers, Known
  <2>2. CASE g # h
    BY <1>0, <1>i, <2>2 DEF Turns, OthersStay, Revokes, Refers, Known
  <2> QED
    BY <2>1, <2>2
<1>v. ASSUME NEW g \in Handler PROVE VersionFits(g)'
  <2>1. CASE g = h
    BY <1>0, <1>i, <2>1 DEF Turns, Becoming, Revokes, VersionFits
  <2>2. CASE g # h
    BY <1>0, <1>i, <2>2 DEF Turns, OthersStay, Revokes, VersionFits
  <2> QED
    BY <2>1, <2>2
<1>e. ASSUME NEW g \in Handler PROVE EndSeen(g)'
  <2>1. CASE g = h
    BY <1>0, <1>i, <2>1 DEF Turns, Becoming, Revokes, EndSeen
  <2>2. CASE g # h
    BY <1>0, <1>i, <1>t, <1>k, <2>2 DEF Existence, Turns, OthersStay, Revokes, EndSeen
  <2> QED
    BY <2>1, <2>2
<1>d. ASSUME NEW g \in Handler PROVE DisableSeen(g)'
  <2>1. CASE g = h
    BY <1>0, <1>i, <2>1 DEF Turns, Becoming, Revokes, DisableSeen, LoggedOff
  <2>2. CASE g # h
    BY <1>0, <1>i, <1>t, <1>k, <2>2 DEF Existence, Turns, Becoming, OthersStay, Revokes, DisableSeen, LoggedOff
  <2> QED
    BY <2>1, <2>2
<1>s. ASSUME NEW g \in Handler PROVE Succeeds(g)'
  <2>1. CASE g = h
    BY <1>0, <1>i, <2>1 DEF Turns, Becoming, Revokes, Succeeds, Spent
  <2>2. CASE g # h
    BY <1>0, <1>i, <1>t, <1>k, <2>2 DEF Existence, Turns, OthersStay, Revokes, Succeeds, Spent
  <2> QED
    BY <2>1, <2>2
<1> QED
  BY <1>y, <1>1, <1>2, <1>3, <1>4, <1>5, <1>6, <1>7, <1>8, <1>9, <1>r, <1>v, <1>e, <1>d, <1>s
  DEF IInv, Base, References, Versions, Ends, Disables, Rotations, Chains

LEMMA BumpDisabledKeeps ==
    ASSUME IInv, NEW h \in Handler, BumpDisabled(h)
    PROVE  IInv'
<1>0. /\ Turns(h, "idle", None, None, 0, FALSE)
      /\ handler[h].pc = "disabled"
      /\ tokenVersion' = handler[h].version + 1
      /\ UNCHANGED <<account, session, issued, access, ended, late, split, halfway>>
  BY BumpDisabledDoes DEF IInv
<1>i. /\ TypeOK /\ RowsRefer /\ EndedStaysEnded /\ (LoggedOff => Live \subseteq late)
      /\ AnsweredIsRotated /\ OwnNext /\ OneRotation /\ OldOrNew /\ OneAlive /\ NotReplaced
      /\ \A g \in Handler : Refers(g) /\ VersionFits(g) /\ EndSeen(g) /\ DisableSeen(g)
                             /\ Succeeds(g)
  BY DEF IInv, Base, References, Versions, Ends, Disables, Rotations, Chains
<1>t. /\ session \in [Session -> Row] /\ handler \in [Handler -> Request]
      /\ issued \subseteq Session /\ ended \subseteq Session /\ tokenVersion \in 1..MaxVersion
  BY <1>i DEF TypeOK, Row, Request
<1>k. Existence
  BY <1>i DEF Existence, RowsRefer, Refers, Known
<1>y. TypeOK'
  <2>1. handler[h].version \in 0..MaxVersion /\ handler[h].version # MaxVersion
    BY <1>0, <1>i, <1>t DEF VersionFits, Request
  <2>2. handler' \in [Handler -> Request]
    BY <1>0 DEF Turns, Becoming
  <2>3. tokenVersion' \in 1..MaxVersion
    BY <1>0, <2>1
  <2> QED
    BY <1>0, <1>i, <2>2, <2>3 DEF TypeOK, Request
<1>1. RowsRefer'
  BY <1>0, <1>i DEF Turns, Becoming, OthersStay, RowsRefer, Known
<1>2. EndedStaysEnded'
  BY <1>0, <1>i DEF Turns, Becoming, OthersStay, EndedStaysEnded, Of, Live
<1>3. (LoggedOff => Live \subseteq late)'
  BY <1>0, <1>i DEF Turns, Becoming, OthersStay, LoggedOff, Live
<1>4. AnsweredIsRotated'
  BY <1>0, <1>i DEF Turns, Becoming, OthersStay, AnsweredIsRotated
<1>5. OwnNext'
  BY <1>0, <1>i DEF Turns, Becoming, OthersStay, OwnNext
<1>6. OneRotation'
  BY <1>0, <1>i DEF Turns, Becoming, OthersStay, OneRotation, Rotates
<1>7. OldOrNew'
  BY <1>0, <1>i DEF Turns, Becoming, OthersStay, OldOrNew, Rotates
<1>8. OneAlive'
  BY <1>0, <1>i DEF Turns, Becoming, OthersStay, OneAlive
<1>9. NotReplaced'
  BY <1>0, <1>i DEF Turns, Becoming, OthersStay, NotReplaced
<1>r. ASSUME NEW g \in Handler PROVE Refers(g)'
  <2>1. CASE g = h
    BY <1>0, <1>i, <2>1 DEF Turns, Becoming, Refers, Known
  <2>2. CASE g # h
    BY <1>0, <1>i, <2>2 DEF Turns, OthersStay, Refers, Known
  <2> QED
    BY <2>1, <2>2
<1>v. ASSUME NEW g \in Handler PROVE VersionFits(g)'
  <2>1. CASE g = h
    BY <1>0, <1>i, <2>1 DEF Turns, Becoming, VersionFits
  <2>2. CASE g # h
    BY <1>0, <1>i, <2>2 DEF Turns, OthersStay, VersionFits
  <2> QED
    BY <2>1, <2>2
<1>e. ASSUME NEW g \in Handler PROVE EndSeen(g)'
  <2>1. CASE g = h
    BY <1>0, <1>i, <2>1 DEF Turns, Becoming, EndSeen
  <2>2. CASE g # h
    BY <1>0, <1>i, <2>2 DEF Turns, OthersStay, EndSeen
  <2> QED
    BY <2>1, <2>2
<1>d. ASSUME NEW g \in Handler PROVE DisableSeen(g)'
  <2>1. CASE g = h
    BY <1>0, <1>i, <2>1 DEF Turns, Becoming, DisableSeen, LoggedOff
  <2>2. CASE g # h
    BY <1>0, <1>i, <2>2 DEF Turns, Becoming, OthersStay, DisableSeen, LoggedOff
  <2> QED
    BY <2>1, <2>2
<1>s. ASSUME NEW g \in Handler PROVE Succeeds(g)'
  <2>1. CASE g = h
    BY <1>0, <1>i, <2>1 DEF Turns, Becoming, Succeeds, Spent
  <2>2. CASE g # h
    BY <1>0, <1>i, <2>2 DEF Turns, OthersStay, Succeeds, Spent
  <2> QED
    BY <2>1, <2>2
<1> QED
  BY <1>y, <1>1, <1>2, <1>3, <1>4, <1>5, <1>6, <1>7, <1>8, <1>9, <1>r, <1>v, <1>e, <1>d, <1>s
  DEF IInv, Base, References, Versions, Ends, Disables, Rotations, Chains

LEMMA AbandonKeeps ==
    ASSUME IInv, NEW h \in Handler, Abandon(h)
    PROVE  IInv'
<1>0. /\ Turns(h, "idle", None, None, 0, FALSE)
      /\ split' = IF handler[h].pc = "inserted"
                            THEN split \cup {session[handler[h].session].family} ELSE split
      /\ halfway' = (halfway \/ handler[h].pc = "disabling")
      /\ UNCHANGED <<account, tokenVersion, session, issued, access, ended, late>>
  BY AbandonDoes DEF IInv
<1>i. /\ TypeOK /\ RowsRefer /\ EndedStaysEnded /\ (LoggedOff => Live \subseteq late)
      /\ AnsweredIsRotated /\ OwnNext /\ OneRotation /\ OldOrNew /\ OneAlive /\ NotReplaced
      /\ \A g \in Handler : Refers(g) /\ VersionFits(g) /\ EndSeen(g) /\ DisableSeen(g)
                             /\ Succeeds(g)
  BY DEF IInv, Base, References, Versions, Ends, Disables, Rotations, Chains
<1>t. /\ session \in [Session -> Row] /\ handler \in [Handler -> Request]
      /\ issued \subseteq Session /\ ended \subseteq Session /\ tokenVersion \in 1..MaxVersion
  BY <1>i DEF TypeOK, Row, Request
<1>k. Existence
  BY <1>i DEF Existence, RowsRefer, Refers, Known
<1>y. TypeOK'
  BY <1>0, <1>i, <1>t, <1>k DEF Existence, Turns, Becoming, OthersStay, TypeOK, Row, Request
<1>1. RowsRefer'
  BY <1>0, <1>i DEF Turns, Becoming, OthersStay, RowsRefer, Known
<1>2. EndedStaysEnded'
  BY <1>0, <1>i DEF Turns, Becoming, OthersStay, EndedStaysEnded, Of, Live
<1>3. (LoggedOff => Live \subseteq late)'
  BY <1>0, <1>i DEF Turns, Becoming, OthersStay, LoggedOff, Live
<1>4. AnsweredIsRotated'
  BY <1>0, <1>i DEF Turns, Becoming, OthersStay, AnsweredIsRotated
<1>5. OwnNext'
  BY <1>0, <1>i DEF Turns, Becoming, OthersStay, OwnNext
<1>6. OneRotation'
  BY <1>0, <1>i DEF Turns, Becoming, OthersStay, OneRotation, Rotates
<1>7. OldOrNew'
  BY <1>0, <1>i DEF Turns, Becoming, OthersStay, OldOrNew, Rotates
<1>8. OneAlive'
  <2> SUFFICES ASSUME NEW f \in Session \ split', NEW s \in Session, NEW t \in Session,
                      session[s].status = "live", session[s].family = f,
                      session[t].status = "live", session[t].family = f,
                      s # t
               PROVE  \E g \in Handler : handler'[g].pc = "inserted" /\ handler'[g].next \in {s, t}
    BY <1>0 DEF OneAlive
  <2>1. f \in Session \ split
    BY <1>0
  <2>2. PICK g \in Handler : handler[g].pc = "inserted" /\ handler[g].next \in {s, t}
    BY <1>i, <2>1 DEF OneAlive
  <2>3. session[handler[g].session].family = f
    BY <1>i, <2>2 DEF Succeeds
  <2>4. g # h
    BY <1>0, <2>2, <2>3
  <2> QED
    BY <1>0, <2>2, <2>4 DEF Turns, OthersStay
<1>9. NotReplaced'
  BY <1>0, <1>i DEF Turns, Becoming, OthersStay, NotReplaced
<1>r. ASSUME NEW g \in Handler PROVE Refers(g)'
  <2>1. CASE g = h
    BY <1>0, <1>i, <2>1 DEF Turns, Becoming, Refers, Known
  <2>2. CASE g # h
    BY <1>0, <1>i, <2>2 DEF Turns, OthersStay, Refers, Known
  <2> QED
    BY <2>1, <2>2
<1>v. ASSUME NEW g \in Handler PROVE VersionFits(g)'
  <2>1. CASE g = h
    BY <1>0, <1>i, <2>1 DEF Turns, Becoming, VersionFits
  <2>2. CASE g # h
    BY <1>0, <1>i, <2>2 DEF Turns, OthersStay, VersionFits
  <2> QED
    BY <2>1, <2>2
<1>e. ASSUME NEW g \in Handler PROVE EndSeen(g)'
  <2>1. CASE g = h
    BY <1>0, <1>i, <2>1 DEF Turns, Becoming, EndSeen
  <2>2. CASE g # h
    BY <1>0, <1>i, <2>2 DEF Turns, OthersStay, EndSeen
  <2> QED
    BY <2>1, <2>2
<1>d. ASSUME NEW g \in Handler PROVE DisableSeen(g)'
  <2>1. CASE g = h
    BY <1>0, <2>1 DEF Turns, Becoming, DisableSeen
  <2>2. CASE g # h
    <3>1. LoggedOff' => LoggedOff
      BY <1>0 DEF Turns, OthersStay, LoggedOff
    <3> QED
      BY <1>0, <1>i, <2>2, <3>1 DEF Turns, OthersStay, DisableSeen
  <2> QED
    BY <2>1, <2>2
<1>s. ASSUME NEW g \in Handler PROVE Succeeds(g)'
  <2>1. CASE g = h
    BY <1>0, <1>i, <2>1 DEF Turns, Becoming, Succeeds, Spent
  <2>2. CASE g # h
    BY <1>0, <1>i, <2>2 DEF Turns, OthersStay, Succeeds, Spent
  <2> QED
    BY <2>1, <2>2
<1> QED
  BY <1>y, <1>1, <1>2, <1>3, <1>4, <1>5, <1>6, <1>7, <1>8, <1>9, <1>r, <1>v, <1>e, <1>d, <1>s
  DEF IInv, Base, References, Versions, Ends, Disables, Rotations, Chains

-----------------------------------------------------------------------------
LEMMA Initially == ASSUME Init PROVE IInv
<1>0. /\ handler = [h \in Handler |-> Idle] /\ account = "active" /\ tokenVersion = 1
      /\ session = [s \in Session |-> [status |-> "absent", family |-> None, parent |-> None,
                                       replacedBy |-> None]]
      /\ issued = {} /\ access = {} /\ ended = {} /\ late = {} /\ split = {} /\ halfway = FALSE
  BY DEF Init
<1>1. /\ \A h \in Handler : handler[h] = Idle /\ handler[h].pc = "idle"
      /\ \A s \in Session : session[s].status = "absent" /\ session[s].family = None
  BY <1>0 DEF Idle
<1>2. Idle \in Request
  BY DEF Idle, Request
<1>3. TypeOK
  <2>1. handler \in [Handler -> Request]
    BY <1>0, <1>2
  <2>2. session \in [Session -> Row]
    BY <1>0 DEF Row
  <2>3. tokenVersion \in 1..MaxVersion
    BY <1>0
  <2> QED
    BY <1>0, <2>1, <2>2, <2>3 DEF TypeOK, Row, Request
<1>4. Base
  BY <1>0, <1>1, <1>3 DEF Base, References, RowsRefer, Refers, Known, Versions, VersionFits
<1>5. Ends /\ Disables
  BY <1>0, <1>1 DEF Ends, Disables, EndedStaysEnded, EndSeen, LoggedOff, DisableSeen
<1>6. Rotations
  BY <1>0, <1>1 DEF Rotations, AnsweredIsRotated, OwnNext, Succeeds
<1>7. Chains
  BY <1>0, <1>1 DEF Chains, OneRotation, Rotates, OldOrNew, OneAlive, NotReplaced
<1> QED
  BY <1>4, <1>5, <1>6, <1>7 DEF IInv

LEMMA Stutters == ASSUME IInv, UNCHANGED vars PROVE IInv'
<1>1. UNCHANGED <<account, tokenVersion, session, issued, access, handler, ended, late, split, halfway>>
  BY DEF vars, history
<1>2. Base' /\ Ends'
  BY <1>1 DEF IInv, Base, TypeOK, References, RowsRefer, Refers, Known, Versions, VersionFits,
              Ends, EndedStaysEnded, Of, Live, EndSeen
<1>3. Disables' /\ Rotations'
  BY <1>1 DEF IInv, Disables, LoggedOff, Live, DisableSeen, Rotations, AnsweredIsRotated, OwnNext,
              Succeeds, Spent
<1>4. Chains'
  BY <1>1 DEF IInv, Chains, OneRotation, Rotates, OldOrNew, OneAlive, NotReplaced
<1> QED
  BY <1>2, <1>3, <1>4 DEF IInv

LEMMA Inductive == ASSUME IInv, [Next]_vars PROVE IInv'
<1>1. CASE Enable
  BY <1>1, EnableKeeps
<1>2. ASSUME NEW s \in Session, Logout(s) PROVE IInv'
  BY <1>2, LogoutKeeps
<1>3. ASSUME NEW h \in Handler, LoadLogin(h) PROVE IInv'
  BY <1>3, LoadLoginKeeps
<1>4. ASSUME NEW h \in Handler, NEW s \in Session, CreateSession(h, s) PROVE IInv'
  BY <1>4, CreateSessionKeeps
<1>5. ASSUME NEW h \in Handler, RefreshNext(h) PROVE IInv'
  <2>1. ASSUME NEW s \in Session, LoadSession(h, s) PROVE IInv'
    BY <2>1, LoadSessionKeeps
  <2>2. ASSUME NEW s \in Session, InsertNext(h, s) PROVE IInv'
    BY <2>2, InsertNextKeeps
  <2> QED
    BY <1>5, <2>1, <2>2, CheckUserKeeps, RevokeOldKeeps, RevokeFamilyKeeps DEF RefreshNext
<1>6. ASSUME NEW h \in Handler, Answer(h) PROVE IInv'
  BY <1>6, AnswerKeeps
<1>7. ASSUME NEW h \in Handler, NEW v \in access, LogoutAll(h, v) PROVE IInv'
  BY <1>7, LogoutAllKeeps
<1>8. ASSUME NEW h \in Handler, BumpVersion(h) \/ AdminNext(h) \/ Abandon(h) PROVE IInv'
  BY <1>8, BumpVersionKeeps, DisableKeeps, RevokeDisabledKeeps, BumpDisabledKeeps, AbandonKeeps
     DEF AdminNext
<1> QED
  BY <1>1, <1>2, <1>3, <1>4, <1>5, <1>6, <1>7, <1>8, Stutters DEF Next

(* Every reachable state of the sessions satisfies the invariant, of which  *)
(* the type invariant is a part.                                            *)
THEOREM Invariance == Spec => []IInv
<1>1. Init => IInv
  BY Initially
<1>2. IInv /\ [Next]_vars => IInv'
  BY Inductive
<1> QED
  BY <1>1, <1>2, PTL DEF Spec

-----------------------------------------------------------------------------
(* The promises of the service.  A family that was ended (sessions.ts:50-55)*)
(* stays ended.                                                             *)
THEOREM EndedForGood == Spec => []EndedStaysEnded
<1>1. IInv => EndedStaysEnded
  BY DEF IInv, Ends
<1> QED
  BY <1>1, Invariance, PTL

(* A disabled account is logged out (admin.routes.ts:37-38).                *)
THEOREM LoggedOut == Spec => []DisabledIsOut
<1>1. IInv => DisabledIsOut
  BY DEF IInv, Disables, LoggedOff, DisabledIsOut, At
<1> QED
  BY <1>1, Invariance, PTL

(* Whoever holds a rotated token can be sure its predecessor is spent.      *)
THEOREM RotatedOnAnswer == Spec => []AnsweredIsRotated
<1>1. IInv => AnsweredIsRotated
  BY DEF IInv, Rotations
<1> QED
  BY <1>1, Invariance, PTL

(* Unless two of its refreshes overlapped or one died between its insert    *)
(* and its update, at most one session of a family is alive, a rotation     *)
(* just between the two apart, and that one has no successor.               *)
OneLivePerFamily ==
    \A f \in Families \ split :
        LET successors == {handler[h].next : h \in {g \in Handler : At(g, "inserted")}}
        IN  /\ Cardinality((Of(f) \cap Live) \ successors) <= 1
            /\ \A s \in Of(f) \cap Live : session[s].replacedBy = None

LEMMA AtMostOneAlive == ASSUME IInv PROVE OneLivePerFamily
<1> DEFINE successors == {handler[h].next : h \in {g \in Handler : At(g, "inserted")}}
<1> SUFFICES ASSUME NEW f \in Families \ split
             PROVE  /\ Cardinality((Of(f) \cap Live) \ successors) <= 1
                    /\ \A s \in Of(f) \cap Live : session[s].replacedBy = None
  BY DEF OneLivePerFamily
<1>0. f \in Session \ split
  BY DEF Families
<1>1. \A s \in Of(f) \cap Live : session[s].replacedBy = None
  BY DEF IInv, Chains, NotReplaced, Of, Live
<1> DEFINE alone == (Of(f) \cap Live) \ successors
<1>2. ASSUME NEW s \in alone, NEW t \in alone PROVE s = t
  <2>1. /\ s \in Session /\ session[s].status = "live" /\ session[s].family = f
        /\ t \in Session /\ session[t].status = "live" /\ session[t].family = f
    BY DEF Of, Live
  <2>2. \A h \in Handler : handler[h].pc = "inserted" => handler[h].next \notin {s, t}
    BY DEF At
  <2> QED
    BY <1>0, <2>1, <2>2 DEF IInv, Chains, OneAlive
<1> HIDE DEF alone
<1>3. Cardinality(alone) <= 1
  <2>1. CASE alone = {}
    BY <2>1, FS_EmptySet
  <2>2. CASE alone # {}
    <3>1. PICK s : s \in alone
      BY <2>2
    <3>2. alone = {s}
      BY <1>2, <3>1
    <3> QED
      BY <3>2, FS_Singleton
  <2> QED
    BY <2>1, <2>2
<1> QED
  BY <1>1, <1>3 DEF alone

(* A family whose refreshes did not overlap has one session alive, a        *)
(* rotation just between its two statements apart.                          *)
THEOREM OneLive == Spec => []OneLivePerFamily
BY Invariance, AtMostOneAlive, PTL

-----------------------------------------------------------------------------
(* A family is a chain.  Most steps leave standing what stood, but for what *)
(* they revoke: they are a Lose, as is a step that changes nothing.         *)
Refreshes(g) == handler[g].pc \in {"live", "checked", "inserted"}

LEMMA StandsMeans ==
    ASSUME NEW s \in Session
    PROVE  Stands(s) <=>
             /\ session[s].family \notin split
             /\ \/ /\ session[s].status = "live"
                   /\ \A g \in Handler : handler[g].pc = "inserted" => handler[g].next # s
                \/ \E g \in Handler : Refreshes(g) /\ handler[g].session = s
BY DEF Stands, Arriving, Rotating, At, Refreshes

LEMMA StandsMeansThen ==
    ASSUME NEW s \in Session
    PROVE  Stands(s)' <=>
             /\ session'[s].family \notin split'
             /\ \/ /\ session'[s].status = "live"
                   /\ \A g \in Handler : handler'[g].pc = "inserted" => handler'[g].next # s
                \/ \E g \in Handler : Refreshes(g)' /\ handler'[g].session = s
BY DEF Stands, Arriving, Rotating, At, Refreshes

(* Only what is known stands for a family.                                  *)
LEMMA StandingIsKnown ==
    ASSUME Base, NEW s \in Session, Stands(s)
    PROVE  s \in Known
BY StandsMeans DEF Base, References, Refers, Known, Refreshes

(* A step that makes nothing stand, and lets nothing fall that is alive and *)
(* of a family not let go.                                                  *)
NoneRises == \A s \in Session : Stands(s)' => Stands(s)

NoneFalls ==
    \A s \in Session : Stands(s) /\ session[s].family \notin split' /\ session'[s].status = "live"
                         => Stands(s)'

LEMMA Loses ==
    ASSUME Base, Base', Grows, split \subseteq split', NoneRises, NoneFalls
    PROVE  Chain!Lose
<1>1. Gone \subseteq Gone'
  <2> SUFFICES ASSUME NEW s \in Gone PROVE s \in Gone'
    OBVIOUS
  <2>1. s \in Known /\ session[s].status = "revoked" /\ ~Stands(s)
    BY DEF Gone, Known
  <2>2. session'[s].status = "revoked"
    BY <2>1 DEF Grows, Base, TypeOK, Known
  <2> QED
    BY <2>1, <2>2 DEF Gone, NoneRises
<1>2. ASSUME NEW f \in Session
      PROVE  Held(f)' = {s \in Held(f) : f \notin split' /\ s \notin Gone'}
  <2>1. ASSUME NEW s \in Held(f)' PROVE s \in Held(f) /\ f \notin split' /\ s \notin Gone'
    <3>1. s \in Session /\ session'[s].family = f /\ Stands(s)' /\ Stands(s)
      BY <2>1 DEF Held, Of, NoneRises
    <3>2. s \in Known /\ session[s].family = f
      BY <3>1, StandingIsKnown DEF Grows
    <3>3. f \notin split'
      BY <3>1, StandsMeansThen
    <3> QED
      BY <3>1, <3>2, <3>3 DEF Held, Of, Gone
  <2>2. ASSUME NEW s \in Held(f), f \notin split', s \notin Gone' PROVE s \in Held(f)'
    <3>1. s \in Known /\ session[s].family = f /\ Stands(s)
      BY StandingIsKnown DEF Held, Of
    <3>2. session'[s].family = f /\ session'[s].status \in {"live", "revoked"}
      BY <3>1 DEF Grows, Base, TypeOK, Known
    <3>3. Stands(s)'
      BY <2>2, <3>1, <3>2 DEF Known, Gone, NoneFalls
    <3> QED
      BY <3>1, <3>2, <3>3 DEF Held, Of, Known
  <2> QED
    BY <2>1, <2>2
<1> QED
  BY <1>1, <1>2 DEF Chain!Lose

(* No refresh begins, ends or inserts.                                      *)
InPlace(g) ==
    /\ Refreshes(g)' <=> Refreshes(g)
    /\ Refreshes(g) => handler'[g].session = handler[g].session
    /\ handler'[g].pc = "inserted" <=> handler[g].pc = "inserted"
    /\ handler[g].pc = "inserted" => handler'[g].next = handler[g].next

LEMMA InPlaceLoses ==
    ASSUME Base, Base', Grows, split' = split,
           \A s \in Session : /\ session'[s].status = "live" => session[s].status = "live"
                              /\ session'[s].family = session[s].family,
           \A g \in Handler : InPlace(g)
    PROVE  Chain!Lose
<1>1. ASSUME NEW s \in Session, Stands(s)' PROVE Stands(s)
  BY <1>1, StandsMeans, StandsMeansThen DEF InPlace
<1>2. ASSUME NEW s \in Session, Stands(s), session'[s].status = "live" PROVE Stands(s)'
  BY <1>2, StandsMeans, StandsMeansThen DEF InPlace
<1>3. NoneRises /\ NoneFalls
  BY <1>1, <1>2 DEF NoneRises, NoneFalls
<1> QED
  BY <1>3, Loses

LEMMA SameRows ==
    ASSUME session' = session
    PROVE  /\ Grows
           /\ \A s \in Session : /\ session'[s].status = "live" => session[s].status = "live"
                                 /\ session'[s].family = session[s].family
BY DEF Grows, Known, Spent

LEMMA RowsRevoked ==
    ASSUME Base, NEW set, Revokes(set)
    PROVE  /\ Grows
           /\ \A s \in Session : /\ session'[s].status = "live" => session[s].status = "live"
                                 /\ session'[s].family = session[s].family
BY RevokesGrows DEF Revokes

(* A request that is not refreshing turns to something that is not either.  *)
LEMMA TurnsInPlace ==
    ASSUME NEW h \in Handler, NEW pc, NEW s, NEW n, NEW v, NEW c, Turns(h, pc, s, n, v, c),
           handler[h].pc \notin {"live", "checked", "inserted"},
           pc \notin {"live", "checked", "inserted"}
    PROVE  \A g \in Handler : InPlace(g)
BY DEF Turns, Becoming, OthersStay, InPlace, Refreshes

(* The steps that touch no refresh.                                         *)
LEMMA OutsideLoses ==
    ASSUME IInv, IInv', Enable \/ \E s \in Session : Logout(s)
    PROVE  Chain!Lose
<1>0. Base /\ Base'
  BY DEF IInv
<1>1. CASE Enable
  <2>1. session' = session /\ split' = split /\ \A g \in Handler : InPlace(g)
    BY <1>1, EnableDoes DEF InPlace, Refreshes
  <2> QED
    BY <1>0, <2>1, SameRows, InPlaceLoses
<1>2. ASSUME NEW s \in Session, Logout(s) PROVE Chain!Lose
  <2>1. Revokes({s}) /\ split' = split /\ \A g \in Handler : InPlace(g)
    BY <1>0, <1>2, LogoutDoes DEF InPlace, Refreshes
  <2> QED
    BY <1>0, <2>1, RowsRevoked, InPlaceLoses
<1> QED
  BY <1>1, <1>2

LEMMA ElsewhereLoses ==
    ASSUME IInv, IInv', NEW h \in Handler,
           \/ LoadLogin(h) \/ CheckUser(h) \/ RevokeFamily(h) \/ Answer(h)
           \/ \E v \in access : LogoutAll(h, v)
           \/ BumpVersion(h) \/ AdminNext(h)
    PROVE  Chain!Lose
<1>0. Base /\ Base'
  BY DEF IInv
<1>1. CASE LoadLogin(h)
  <2>1. session' = session /\ split' = split /\ \A g \in Handler : InPlace(g)
    BY <1>0, <1>1, LoadLoginDoes, TurnsInPlace
  <2> QED
    BY <1>0, <2>1, SameRows, InPlaceLoses
<1>2. CASE CheckUser(h)
  <2>1. session' = session /\ split' = split /\ \A g \in Handler : InPlace(g)
    BY <1>0, <1>2, CheckUserDoes DEF Turns, Becoming, OthersStay, InPlace, Refreshes
  <2> QED
    BY <1>0, <2>1, SameRows, InPlaceLoses
<1>3. CASE RevokeFamily(h)
  <2>1. /\ Revokes(Of(session[handler[h].session].family))
        /\ split' = split /\ \A g \in Handler : InPlace(g)
    BY <1>0, <1>3, RevokeFamilyDoes, TurnsInPlace
  <2> QED
    BY <1>0, <2>1, RowsRevoked, InPlaceLoses
<1>4. CASE Answer(h)
  <2>1. session' = session /\ split' = split /\ \A g \in Handler : InPlace(g)
    BY <1>0, <1>4, AnswerDoes, TurnsInPlace
  <2> QED
    BY <1>0, <2>1, SameRows, InPlaceLoses
<1>5. ASSUME NEW v \in access, LogoutAll(h, v) PROVE Chain!Lose
  <2>1. Revokes(Session) /\ split' = split /\ \A g \in Handler : InPlace(g)
    BY <1>0, <1>5, LogoutAllDoes, TurnsInPlace
  <2> QED
    BY <1>0, <2>1, RowsRevoked, InPlaceLoses
<1>6. CASE BumpVersion(h)
  <2>1. session' = session /\ split' = split /\ \A g \in Handler : InPlace(g)
    BY <1>0, <1>6, BumpVersionDoes, TurnsInPlace
  <2> QED
    BY <1>0, <2>1, SameRows, InPlaceLoses
<1>7. CASE Disable(h)
  <2>1. session' = session /\ split' = split /\ \A g \in Handler : InPlace(g)
    BY <1>0, <1>7, DisableDoes, TurnsInPlace
  <2> QED
    BY <1>0, <2>1, SameRows, InPlaceLoses
<1>8. CASE RevokeDisabled(h)
  <2>1. Revokes(Session) /\ split' = split /\ \A g \in Handler : InPlace(g)
    BY <1>0, <1>8, RevokeDisabledDoes, TurnsInPlace
  <2> QED
    BY <1>0, <2>1, RowsRevoked, InPlaceLoses
<1>9. CASE BumpDisabled(h)
  <2>1. session' = session /\ split' = split /\ \A g \in Handler : InPlace(g)
    BY <1>0, <1>9, BumpDisabledDoes, TurnsInPlace
  <2> QED
    BY <1>0, <2>1, SameRows, InPlaceLoses
<1> QED
  BY <1>1, <1>2, <1>3, <1>4, <1>5, <1>6, <1>7, <1>8, <1>9 DEF AdminNext

(* A login issues a family.                                                 *)
LEMMA CreateIssues ==
    ASSUME IInv, IInv', NEW h \in Handler, NEW n \in Session, CreateSession(h, n)
    PROVE  Chain!Issue(n) \/ Chain!Lose
<1>0. Base /\ Base'
  BY DEF IInv
<1>1. /\ Turns(h, "answer", handler[h].session, n, handler[h].version, handler[h].crossed)
      /\ handler[h].pc = "login" /\ Spawns(n, n, None) /\ split' = split
  BY <1>0, CreateSessionDoes
<1>2. /\ \A g \in Handler : InPlace(g)
      /\ \A g \in Handler : handler'[g].pc = "inserted" => handler'[g].next # n
  <2>1. \A g \in Handler : InPlace(g)
    BY <1>1, TurnsInPlace
  <2>2. \A g \in Handler : handler[g].pc = "inserted" => handler[g].next \in Known
    BY <1>0 DEF Base, References, Refers
  <2>3. n \notin Known
    BY <1>1 DEF Known, Spawns
  <2> QED
    BY <2>1, <2>2, <2>3 DEF InPlace
<1>3. n \notin Known /\ ~Stands(n)
  BY <1>0, <1>1, StandingIsKnown DEF Known, Spawns
<1>4. \A s \in Session \ {n} : session'[s] = session[s] /\ (Stands(s)' <=> Stands(s))
  <2> SUFFICES ASSUME NEW s \in Session \ {n}
               PROVE  session'[s] = session[s] /\ (Stands(s)' <=> Stands(s))
    OBVIOUS
  <2>1. session'[s] = session[s]
    BY <1>1 DEF Spawns
  <2>2. Stands(s)' => Stands(s)
    BY <1>1, <1>2, <2>1, StandsMeans, StandsMeansThen DEF InPlace
  <2>3. Stands(s) => Stands(s)'
    BY <1>1, <1>2, <2>1, StandsMeans, StandsMeansThen DEF InPlace
  <2> QED
    BY <2>1, <2>2, <2>3
<1>5. session'[n].status = "live" /\ session'[n].family = n
  BY <1>1 DEF Spawns
<1>6. Stands(n)' <=> n \notin split
  BY <1>1, <1>2, <1>5, StandsMeansThen
<1>7. Gone' = Gone
  BY <1>1, <1>3, <1>4, <1>5 DEF Gone, Spawns
<1>8. \A f \in Session \ {n} : Held(f)' = Held(f)
  BY <1>3, <1>4, <1>5 DEF Held, Of
<1>9. Held(n) = {} /\ Held(n)' = IF n \in split THEN {} ELSE {n}
  <2>1. \A s \in Session : session[s].family = n => s \notin Known
    BY <1>0, <1>3 DEF Base, References, RowsRefer
  <2>2. \A s \in Session : session[s].family = n => ~Stands(s)
    BY <1>0, <2>1, StandingIsKnown
  <2>3. Held(n) = {}
    BY <2>2 DEF Held, Of
  <2>4. \A s \in Session \ {n} : ~(session'[s].family = n /\ Stands(s)')
    BY <1>4, <2>2
  <2> QED
    BY <1>5, <1>6, <2>3, <2>4 DEF Held, Of
<1>10. CASE n \in split
  <2>1. \A f \in Session : Held(f)' = {s \in Held(f) : f \notin split' /\ s \notin Gone'}
    <3>1. \A f \in Session : \A s \in Held(f) : f \notin split /\ s \notin Gone
      BY StandsMeans DEF Held, Of, Gone
    <3>2. \A f \in Session : Held(f)' = Held(f)
      BY <1>8, <1>9, <1>10
    <3> QED
      BY <1>1, <1>7, <3>1, <3>2
  <2> QED
    BY <1>1, <1>7, <2>1 DEF Chain!Lose
<1>11. CASE n \notin split
  <2>1. n \notin Gone /\ \A f \in Session : n \notin Held(f)
    BY <1>3 DEF Gone, Known, Held
  <2>2. [f \in Session |-> Held(f)]' = [[f \in Session |-> Held(f)] EXCEPT ![n] = {n}]
    BY <1>8, <1>9, <1>11
  <2> QED
    BY <1>1, <1>7, <1>9, <1>11, <2>1, <2>2 DEF Chain!Issue, Chain!Fresh
<1> QED
  BY <1>10, <1>11

(* A refresh begins with a token that stands for its family.                *)
LEMMA LoadLoses ==
    ASSUME IInv, IInv', NEW h \in Handler, NEW k \in Session, LoadSession(h, k)
    PROVE  Chain!Lose
<1>0. Base /\ Base'
  BY DEF IInv
<1>1. /\ Turns(h, IF k \in Live THEN "live" ELSE "reused", k, None, 0, FALSE)
      /\ handler[h].pc = "idle" /\ k \in issued /\ session' = session
      /\ split' = IF k \in Live /\ Rotating(k) # {} THEN split \cup {session[k].family} ELSE split
  BY <1>0, LoadSessionDoes
<1>2. CASE k \notin Live
  <2>1. \A g \in Handler : InPlace(g)
    BY <1>1, <1>2, TurnsInPlace
  <2> QED
    BY <1>0, <1>1, <1>2, <2>1, SameRows, InPlaceLoses
<1>3. CASE k \in Live
  <2>1. /\ \A g \in Handler \ {h} : InPlace(g)
        /\ Refreshes(h)' /\ handler'[h].session = k /\ handler'[h].pc # "inserted"
        /\ ~Refreshes(h) /\ handler[h].pc # "inserted"
    BY <1>1, <1>3 DEF Turns, Becoming, OthersStay, InPlace, Refreshes
  <2>2. \A g \in Handler : handler[g].pc = "inserted" => handler[g].next # k
    BY <1>1 DEF IInv, Rotations, Succeeds
  <2>3. session[k].status = "live" /\ split \subseteq split'
    BY <1>1, <1>3 DEF Live
  <2>4. ASSUME NEW s \in Session, Stands(s)' PROVE Stands(s)
    <3>1. CASE s = k
      BY <1>1, <2>2, <2>3, <2>4, <3>1, StandsMeans, StandsMeansThen
    <3>2. CASE s # k
      BY <1>1, <2>1, <2>3, <2>4, <3>2, StandsMeans, StandsMeansThen DEF InPlace
    <3> QED
      BY <3>1, <3>2
  <2>5. ASSUME NEW s \in Session, Stands(s), session[s].family \notin split' PROVE Stands(s)'
    BY <1>1, <2>1, <2>5, StandsMeans, StandsMeansThen DEF InPlace
  <2>6. NoneRises /\ NoneFalls
    BY <2>4, <2>5 DEF NoneRises, NoneFalls
  <2> QED
    BY <1>0, <1>1, <2>3, <2>6, SameRows, Loses
<1> QED
  BY <1>2, <1>3

(* The new session stands for nothing until the old one is revoked.         *)
LEMMA InsertLoses ==
    ASSUME IInv, IInv', NEW h \in Handler, NEW n \in Session, InsertNext(h, n)
    PROVE  Chain!Lose
<1>0. Base /\ Base'
  BY DEF IInv
<1>1. /\ Turns(h, "inserted", handler[h].session, n, handler[h].version, handler[h].crossed)
      /\ handler[h].pc = "checked" /\ split' = split
      /\ Spawns(n, session[handler[h].session].family, handler[h].session)
  BY <1>0, InsertNextDoes
<1>2. n \notin Known /\ ~Stands(n)
  BY <1>0, <1>1, StandingIsKnown DEF Known, Spawns
<1>3. /\ \A g \in Handler \ {h} : InPlace(g)
      /\ Refreshes(h) /\ Refreshes(h)' /\ handler'[h].session = handler[h].session
      /\ handler'[h].pc = "inserted" /\ handler'[h].next = n /\ handler[h].pc # "inserted"
  BY <1>1 DEF Turns, Becoming, OthersStay, InPlace, Refreshes
<1>4. \A g \in Handler : Refreshes(g) => handler[g].session # n
  BY <1>0, <1>2 DEF Base, References, Refers, Refreshes
<1>5. ~Stands(n)'
  BY <1>3, <1>4, StandsMeansThen DEF InPlace
<1>6. Grows /\ \A s \in Session \ {n} : session'[s] = session[s]
  BY <1>1, <1>2 DEF Spawns, Grows, Known, Spent
<1>7. ASSUME NEW s \in Session, Stands(s)' PROVE Stands(s)
  <2>1. s # n /\ session'[s] = session[s]
    BY <1>5, <1>6, <1>7
  <2> QED
    BY <1>1, <1>3, <1>7, <2>1, StandsMeans, StandsMeansThen DEF InPlace
<1>8. ASSUME NEW s \in Session, Stands(s) PROVE Stands(s)'
  <2>1. s # n /\ session'[s] = session[s]
    BY <1>2, <1>6, <1>8
  <2> QED
    BY <1>1, <1>3, <1>8, <2>1, StandsMeans, StandsMeansThen DEF InPlace
<1>9. NoneRises /\ NoneFalls
  BY <1>7, <1>8 DEF NoneRises, NoneFalls
<1> QED
  BY <1>0, <1>1, <1>6, <1>9, Loses

(* A request that ends lets go of its family if it leaves two sessions      *)
(* alive in it; the token it had found alive stands for the family still,   *)
(* if nobody revoked it.                                                    *)
LEMMA AbandonLoses ==
    ASSUME IInv, IInv', NEW h \in Handler, Abandon(h)
    PROVE  Chain!Lose
<1>0. Base /\ Base'
  BY DEF IInv
<1>1. /\ Turns(h, "idle", None, None, 0, FALSE) /\ session' = session
      /\ split' = IF handler[h].pc = "inserted"
                  THEN split \cup {session[handler[h].session].family} ELSE split
  BY <1>0, AbandonDoes
<1>2. CASE ~Refreshes(h)
  <2>1. /\ \A g \in Handler : InPlace(g)
        /\ split' = split
    BY <1>1, <1>2, TurnsInPlace DEF Refreshes
  <2> QED
    BY <1>0, <1>1, <2>1, SameRows, InPlaceLoses
<1>3. CASE Refreshes(h)
  <2>1. /\ \A g \in Handler \ {h} : InPlace(g)
        /\ ~Refreshes(h)' /\ handler'[h].pc # "inserted" /\ split \subseteq split'
    BY <1>1 DEF Turns, Becoming, OthersStay, InPlace, Refreshes
  <2> DEFINE old == handler[h].session
  <2>2. old \in Known /\ session[old].family \in Session
    BY <1>0, <1>3 DEF Base, References, Refers, RowsRefer, Refreshes, Known
  <2>3. handler[h].pc = "inserted" => session[old].family \in split'
    BY <1>1
  <2>4. handler[h].pc = "inserted" => session[handler[h].next].family = session[old].family
    BY DEF IInv, Rotations, Succeeds
  <2>5. ASSUME NEW g \in Handler, handler[g].pc = "inserted", handler[g].next = old,
               session[old].family \notin split'
        PROVE  FALSE
    <3>1. session[handler[g].session].family = session[old].family
      BY <2>5 DEF IInv, Rotations, Succeeds
    <3>2. Rotates(g, session[old].family) /\ Rotates(h, session[old].family)
      BY <1>3, <2>5, <3>1 DEF Rotates, Refreshes
    <3>3. session[old].family \in Session \ split
      BY <2>1, <2>2, <2>5
    <3>4. g = h
      BY <3>2, <3>3 DEF IInv, Chains, OneRotation
    <3> QED
      BY <2>3, <2>5, <3>4
  <2>6. ASSUME NEW s \in Session, Stands(s)' PROVE Stands(s)
    <3>1. CASE \E g \in Handler : Refreshes(g)' /\ handler'[g].session = s
      BY <1>1, <2>1, <2>6, <3>1, StandsMeans, StandsMeansThen DEF InPlace
    <3>2. CASE /\ session[s].status = "live"
               /\ \A g \in Handler : handler'[g].pc = "inserted" => handler'[g].next # s
      <4>1. session[s].family \notin split'
        BY <1>1, <2>6, StandsMeansThen
      <4>2. \A g \in Handler \ {h} : handler[g].pc = "inserted" => handler[g].next # s
        BY <2>1, <3>2 DEF InPlace
      <4>3. handler[h].pc = "inserted" => handler[h].next # s
        BY <2>3, <2>4, <4>1
      <4> QED
        BY <2>1, <3>2, <4>1, <4>2, <4>3, StandsMeans
    <3> QED
      BY <1>1, <2>6, <3>1, <3>2, StandsMeansThen
  <2>7. ASSUME NEW s \in Session, Stands(s), session[s].family \notin split',
               session[s].status = "live"
        PROVE  Stands(s)'
    <3>1. CASE s = old
      <4>1. \A g \in Handler : handler[g].pc = "inserted" => handler[g].next # s
        BY <2>5, <2>7, <3>1
      <4>2. \A g \in Handler : handler'[g].pc = "inserted" => handler'[g].next # s
        BY <2>1, <4>1 DEF InPlace
      <4> QED
        BY <1>1, <2>7, <4>2, StandsMeansThen
    <3>2. CASE s # old
      <4>1. CASE \E g \in Handler : Refreshes(g) /\ handler[g].session = s
        BY <1>1, <2>1, <2>7, <3>2, <4>1, StandsMeansThen DEF InPlace
      <4>2. CASE \A g \in Handler : handler[g].pc = "inserted" => handler[g].next # s
        BY <1>1, <2>1, <2>7, <4>2, StandsMeansThen DEF InPlace
      <4> QED
        BY <2>7, <4>1, <4>2, StandsMeans
    <3> QED
      BY <3>1, <3>2
  <2>8. NoneRises /\ NoneFalls
    BY <1>1, <2>6, <2>7 DEF NoneRises, NoneFalls
  <2> QED
    BY <1>0, <1>1, <2>1, <2>8, SameRows, Loses
<1> QED
  BY <1>2, <1>3

(* A rotation hands over from the old session to the new one, or ends the   *)
(* family if that was revoked meanwhile.                                    *)
LEMMA RevokeRotates ==
    ASSUME IInv, IInv', NEW h \in Handler, RevokeOld(h),
           NEW old, old = handler[h].session, NEW new, new = handler[h].next,
           NEW f, f = session[old].family
    PROVE  Chain!FamilyNext
<1>0. Base /\ Base'
  BY DEF IInv
<1>1. /\ Turns(h, "answer", old, new, handler[h].version, handler[h].crossed)
      /\ handler[h].pc = "inserted" /\ old \in Known /\ new \in Known
      /\ session'[old].status = "revoked" /\ session'[old].replacedBy = new
      /\ session'[old].family = session[old].family /\ session'[old].parent = session[old].parent
      /\ \A s \in Session \ {old} : session'[s] = session[s]
      /\ split' = split
  BY <1>0, RevokeOldDoes
<1>2. /\ \A g \in Handler \ {h} : InPlace(g)
      /\ Refreshes(h) /\ ~Refreshes(h)' /\ handler'[h].pc # "inserted"
  BY <1>1 DEF Turns, Becoming, OthersStay, InPlace, Refreshes
<1>3. session[new].family = f /\ new # old /\ f \in Session
  BY <1>0, <1>1 DEF IInv, Rotations, Succeeds, Base, References, RowsRefer, Known
<1>4. Grows
  BY <1>1 DEF Grows, Known, Spent
<1>5. \A s \in Session : /\ session'[s].family = session[s].family
                         /\ session'[s].status = "live" <=> session[s].status = "live" /\ s # old
                         /\ session'[s].status = "revoked" <=> session[s].status = "revoked" \/ s = old
  BY <1>1 DEF Known
<1>6. \A s \in Session : session[s].family # f => (Stands(s)' <=> Stands(s))
  <2> SUFFICES ASSUME NEW s \in Session, session[s].family # f PROVE Stands(s)' <=> Stands(s)
    OBVIOUS
  <2>1. s # old /\ s # new
    BY <1>3
  <2>2. Stands(s)' => Stands(s)
    BY <1>1, <1>2, <1>5, <2>1, StandsMeans, StandsMeansThen DEF InPlace
  <2>3. Stands(s) => Stands(s)'
    BY <1>1, <1>2, <1>5, <2>1, StandsMeans, StandsMeansThen DEF InPlace
  <2> QED
    BY <2>2, <2>3
<1>7. CASE f \in split
  <2>1. NoneRises /\ NoneFalls
    BY <1>1, <1>5, <1>6, <1>7, StandsMeans, StandsMeansThen DEF NoneRises, NoneFalls
  <2> QED
    BY <1>0, <1>1, <1>4, <2>1, Loses DEF Chain!FamilyNext
<1>8. CASE f \notin split
  <2>1. \A g \in Handler : Rotates(g, f) => g = h
    BY <1>1, <1>3, <1>8 DEF IInv, Chains, OneRotation, Rotates
  <2>2. \A s \in Session : session[s].status = "live" /\ session[s].family = f => s \in {old, new}
    BY <1>1, <1>3, <1>8 DEF IInv, Chains, OldOrNew, Rotates
  <2>3. \A s \in Session : session[s].family = f => (Stands(s) <=> s = old)
    <3> SUFFICES ASSUME NEW s \in Session, session[s].family = f PROVE Stands(s) <=> s = old
      OBVIOUS
    <3>1. Stands(old)
      BY <1>1, <1>2, <1>8, StandsMeans DEF Known
    <3>2. ASSUME Stands(s) PROVE s = old
      <4>1. CASE \E g \in Handler : Refreshes(g) /\ handler[g].session = s
        BY <2>1, <4>1 DEF Rotates, Refreshes
      <4>2. CASE /\ session[s].status = "live"
                 /\ \A g \in Handler : handler[g].pc = "inserted" => handler[g].next # s
        BY <1>1, <2>2, <4>2
      <4> QED
        BY <3>2, <4>1, <4>2, StandsMeans
    <3> QED
      BY <3>1, <3>2
  <2>4. \A s \in Session :
          session[s].family = f => (Stands(s)' <=> s = new /\ session[new].status = "live")
    <3> SUFFICES ASSUME NEW s \in Session, session[s].family = f
                 PROVE  Stands(s)' <=> s = new /\ session[new].status = "live"
      OBVIOUS
    <3>1. ~\E g \in Handler : Refreshes(g)' /\ handler'[g].session = s
      <4> SUFFICES ASSUME NEW g \in Handler, Refreshes(g)', handler'[g].session = s PROVE FALSE
        OBVIOUS
      <4>1. g # h /\ Refreshes(g) /\ handler[g].session = s
        BY <1>2 DEF InPlace
      <4> QED
        BY <2>1, <4>1 DEF Rotates, Refreshes
    <3>2. \A g \in Handler : handler'[g].pc = "inserted" => handler'[g].next # new
      <4> SUFFICES ASSUME NEW g \in Handler, handler'[g].pc = "inserted" PROVE handler'[g].next # new
        OBVIOUS
      <4>1. g # h /\ handler[g].pc = "inserted" /\ handler'[g].next = handler[g].next
        BY <1>2 DEF InPlace
      <4> QED
        BY <1>1, <4>1 DEF IInv, Rotations, OwnNext
    <3>3. Stands(s)' <=> /\ session'[s].status = "live"
                         /\ \A g \in Handler : handler'[g].pc = "inserted" => handler'[g].next # s
      BY <1>1, <1>5, <1>8, <3>1, StandsMeansThen
    <3>4. Stands(s)' => s = new /\ session[new].status = "live"
      BY <1>5, <2>2, <3>3
    <3>5. s = new /\ session[new].status = "live" => Stands(s)'
      BY <1>3, <1>5, <3>2, <3>3
    <3> QED
      BY <3>4, <3>5
  <2>5. CASE session[new].status # "live"
    <3>1. NoneRises
      BY <1>6, <2>4, <2>5 DEF NoneRises
    <3>2. NoneFalls
      BY <1>5, <1>6, <2>3 DEF NoneFalls
    <3> QED
      BY <1>0, <1>1, <1>4, <3>1, <3>2, Loses DEF Chain!FamilyNext
  <2>6. CASE session[new].status = "live"
    <3>1. old \in Session /\ new \in Session
      BY <1>1 DEF Known
    <3>2. Held(f) = {old} /\ Held(f)' = {new}
      BY <1>3, <1>5, <2>3, <2>4, <2>6, <3>1 DEF Held, Of
    <3>3. \A e \in Session \ {f} : Held(e)' = Held(e)
      BY <1>5, <1>6 DEF Held, Of
    <3>4. Gone' = Gone \cup {old}
      <4>1. \A s \in Session : s \in Gone' <=> s \in Gone \/ s = old
        <5> SUFFICES ASSUME NEW s \in Session PROVE s \in Gone' <=> s \in Gone \/ s = old
          OBVIOUS
        <5>1. CASE session[s].family # f
          BY <1>5, <1>6, <5>1 DEF Gone
        <5>2. CASE session[s].family = f
          BY <1>3, <1>5, <2>3, <2>4, <2>6, <5>2 DEF Gone
        <5> QED
          BY <5>1, <5>2
      <4> QED
        BY <3>1, <4>1 DEF Gone
    <3>5. new \notin Gone /\ \A e \in Session : new \notin Held(e)
      BY <1>3, <2>3, <2>6, <3>1 DEF Gone, Held
    <3>6. [e \in Session |-> Held(e)]' = [[e \in Session |-> Held(e)] EXCEPT ![f] = {new}]
      BY <3>2, <3>3
    <3>7. Chain!Rotate(f, old, new)
      BY <1>1, <1>3, <3>1, <3>2, <3>4, <3>5, <3>6 DEF Chain!Rotate, Chain!Fresh
    <3>8. old \in [e \in Session |-> Held(e)][f]
      BY <1>3, <3>2
    <3> QED
      BY <1>3, <3>1, <3>7, <3>8 DEF Chain!FamilyNext
  <2> QED
    BY <2>5, <2>6
<1> QED
  BY <1>7, <1>8

(* Every step of the service is a step of the chains, or none.              *)
LEMMA ChainStep ==
    ASSUME IInv, IInv', [Next]_vars
    PROVE  [Chain!FamilyNext]_(Chain!familyVars)
<1>1. CASE UNCHANGED vars
  <2>1. UNCHANGED <<session, handler, split>>
    BY <1>1 DEF vars, history
  <2>2. \A s \in Session : Stands(s)' <=> Stands(s)
    BY <2>1, StandsMeans, StandsMeansThen DEF Refreshes
  <2>3. Gone' = Gone /\ \A f \in Session : Held(f)' = Held(f)
    BY <2>1, <2>2 DEF Gone, Held, Of
  <2> QED
    BY <2>1, <2>3 DEF Chain!familyVars
<1>2. CASE Enable \/ \E s \in Session : Logout(s)
  BY <1>2, OutsideLoses DEF Chain!FamilyNext
<1>3. ASSUME NEW h \in Handler,
             \/ LoadLogin(h) \/ RefreshNext(h) \/ Answer(h)
             \/ \E s \in Session : CreateSession(h, s)
             \/ \E v \in access : LogoutAll(h, v)
             \/ BumpVersion(h) \/ AdminNext(h) \/ Abandon(h)
      PROVE  Chain!FamilyNext
  <2>1. ASSUME NEW s \in Session, CreateSession(h, s) PROVE Chain!FamilyNext
    BY <2>1, CreateIssues DEF Chain!FamilyNext
  <2>2. CASE RefreshNext(h)
    <3>1. ASSUME NEW s \in Session, LoadSession(h, s) \/ InsertNext(h, s) PROVE Chain!FamilyNext
      BY <3>1, LoadLoses, InsertLoses DEF Chain!FamilyNext
    <3>2. CASE RevokeOld(h)
      BY <3>2, RevokeRotates
    <3>3. CASE CheckUser(h) \/ RevokeFamily(h)
      BY <3>3, ElsewhereLoses DEF Chain!FamilyNext
    <3> QED
      BY <2>2, <3>1, <3>2, <3>3 DEF RefreshNext
  <2>3. CASE Abandon(h)
    BY <2>3, AbandonLoses DEF Chain!FamilyNext
  <2>4. CASE \/ LoadLogin(h) \/ Answer(h) \/ \E v \in access : LogoutAll(h, v)
             \/ BumpVersion(h) \/ AdminNext(h)
    BY <2>4, ElsewhereLoses DEF Chain!FamilyNext
  <2> QED
    BY <1>3, <2>1, <2>2, <2>3, <2>4
<1> QED
  BY <1>1, <1>2, <1>3 DEF Next

(* Rotation keeps its promise: a family is one chain of sessions            *)
(* (sessions.ts:48-124), however requests interleave, revoke and stop,      *)
(* unless two refreshes of it overlapped or one stopped between its two     *)
(* statements.                                                              *)
THEOREM Rotation == Spec => FamiliesAreChains
<1>1. Init => Chain!FamilyInit
  BY StandsMeans DEF Init, Chain!FamilyInit, Held, Gone, Of
<1> QED
  BY <1>1, ChainStep, Invariance, PTL DEF Spec, FamiliesAreChains, Chain!FamilySpec

-----------------------------------------------------------------------------
(* Whatever the pages of the browser do, the server's part of it is a step  *)
(* of Sessions or none ...                                                  *)
LEMMA WebSteps == ASSUME IInv, WebNext PROVE [Next]_vars
<1>0. issued \subseteq Session
  BY DEF IInv, Base, TypeOK
<1>1. PICK h \in Handler :
        \/ PagesNext(h)
        \/ Begin(h) \/ Reject(h) \/ Serve(h) \/ ServeAnswer(h)
        \/ ServeReuse(h) \/ ServeAbandon(h) \/ ServeLogout(h)
  BY DEF WebNext
<1>2. CASE PagesNext(h) \/ Reject(h)
  BY <1>2 DEF PagesNext, Load, PressLogin, PressLogout, RefreshAnswered, LoginAnswered, MeAnswered,
              RefreshRefused, LoginRefused, LogoutAnswered, Lose, Reject
<1>3. CASE Begin(h)
  <2>1. CASE LoadLogin(h)
    BY <2>1 DEF Next
  <2>2. CASE LoadSession(h, call[h].cookie)
    <3>1. call[h].cookie \in Session
      BY <1>0, <2>2 DEF LoadSession
    <3>2. RefreshNext(h)
      BY <2>2, <3>1 DEF RefreshNext
    <3> QED
      BY <3>2 DEF Next
  <2> QED
    BY <1>3, <2>1, <2>2 DEF Begin
<1>4. CASE Serve(h)
  <2>1. \/ \E n \in Session : CreateSession(h, n)
        \/ RefreshNext(h)
    BY <1>4 DEF Serve, RefreshNext
  <2> QED
    BY <2>1 DEF Next
<1>5. CASE ServeAnswer(h)
  <2>1. Answer(h)
    BY <1>5 DEF ServeAnswer
  <2> QED
    BY <2>1 DEF Next
<1>6. CASE ServeReuse(h)
  <2>1. RefreshNext(h)
    BY <1>6 DEF ServeReuse, RefreshNext
  <2> QED
    BY <2>1 DEF Next
<1>7. CASE ServeAbandon(h)
  <2>1. Abandon(h)
    BY <1>7 DEF ServeAbandon
  <2> QED
    BY <2>1 DEF Next
<1>8. CASE ServeLogout(h)
  <2>1. CASE Logout(call[h].cookie)
    <3>1. call[h].cookie \in Session
      BY <1>0, <2>1 DEF Logout
    <3> QED
      BY <2>1, <3>1 DEF Next
  <2> QED
    BY <1>8, <2>1 DEF ServeLogout
<1> QED
  BY <1>1, <1>2, <1>3, <1>4, <1>5, <1>6, <1>7, <1>8

(* ... so that the service keeps its promises to it: every run of the       *)
(* browser is, on the server's variables, a run of Sessions.                *)
THEOREM BrowserUsesSessions == WebSpec => Spec
<1>1. WebInit => Init
  BY DEF WebInit
<1>2. IInv /\ [WebNext]_webVars => [Next]_vars
  BY WebSteps DEF webVars
<1>3. WebInit => IInv
  BY <1>1, Initially
<1>4. IInv /\ [WebNext]_webVars => IInv'
  BY <1>2, Inductive
<1> QED
  BY <1>1, <1>2, <1>3, <1>4, PTL DEF WebSpec, Spec

-----------------------------------------------------------------------------
(* One browser.  The token a call is about is the cookie it carries or, for *)
(* a login that is being answered, the session it made.                     *)
Holds(h, s) == s = IF call[h].op = "login" /\ call[h].at = "served" THEN handler[h].next
                   ELSE call[h].cookie

CallRow == [op : {"none", "refresh", "me", "login", "logout"},
            at : {"idle", "sent", "served", "ok", "failed"},
            tab : Tab \cup {None}, cookie : Session \cup {None}]

Kin(s, t) == session[s].family = session[t].family
Steady(s) == session[s].family \notin astray

(* The steps of a call and those of the request that serves it go together, *)
(* and a refresh or a logout nobody waits for is an accident of its family. *)
CallServed(h) ==
    /\ call[h].at # "served" => handler[h].pc = "idle"
    /\ call[h].at = "served" =>
         \/ /\ call[h].op = "refresh" /\ call[h].cookie # None
            /\ handler[h].session = call[h].cookie
            /\ handler[h].pc \in {"live", "checked", "inserted", "answer", "reused"}
         \/ /\ call[h].op = "login" /\ call[h].cookie = None
            /\ \/ handler[h].pc = "login" /\ handler[h].next = None
               \/ handler[h].pc = "answer" /\ handler[h].next # None
    /\ call[h].op = "refresh" /\ call[h].at = "ok" => call[h].cookie # None
    /\ call[h].op \in {"none", "me"} => call[h].cookie = None
    /\ call[h].op = "login" /\ call[h].at # "ok" => call[h].cookie = None
    /\ \A s \in Session : Holds(h, s) => s \in Known

Awaited(h) ==
    call[h].tab = None /\ call[h].op \in {"refresh", "logout"} =>
        \A s \in Session : Holds(h, s) => ~Steady(s)

Lineage == \A s \in Known : session[s].parent # None =>
               session[session[s].parent].family = session[s].family

Remembered == loggedOut \subseteq Known /\ (jar # None => jar \in Known)

(* A token nothing happens to is the last of its family, and alive unless   *)
(* it outlived a logout; one that was rotated has one successor, which is   *)
(* that; and one between the two statements of its rotation has both alive. *)
Sole(s) == \A t \in Live : Kin(s, t) => t = s
Childless(s) == \A n \in Known : session[n].parent # s
Rests(s) == Childless(s) /\ Sole(s) /\ (s \in Live \/ session[s].family \in kept)
Passed(s) == \A n \in Known : session[n].parent = s => n \in Live /\ Childless(n) /\ Sole(n)
Passing(s) == \A n \in Known : session[n].parent = s =>
    n \in Live /\ Childless(n) /\ \A t \in Live : Kin(s, t) => t \in {s, n}
Over(s) == Childless(s) /\ \A t \in Live : ~Kin(s, t)

(* How far a call has come with its token.                                  *)
Stage(h, s) ==
    /\ call[h].at \in {"sent", "failed"} => Rests(s)
    /\ call[h].op = "refresh" /\ call[h].at = "served" =>
         /\ handler[h].pc \in {"live", "checked"} => Rests(s) /\ s \in Live
         /\ handler[h].pc = "reused" => Rests(s) /\ session[s].family \in kept
         /\ handler[h].pc = "inserted" => Passing(s)
         /\ handler[h].pc = "answer" => Passed(s)
    /\ call[h].op = "refresh" /\ call[h].at = "ok" => Passed(s)
    /\ call[h].op = "logout" /\ call[h].at = "ok" => Over(s)
    /\ call[h].op = "login" => Rests(s) /\ s \in Live

(* Without an accident a family has one call at a time, the one the cookie  *)
(* was sent with; with no call, the cookie is a token that rests.           *)
OneCall == \A g, h \in Handler, s, t \in Session :
    Holds(g, s) /\ Holds(h, t) /\ Kin(s, t) /\ Steady(s) => g = h

Stages == \A h \in Handler, s \in Session : Holds(h, s) /\ Steady(s) => Stage(h, s)

JarAgrees == \A h \in Handler, s, t \in Session :
    jar = s /\ Holds(h, t) /\ Kin(s, t) /\ Steady(s) => s = t /\ call[h].op # "login"

JarRests == \A s \in Session :
    /\ jar = s /\ Steady(s)
    /\ \A h \in Handler, t \in Session : Holds(h, t) => ~Kin(s, t)
    => Rests(s)

Calls == \A h \in Handler : CallServed(h) /\ Awaited(h)
Places == OneCall /\ Stages /\ JarAgrees /\ JarRests
BrowserInv == WebTypeOK /\ Calls /\ Lineage /\ Remembered /\ Places /\ LogoutHolds /\ NoFalseAlarm

-----------------------------------------------------------------------------
(* A step touches the rows of one family f at most, and is one call's: the  *)
(* others keep their step, or are forgotten with their page.                *)
OnlyIn(f) ==
    /\ \A s \in Known :
         /\ s \in Known'
         /\ session'[s].family = session[s].family /\ session'[s].parent = session[s].parent
         /\ session[s].family # f => session'[s].status = session[s].status
    /\ \A s \in Known' \ Known :
         /\ session'[s].family = f
         /\ session'[s].parent # None =>
              session'[s].parent \in Known /\ session[session'[s].parent].family = f

StepOf(h, f) ==
    /\ OnlyIn(f) /\ astray \subseteq astray' /\ kept \subseteq kept'
    /\ \A g \in Handler \ {h} :
         /\ handler'[g].pc = handler[g].pc /\ handler'[g].session = handler[g].session
         /\ handler'[g].next = handler[g].next
         /\ \/ call'[g] = NoCall /\ call[g].at # "served"
            \/ /\ call'[g].op = call[g].op /\ call'[g].at = call[g].at
               /\ call'[g].cookie = call[g].cookie
               /\ \/ call'[g].tab = call[g].tab
                  \/ call[g].op \in {"refresh", "logout"} =>
                       \A s \in Session : Holds(g, s) => session[s].family \in astray'
         /\ \A s \in Session : Holds(g, s) /\ session[s].family = f => f \in astray'

LEMMA NoRowTouched ==
    ASSUME UNCHANGED session
    PROVE  OnlyIn(None)
BY DEF OnlyIn, Known

LEMMA Elsewhere ==
    ASSUME Base, Lineage, NEW f, OnlyIn(f), kept \subseteq kept',
           NEW s \in Session, s \in Known, session[s].family # f
    PROVE  /\ session'[s].family = session[s].family /\ s \in Known'
           /\ s \in Live => s \in Live'
           /\ Childless(s) => Childless(s)'
           /\ Sole(s) => Sole(s)'
           /\ Rests(s) => Rests(s)'
           /\ Passed(s) => Passed(s)'
           /\ Passing(s) => Passing(s)'
           /\ Over(s) => Over(s)'
<1>1. ASSUME NEW t \in Session, t \in Known, session[t].family # f
      PROVE  /\ session'[t].family = session[t].family /\ session'[t].parent = session[t].parent
             /\ t \in Known' /\ (t \in Live <=> t \in Live')
             /\ Childless(t) => Childless(t)'
             /\ Sole(t) => Sole(t)'
  <2>1. /\ session'[t].family = session[t].family /\ session'[t].parent = session[t].parent
        /\ t \in Known' /\ (t \in Live <=> t \in Live')
    BY <1>1 DEF OnlyIn, Live
  <2>2. ASSUME Childless(t), NEW n \in Known' PROVE session'[n].parent # t
    <3>1. t # None
      OBVIOUS
    <3> QED
      BY <1>1, <2>2, <3>1 DEF OnlyIn, Childless
  <2>3. ASSUME Sole(t), NEW u \in Live', session'[t].family = session'[u].family PROVE u = t
    <3>1. u \in Known' /\ u \in Session
      BY DEF Live, Known
    <3>2. u \in Known
      BY <3>1, <2>1, <2>3, <1>1 DEF OnlyIn
    <3>3. session[u].family = session[t].family /\ session'[u].status = session[u].status
      BY <3>2, <2>1, <2>3, <1>1 DEF OnlyIn
    <3>4. u \in Live
      BY <3>1, <3>3 DEF Live
    <3> QED
      BY <2>3, <3>3, <3>4 DEF Sole, Kin
  <2> QED
    BY <2>1, <2>2, <2>3 DEF Childless, Sole, Kin
<1>2. /\ session'[s].family = session[s].family /\ s \in Known'
      /\ (s \in Live <=> s \in Live')
      /\ Childless(s) => Childless(s)'
      /\ Sole(s) => Sole(s)'
  BY <1>1
<1>3. Rests(s) => Rests(s)'
  BY <1>2 DEF Rests
<1>4. ASSUME NEW n \in Known', session'[n].parent = s
      PROVE  /\ n \in Session /\ n \in Known /\ session[n].parent = s /\ session[n].family # f
             /\ session[n].family = session[s].family
  <2>1. n \in Session /\ s # None
    BY DEF Known
  <2>2. n \in Known
    BY <1>4, <2>1 DEF OnlyIn
  <2> QED
    BY <1>4, <2>1, <2>2 DEF OnlyIn, Lineage
<1>5. ASSUME Passed(s) PROVE Passed(s)'
  <2>1. ASSUME NEW n \in Known', session'[n].parent = s
        PROVE  n \in Live' /\ Childless(n)' /\ Sole(n)'
    BY <1>1, <1>4, <1>5, <2>1 DEF Passed
  <2> QED
    BY <2>1 DEF Passed
<1>6. ASSUME NEW u \in Live', session'[s].family = session'[u].family
      PROVE  u \in Live /\ session[s].family = session[u].family
  <2>1. u \in Session /\ u \in Known'
    BY DEF Live, Known
  <2>2. u \in Known
    BY <2>1, <1>2, <1>6 DEF OnlyIn
  <2> QED
    BY <2>1, <2>2, <1>2, <1>6 DEF OnlyIn, Live
<1>7. ASSUME Passing(s) PROVE Passing(s)'
  <2>1. ASSUME NEW n \in Known', session'[n].parent = s
        PROVE  n \in Live' /\ Childless(n)' /\ \A t \in Live' : Kin(s, t)' => t \in {s, n}
    BY <1>1, <1>4, <1>6, <1>7, <2>1 DEF Passing, Kin
  <2> QED
    BY <2>1 DEF Passing
<1>8. Over(s) => Over(s)'
  BY <1>2, <1>6 DEF Over, Kin
<1> QED
  BY <1>2, <1>3, <1>5, <1>7, <1>8

LEMMA OthersCarry ==
    ASSUME Base, BrowserInv, NEW h \in Handler, NEW f \in Session \cup {None}, StepOf(h, f),
           NEW g \in Handler \ {h}
    PROVE  /\ CallServed(g)' /\ Awaited(g)'
           /\ \A s \in Session : Holds(g, s)' =>
                /\ Holds(g, s) /\ s \in Known /\ session'[s].family = session[s].family
                /\ call'[g].op = call[g].op
                /\ Steady(s)' => Steady(s) /\ session[s].family # f /\ Stage(g, s)'
<1>1. /\ handler'[g].pc = handler[g].pc /\ handler'[g].session = handler[g].session
      /\ handler'[g].next = handler[g].next
  BY DEF StepOf
<1>2. CallServed(g) /\ Awaited(g) /\ Lineage
      /\ kept \subseteq kept' /\ astray \subseteq astray' /\ OnlyIn(f)
  BY DEF BrowserInv, Calls, StepOf
<1>3. CASE call'[g] = NoCall /\ call[g].at # "served"
  <2>1. \A s \in Session : ~Holds(g, s)'
    BY <1>3 DEF Holds, NoCall
  <2>2. handler'[g].pc = "idle"
    BY <1>1, <1>2, <1>3 DEF CallServed
  <2>3. CallServed(g)' /\ Awaited(g)'
    BY <1>3, <2>1, <2>2 DEF CallServed, Awaited, NoCall
  <2> QED
    BY <2>1, <2>3
<1>4. CASE ~(call'[g] = NoCall /\ call[g].at # "served")
  <2>1. /\ call'[g].op = call[g].op /\ call'[g].at = call[g].at /\ call'[g].cookie = call[g].cookie
        /\ \/ call'[g].tab = call[g].tab
           \/ call[g].op \in {"refresh", "logout"} =>
                \A s \in Session : Holds(g, s) => session[s].family \in astray'
    BY <1>4 DEF StepOf
  <2>2. \A s \in Session : Holds(g, s)' => Holds(g, s)
    BY <1>1, <2>1 DEF Holds
  <2>3. \A s \in Session : Holds(g, s)' =>
          s \in Known /\ s \in Known' /\ session'[s].family = session[s].family
    BY <1>2, <2>2 DEF CallServed, OnlyIn
  <2>4. CallServed(g)'
    BY <1>1, <1>2, <2>1, <2>3 DEF CallServed
  <2>5. Awaited(g)'
    BY <1>2, <2>1, <2>2, <2>3 DEF Awaited, Steady
  <2>6. ASSUME NEW s \in Session, Holds(g, s)', Steady(s)'
        PROVE  Steady(s) /\ session[s].family # f /\ Stage(g, s)'
    <3>1. Steady(s) /\ session[s].family # f
      BY <1>2, <2>2, <2>3, <2>6 DEF Steady, StepOf
    <3>2. Stage(g, s)
      BY <2>2, <2>6, <3>1 DEF BrowserInv, Places, Stages
    <3>3. /\ session'[s].family = session[s].family
          /\ s \in Live => s \in Live'
          /\ Rests(s) => Rests(s)'
          /\ Passed(s) => Passed(s)'
          /\ Passing(s) => Passing(s)'
          /\ Over(s) => Over(s)'
      BY <1>2, <2>3, <2>6, <3>1, Elsewhere
    <3>4. session[s].family \in kept => session'[s].family \in kept'
      BY <1>2, <3>3
    <3> QED
      BY <1>1, <2>1, <3>1, <3>2, <3>3, <3>4 DEF Stage
  <2> QED
    BY <2>1, <2>2, <2>3, <2>4, <2>5, <2>6
<1> QED
  BY <1>3, <1>4

LEMMA CallsCarry ==
    ASSUME Base, BrowserInv, NEW h \in Handler, NEW f \in Session \cup {None}, StepOf(h, f),
           CallServed(h)', Awaited(h)',
           \A s \in Session : Holds(h, s)' /\ Steady(s)' => Stage(h, s)',
           \A g \in Handler \ {h}, s, t \in Session :
               Holds(g, s)' /\ Holds(h, t)' /\ Kin(s, t)' => ~Steady(s)'
    PROVE  Calls' /\ OneCall' /\ Stages'
<1>1. Calls'
  BY OthersCarry DEF Calls
<1>2. Stages'
  BY OthersCarry DEF Stages
<1>3. ASSUME NEW g \in Handler, NEW k \in Handler, NEW s \in Session, NEW t \in Session,
             Holds(g, s)', Holds(k, t)', session'[s].family = session'[t].family, Steady(s)'
      PROVE  g = k
  <2>1. CASE g # h /\ k # h
    <3>1. Holds(g, s) /\ session'[s].family = session[s].family /\ Steady(s)
      BY <1>3, <2>1, OthersCarry
    <3>2. Holds(k, t) /\ session'[t].family = session[t].family
      BY <1>3, <2>1, OthersCarry
    <3> QED
      BY <1>3, <3>1, <3>2 DEF BrowserInv, Places, OneCall, Kin
  <2>2. CASE g # h /\ k = h
    BY <1>3, <2>2 DEF Kin
  <2>3. CASE g = h /\ k # h
    BY <1>3, <2>3 DEF Kin, Steady
  <2> QED
    BY <2>1, <2>2, <2>3
<1> QED
  BY <1>1, <1>2, <1>3 DEF OneCall, Kin

LEMMA JarCarries ==
    ASSUME Base, BrowserInv, NEW h \in Handler, NEW f \in Session \cup {None}, StepOf(h, f),
           jar' = jar,
           \A s, t \in Session : jar = s /\ Holds(h, t)' /\ Kin(s, t)' /\ Steady(s)'
               => s = t /\ call'[h].op # "login",
           \A s \in Session :
               /\ jar = s /\ Steady(s)'
               /\ \A g \in Handler, t \in Session : Holds(g, t)' => ~Kin(s, t)'
               /\ session[s].family = f \/ \E g \in Handler, t \in Session : Holds(g, t) /\ Kin(s, t)
               => Rests(s)'
    PROVE  JarAgrees' /\ JarRests'
<1>1. ASSUME NEW s \in Session, jar = s
      PROVE  s \in Known /\ session'[s].family = session[s].family /\ (Steady(s)' => Steady(s))
  <2>1. s \in Known
    BY <1>1 DEF BrowserInv, Remembered
  <2> QED
    BY <2>1 DEF StepOf, OnlyIn, Steady
<1>2. ASSUME NEW g \in Handler, NEW s \in Session, NEW t \in Session,
             jar = s, Holds(g, t)', Kin(s, t)', Steady(s)'
      PROVE  s = t /\ call'[g].op # "login"
  <2>1. CASE g = h
    BY <1>2, <2>1
  <2>2. CASE g # h
    <3>1. Holds(g, t) /\ session'[t].family = session[t].family /\ call'[g].op = call[g].op
      BY <1>2, <2>2, OthersCarry
    <3>2. Kin(s, t) /\ Steady(s)
      BY <1>1, <1>2, <3>1 DEF Kin
    <3> QED
      BY <1>2, <3>1, <3>2 DEF BrowserInv, Places, JarAgrees
  <2> QED
    BY <2>1, <2>2
<1>3. ASSUME NEW s \in Session, jar = s, Steady(s)',
             \A g \in Handler, t \in Session : Holds(g, t)' => ~Kin(s, t)'
      PROVE  Rests(s)'
  <2>1. CASE session[s].family = f \/ \E g \in Handler, t \in Session : Holds(g, t) /\ Kin(s, t)
    BY <1>3, <2>1
  <2>2. CASE session[s].family # f
             /\ \A g \in Handler, t \in Session : Holds(g, t) => ~Kin(s, t)
    <3>1. s \in Known /\ Steady(s)
      BY <1>1, <1>3
    <3>2. Rests(s)
      BY <1>3, <2>2, <3>1 DEF BrowserInv, Places, JarRests
    <3>3. Lineage /\ OnlyIn(f) /\ kept \subseteq kept'
      BY DEF BrowserInv, StepOf
    <3> QED
      BY <2>2, <3>1, <3>2, <3>3, Elsewhere
  <2> QED
    BY <2>1, <2>2
<1> QED
  BY <1>2, <1>3 DEF JarAgrees, JarRests

(* The call goes on with its token, as steps in its service do.             *)
LEMMA TokenKept ==
    ASSUME Base, BrowserInv, NEW h \in Handler, NEW f \in Session \cup {None}, StepOf(h, f),
           jar' = jar, \A g \in Handler \ {h} : call'[g] = call[g],
           CallServed(h)', Awaited(h)',
           \A s \in Session : Holds(h, s)' => Holds(h, s) /\ call'[h].op = call[h].op,
           \A s \in Session : Holds(h, s) => Holds(h, s)' \/ session[s].family \in astray',
           \A s \in Known : session[s].family = f =>
               f \in astray' \/ \E t \in Session : Holds(h, t) /\ Kin(s, t),
           \A s \in Session : Holds(h, s)' /\ Steady(s)' => Stage(h, s)'
    PROVE  Calls' /\ Places'
<1>1. ASSUME NEW s \in Session, s \in Known
      PROVE  session'[s].family = session[s].family /\ (Steady(s)' => Steady(s))
  BY <1>1 DEF StepOf, OnlyIn, Steady
<1>2. \A g \in Handler, s \in Session : Holds(g, s) => s \in Known
  BY DEF BrowserInv, Calls, CallServed
<1>3. Calls' /\ OneCall' /\ Stages'
  <2>1. ASSUME NEW g \in Handler \ {h}, NEW s \in Session, NEW t \in Session,
               Holds(g, s)', Holds(h, t)', Kin(s, t)'
        PROVE  ~Steady(s)'
    <3>1. Holds(g, s) /\ (Steady(s)' => Steady(s)) /\ session'[s].family = session[s].family
      BY <2>1, OthersCarry
    <3>2. Holds(h, t) /\ session'[t].family = session[t].family
      BY <1>1, <1>2, <2>1
    <3> QED
      BY <2>1, <3>1, <3>2 DEF BrowserInv, Places, OneCall, Kin
  <2> QED
    BY <2>1, CallsCarry
<1>4. JarAgrees' /\ JarRests'
  <2>1. ASSUME NEW s \in Session, jar = s
        PROVE  s \in Known
    BY <2>1 DEF BrowserInv, Remembered
  <2>2. ASSUME NEW s \in Session, NEW t \in Session, jar = s, Holds(h, t)', Kin(s, t)', Steady(s)'
        PROVE  s = t /\ call'[h].op # "login"
    <3>1. Holds(h, t) /\ Kin(s, t) /\ Steady(s)
      BY <1>1, <1>2, <2>1, <2>2 DEF Kin
    <3> QED
      BY <2>2, <3>1 DEF BrowserInv, Places, JarAgrees
  <2>3. ASSUME NEW s \in Session, jar = s, Steady(s)',
               \A g \in Handler, t \in Session : Holds(g, t)' => ~Kin(s, t)',
               session[s].family = f \/ \E g \in Handler, t \in Session : Holds(g, t) /\ Kin(s, t)
        PROVE  FALSE
    <3>1. s \in Known /\ session'[s].family = session[s].family /\ session[s].family \notin astray'
      BY <1>1, <2>1, <2>3 DEF Steady
    <3>2. PICK g \in Handler, t \in Session : Holds(g, t) /\ Kin(s, t)
      BY <2>3, <3>1
    <3>3. t \in Known /\ session'[t].family = session[t].family /\ session[t].family \notin astray'
      BY <1>1, <1>2, <3>1, <3>2 DEF Kin
    <3>4. Holds(g, t)'
      <4>1. CASE g = h
        BY <3>2, <3>3, <4>1
      <4>2. CASE g # h
        BY <3>2, <4>2 DEF Holds, StepOf
      <4> QED
        BY <4>1, <4>2
    <3>5. Kin(s, t)'
      BY <3>1, <3>2, <3>3 DEF Kin
    <3> QED
      BY <2>3, <3>4, <3>5
  <2> QED
    BY <2>2, <2>3, JarCarries
<1> QED
  BY <1>3, <1>4 DEF Places

-----------------------------------------------------------------------------
(* Steps of the pages leave the rows as they are.                           *)
LEMMA CallChanges ==
    ASSUME NEW c \in CallRow
    PROVE  /\ NoCall \in CallRow
           /\ Settled(c) \in CallRow
           /\ \/ Settled(c) = c
              \/ Settled(c) = NoCall /\ c.tab = None /\ (c.op = "me" \/ c.at \in {"ok", "failed"})
           /\ [c EXCEPT !.tab = None] \in CallRow
           /\ [c EXCEPT !.tab = None].op = c.op /\ [c EXCEPT !.tab = None].at = c.at
           /\ [c EXCEPT !.tab = None].tab = None /\ [c EXCEPT !.tab = None].cookie = c.cookie
           /\ \A v \in {"idle", "sent", "served", "ok", "failed"} :
                /\ [c EXCEPT !.at = v] \in CallRow
                /\ [c EXCEPT !.at = v].op = c.op /\ [c EXCEPT !.at = v].at = v
                /\ [c EXCEPT !.at = v].tab = c.tab /\ [c EXCEPT !.at = v].cookie = c.cookie
BY DEF CallRow, NoCall, Settled

LEMMA KnownFamily ==
    ASSUME Base, NEW s \in Session, s \in Known
    PROVE  session[s].family \in Session /\ session[s].family \in Known
BY DEF Base, References, RowsRefer, Known

LEMMA RowsStay ==
    ASSUME Base, BrowserInv, UNCHANGED <<session, loggedOut, alarmed>>,
           astray \subseteq astray', kept \subseteq kept', jar' \in Known \cup {jar, None}
    PROVE  Lineage' /\ Remembered' /\ LogoutHolds' /\ NoFalseAlarm'
<1>1. Known' = Known /\ Live' = Live
  BY DEF Known, Live
<1> QED
  BY <1>1 DEF BrowserInv, Lineage, Remembered, LogoutHolds, NoFalseAlarm

LEMMA PageStep ==
    ASSUME Base, BrowserInv, NEW h \in Handler, UNCHANGED <<session, handler>>,
           astray \subseteq astray', kept \subseteq kept',
           \A g \in Handler \ {h} : call'[g] = call[g]
    PROVE  StepOf(h, None)
<1>1. \A g \in Handler, s \in Session : Holds(g, s) => session[s].family # None
  BY KnownFamily DEF BrowserInv, Calls, CallServed
<1> QED
  BY <1>1, NoRowTouched DEF StepOf

LEMMA StillSo ==
    ASSUME Base, BrowserInv, UNCHANGED session, kept \subseteq kept', NEW s \in Session, s \in Known
    PROVE  /\ Rests(s) => Rests(s)'
           /\ Passed(s) => Passed(s)'
           /\ Passing(s) => Passing(s)'
           /\ Over(s) => Over(s)'
<1>1. session[s].family # None
  BY KnownFamily
<1> QED
  BY <1>1, NoRowTouched, Elsewhere DEF BrowserInv

(* The call is over, or about no token any more, and the cookie stays.      *)
LEMMA TokenDropped ==
    ASSUME Base, BrowserInv, NEW h \in Handler, UNCHANGED session, StepOf(h, None),
           jar' = jar, \A g \in Handler \ {h} : call'[g] = call[g],
           CallServed(h)', \A s \in Session : ~Holds(h, s)',
           \A s \in Session : jar = s /\ Holds(h, s) /\ Steady(s)' /\ call[h].op # "login" => Rests(s)'
    PROVE  Calls' /\ Places'
<1>1. \A g \in Handler, s \in Session : Holds(g, s) => s \in Known
  BY DEF BrowserInv, Calls, CallServed
<1>2. Calls' /\ OneCall' /\ Stages'
  <2>1. Awaited(h)'
    BY DEF Awaited
  <2> QED
    BY <2>1, CallsCarry
<1>3. ASSUME NEW s \in Session, jar = s, Steady(s)',
             \A g \in Handler, t \in Session : Holds(g, t)' => ~Kin(s, t)',
             session[s].family = None \/ \E g \in Handler, t \in Session : Holds(g, t) /\ Kin(s, t)
      PROVE  Rests(s)'
  <2>1. session[s].family # None
    BY <1>3, KnownFamily DEF BrowserInv, Remembered
  <2>2. PICK g \in Handler, t \in Session : Holds(g, t) /\ Kin(s, t)
    BY <1>3, <2>1
  <2>3. Steady(s) /\ Kin(s, t)'
    BY <1>3, <2>2 DEF Steady, Kin, StepOf
  <2>4. g = h
    <3>1. ASSUME g # h PROVE Holds(g, t)'
      BY <2>2, <3>1 DEF Holds, StepOf
    <3> QED
      BY <1>3, <2>3, <3>1
  <2>5. s = t /\ call[h].op # "login"
    BY <1>3, <2>2, <2>3, <2>4 DEF BrowserInv, Places, JarAgrees
  <2> QED
    BY <1>3, <2>2, <2>4, <2>5
<1>4. JarAgrees' /\ JarRests'
  BY <1>3, JarCarries
<1> QED
  BY <1>2, <1>4 DEF Places

(* The call's answer is a new cookie.                                       *)
LEMMA JarMoves ==
    ASSUME Base, BrowserInv, NEW h \in Handler, UNCHANGED session, StepOf(h, None),
           \A g \in Handler \ {h} : call'[g] = call[g],
           CallServed(h)', \A s \in Session : ~Holds(h, s)',
           NEW c \in Session, NEW n \in Session, Holds(h, c), Kin(c, n), jar' = n,
           astray' = astray, Steady(c) => Rests(n)', n \in Known
    PROVE  Calls' /\ Places'
<1>1. Calls' /\ OneCall' /\ Stages'
  <2>1. Awaited(h)'
    BY DEF Awaited
  <2> QED
    BY <2>1, CallsCarry
<1>2. ASSUME NEW g \in Handler, NEW t \in Session, Holds(g, t)', Kin(n, t)', Steady(n)'
      PROVE  FALSE
  <2>1. g # h
    BY <1>2
  <2>2. Holds(g, t) /\ Kin(c, t) /\ Steady(c)
    BY <1>2, <2>1, OthersCarry DEF Kin, Steady
  <2> QED
    BY <2>1, <2>2 DEF BrowserInv, Places, OneCall
<1>3. Steady(n)' => Rests(n)'
  BY DEF Steady, Kin
<1> QED
  BY <1>1, <1>2, <1>3 DEF Places, JarAgrees, JarRests

LEMMA UnansweredIs ==
    ASSUME Base, BrowserInv, NEW handlers \in SUBSET Handler
    PROVE  /\ Unanswered(handlers) \subseteq Session
           /\ \A g \in handlers, s \in Session :
                call[g].op \in {"refresh", "logout"} /\ call[g].at # "failed" /\ Holds(g, s)
                    => session[s].family \in Unanswered(handlers)
<1> DEFINE waiting == {g \in handlers : call[g].op \in {"refresh", "logout"} /\ call[g].at # "failed"}
<1>0. Unanswered(handlers) = UNION {Family(call[g].cookie) : g \in waiting}
  BY DEF Unanswered
<1>1. ASSUME NEW g \in waiting
      PROVE  Family(call[g].cookie) \subseteq Session
  <2>1. call[g].cookie \in Session \cup {None} /\ call[g].op \in {"refresh", "logout"}
    BY DEF BrowserInv, WebTypeOK
  <2>2. call[g].cookie # None => call[g].cookie \in Known
    BY <2>1 DEF BrowserInv, Calls, CallServed, Holds
  <2> QED
    BY <2>1, <2>2, KnownFamily DEF Family
<1>2. ASSUME NEW g \in waiting, NEW s \in Session, Holds(g, s)
      PROVE  session[s].family \in Family(call[g].cookie)
  BY <1>2 DEF Holds, Family
<1> QED
  BY <1>0, <1>1, <1>2

(* The call is over.                                                        *)
LEMMA ReceivesKeeps ==
    ASSUME Base, BrowserInv, NEW h \in Handler, Receives(h), call[h].at # "served",
           UNCHANGED <<session, handler, jar, astray, loggedOut, alarmed>>,
           user' \in SUBSET Tab, kept' \in SUBSET Session, kept \subseteq kept',
           \A s \in Session : jar = s /\ Holds(h, s) /\ Steady(s) /\ call[h].op # "login" => Rests(s)'
    PROVE  BrowserInv'
<1>1. call \in [Handler -> CallRow]
  BY DEF BrowserInv, WebTypeOK, CallRow
<1>2. /\ call' \in [Handler -> CallRow] /\ call'[h] = NoCall
      /\ \A g \in Handler \ {h} : call'[g] = call[g]
  BY <1>1 DEF Receives, CallRow, NoCall
<1>3. StepOf(h, None)
  BY <1>2, PageStep
<1>4. handler'[h].pc = "idle"
  BY DEF BrowserInv, Calls, CallServed
<1>5. CallServed(h)' /\ \A s \in Session : ~Holds(h, s)'
  BY <1>2, <1>4 DEF CallServed, Holds, NoCall
<1>6. Calls' /\ Places'
  BY <1>2, <1>3, <1>5, TokenDropped DEF Steady
<1>7. Lineage' /\ Remembered' /\ LogoutHolds' /\ NoFalseAlarm'
  BY RowsStay
<1>8. WebTypeOK'
  BY <1>2 DEF BrowserInv, WebTypeOK, CallRow
<1> QED
  BY <1>6, <1>7, <1>8 DEF BrowserInv

LEMMA MeAnsweredKeeps ==
    ASSUME Base, BrowserInv, NEW h \in Handler, MeAnswered(h)
    PROVE  BrowserInv'
<1>1. call[h].op = "me" /\ call[h].at = "sent" /\ call[h].tab \in Tab
  BY DEF MeAnswered, Is, BrowserInv, WebTypeOK
<1>2. \A s \in Session : ~Holds(h, s)
  BY <1>1 DEF BrowserInv, Calls, CallServed, Holds
<1>3. user' \in SUBSET Tab /\ kept' \in SUBSET Session
  BY <1>1 DEF MeAnswered, BrowserInv, WebTypeOK, browserHistory
<1> QED
  BY <1>1, <1>2, <1>3, ReceivesKeeps DEF MeAnswered, vars, browserHistory

LEMMA RefreshRefusedKeeps ==
    ASSUME Base, BrowserInv, NEW h \in Handler, RefreshRefused(h)
    PROVE  BrowserInv'
<1>1. call[h].op = "refresh" /\ call[h].at = "failed"
  BY DEF RefreshRefused, Is
<1>2. UNCHANGED <<session, handler, jar, astray, kept, loggedOut, alarmed>> /\ Receives(h)
  BY DEF RefreshRefused, vars, browserHistory
<1>3. user' \in SUBSET Tab /\ kept' \in SUBSET Session
  BY DEF RefreshRefused, BrowserInv, WebTypeOK, browserHistory
<1>4. ASSUME NEW s \in Session, Holds(h, s), Steady(s)
      PROVE  Rests(s)'
  <2>1. Rests(s) /\ s \in Known
    BY <1>1, <1>4 DEF BrowserInv, Places, Stages, Stage, Calls, CallServed
  <2> QED
    BY <1>2, <2>1, StillSo
<1> QED
  BY <1>1, <1>2, <1>3, <1>4, ReceivesKeeps

LEMMA LoginRefusedKeeps ==
    ASSUME Base, BrowserInv, NEW h \in Handler, LoginRefused(h)
    PROVE  BrowserInv'
<1>1. call[h].op = "login" /\ call[h].at = "failed"
  BY DEF LoginRefused, Is
<1>2. UNCHANGED <<session, handler, jar, astray, kept, loggedOut, alarmed, user>> /\ Receives(h)
  BY DEF LoginRefused, vars, browserHistory
<1>3. user' \in SUBSET Tab /\ kept' \in SUBSET Session
  BY <1>2 DEF BrowserInv, WebTypeOK
<1> QED
  BY <1>1, <1>2, <1>3, ReceivesKeeps

LEMMA LogoutAnsweredKeeps ==
    ASSUME Base, BrowserInv, NEW h \in Handler, LogoutAnswered(h)
    PROVE  BrowserInv'
<1>1. call[h].op = "logout" /\ call[h].at \in {"ok", "failed"}
  BY DEF LogoutAnswered
<1>2. UNCHANGED <<session, handler, astray, loggedOut, alarmed>> /\ Receives(h)
  BY DEF LogoutAnswered, vars
<1>3. user' \in SUBSET Tab
  BY DEF LogoutAnswered, BrowserInv, WebTypeOK
<1>4. CASE jar' = jar /\ kept' = (IF call[h].at = "ok" THEN kept \cup Family(jar) ELSE kept)
  <2>1. Family(jar) \subseteq Session
    BY KnownFamily DEF Family, BrowserInv, Remembered, WebTypeOK
  <2>2. kept' \in SUBSET Session /\ kept \subseteq kept'
    BY <1>4, <2>1 DEF BrowserInv, WebTypeOK
  <2>3. ASSUME NEW s \in Session, jar = s, Holds(h, s), Steady(s)
        PROVE  Rests(s)'
    <3>1. Stage(h, s) /\ s \in Known
      BY <2>3 DEF BrowserInv, Places, Stages, Calls, CallServed
    <3>2. CASE call[h].at = "failed"
      <4>1. Rests(s)
        BY <3>1, <3>2 DEF Stage
      <4> QED
        BY <1>2, <2>2, <3>1, <4>1, StillSo
    <3>3. CASE call[h].at = "ok"
      <4>1. Over(s)
        BY <1>1, <3>1, <3>3 DEF Stage
      <4>2. Over(s)'
        BY <1>2, <2>2, <3>1, <4>1, StillSo
      <4>3. session'[s].family \in kept'
        BY <1>2, <1>4, <2>3, <3>3 DEF Family
      <4> QED
        BY <4>2, <4>3 DEF Over, Rests, Sole
    <3> QED
      BY <1>1, <3>2, <3>3
  <2> QED
    BY <1>1, <1>2, <1>3, <1>4, <2>2, <2>3, ReceivesKeeps
<1>5. CASE jar' = None /\ kept' = kept
  <2>1. call \in [Handler -> CallRow]
    BY DEF BrowserInv, WebTypeOK, CallRow
  <2>2. /\ call' \in [Handler -> CallRow] /\ call'[h] = NoCall
        /\ \A g \in Handler \ {h} : call'[g] = call[g]
    BY <1>2, <2>1 DEF Receives, CallRow, NoCall
  <2>3. StepOf(h, None)
    BY <1>2, <1>5, <2>2, PageStep
  <2>4. handler'[h].pc = "idle"
    BY <1>1, <1>2 DEF BrowserInv, Calls, CallServed
  <2>5. CallServed(h)' /\ Awaited(h)' /\ \A s \in Session : ~Holds(h, s)'
    BY <2>2, <2>4 DEF CallServed, Awaited, Holds, NoCall
  <2>6. Calls' /\ OneCall' /\ Stages'
    BY <2>3, <2>5, CallsCarry
  <2>7. JarAgrees' /\ JarRests'
    BY <1>5 DEF JarAgrees, JarRests
  <2>8. Lineage' /\ Remembered' /\ LogoutHolds' /\ NoFalseAlarm'
    BY <1>2, <1>5, RowsStay
  <2>9. WebTypeOK'
    BY <1>2, <1>3, <1>5, <2>2 DEF BrowserInv, WebTypeOK, CallRow
  <2> QED
    BY <2>6, <2>7, <2>8, <2>9 DEF BrowserInv, Places
<1> QED
  BY <1>1, <1>4, <1>5 DEF LogoutAnswered

(* A new cookie.                                                            *)
LEMMA CookieKeeps ==
    ASSUME Base, BrowserInv, NEW h \in Handler, call[h].at # "served",
           UNCHANGED <<session, handler, browserHistory>>, user' \in SUBSET Tab,
           call' \in [Handler -> CallRow], \A g \in Handler \ {h} : call'[g] = call[g],
           call'[h].op \in {"none", "me"}, call'[h].at # "served", call'[h].cookie = None,
           NEW c \in Session, NEW n \in Session, Holds(h, c), Kin(c, n), jar' = n, n \in Known,
           Steady(c) => Rests(n)
    PROVE  BrowserInv'
<1>1. UNCHANGED <<astray, kept, loggedOut, alarmed>>
  BY DEF browserHistory
<1>2. StepOf(h, None)
  BY <1>1, PageStep
<1>3. handler'[h].pc = "idle"
  BY DEF BrowserInv, Calls, CallServed
<1>4. CallServed(h)' /\ \A s \in Session : ~Holds(h, s)'
  BY <1>3 DEF CallServed, Holds
<1>5. Rests(n) => Rests(n)'
  BY <1>1, StillSo
<1>6. Calls' /\ Places'
  BY <1>1, <1>2, <1>4, <1>5, JarMoves
<1>7. Lineage' /\ Remembered' /\ LogoutHolds' /\ NoFalseAlarm'
  BY <1>1, RowsStay
<1>8. WebTypeOK'
  BY <1>1 DEF BrowserInv, WebTypeOK, CallRow
<1> QED
  BY <1>6, <1>7, <1>8 DEF BrowserInv

LEMMA RefreshAnsweredKeeps ==
    ASSUME Base, BrowserInv, NEW h \in Handler, NEW n \in Session, RefreshAnswered(h, n)
    PROVE  BrowserInv'
<1>1. /\ call[h].op = "refresh" /\ call[h].at = "ok" /\ n \in issued
      /\ session[n].parent = call[h].cookie /\ jar' = n
      /\ call' = [call EXCEPT ![h].op = "me", ![h].at = "sent", ![h].cookie = None]
      /\ UNCHANGED <<session, handler, user, browserHistory>>
  BY DEF RefreshAnswered, Is, vars
<1>2. call \in [Handler -> CallRow] /\ user' \in SUBSET Tab
  BY <1>1 DEF BrowserInv, WebTypeOK, CallRow
<1>3. /\ call' \in [Handler -> CallRow] /\ \A g \in Handler \ {h} : call'[g] = call[g]
      /\ call'[h].op = "me" /\ call'[h].at = "sent" /\ call'[h].cookie = None
  BY <1>1, <1>2 DEF CallRow
<1>4. n \in Known
  BY <1>1 DEF Base, References, RowsRefer
<1>5. PICK c \in Session : c = call[h].cookie
  BY <1>1, <1>2 DEF CallRow, BrowserInv, Calls, CallServed
<1>6. Holds(h, c)
  BY <1>1, <1>5 DEF Holds
<1>7. Kin(c, n)
  BY <1>1, <1>4, <1>5 DEF BrowserInv, Lineage, Kin
<1>8. ASSUME Steady(c) PROVE Rests(n)
  <2>1. Passed(c)
    BY <1>1, <1>6, <1>8 DEF BrowserInv, Places, Stages, Stage
  <2> QED
    BY <1>1, <1>4, <1>5, <2>1 DEF Passed, Rests
<1> QED
  BY <1>1, <1>2, <1>3, <1>4, <1>6, <1>7, <1>8, CookieKeeps

LEMMA LoginAnsweredKeeps ==
    ASSUME Base, BrowserInv, NEW h \in Handler, NEW n \in Session, LoginAnswered(h, n)
    PROVE  BrowserInv'
<1>1. /\ call[h].op = "login" /\ call[h].at = "ok" /\ call[h].tab # None
      /\ n = call[h].cookie /\ jar' = n /\ Receives(h)
      /\ user' = user \cup {call[h].tab}
      /\ UNCHANGED <<session, handler, browserHistory>>
  BY DEF LoginAnswered, Is, vars
<1>2. call \in [Handler -> CallRow]
  BY DEF BrowserInv, WebTypeOK, CallRow
<1>3. user' \in SUBSET Tab
  BY <1>1, <1>2 DEF BrowserInv, WebTypeOK, CallRow
<1>4. /\ call' \in [Handler -> CallRow] /\ \A g \in Handler \ {h} : call'[g] = call[g]
      /\ call'[h].op = "none" /\ call'[h].at = "idle" /\ call'[h].cookie = None
  BY <1>1, <1>2 DEF CallRow, Receives, NoCall
<1>5. Holds(h, n) /\ Kin(n, n)
  BY <1>1 DEF Holds, Kin
<1>6. n \in Known
  BY <1>5 DEF BrowserInv, Calls, CallServed
<1>7. Steady(n) => Rests(n)
  BY <1>1, <1>5 DEF BrowserInv, Places, Stages, Stage
<1> QED
  BY <1>1, <1>3, <1>4, <1>5, <1>6, <1>7, CookieKeeps

(* An answer is lost, or the page no longer waits for it.                   *)
LEMMA LoseKeeps ==
    ASSUME Base, BrowserInv, NEW h \in Handler, Lose(h)
    PROVE  BrowserInv'
<1> DEFINE alone == [call[h] EXCEPT !.tab = None]
<1>1. /\ call[h].tab # None /\ call[h].at # "failed"
      /\ call' = [call EXCEPT ![h] = Settled(alone)]
      /\ astray' = astray \cup Unanswered({h})
      /\ UNCHANGED <<session, handler, jar, loggedOut, kept, alarmed>>
  BY DEF Lose, vars
<1>2. call \in [Handler -> CallRow] /\ user' \in SUBSET Tab
  BY DEF BrowserInv, WebTypeOK, CallRow, Lose
<1>3. /\ alone \in CallRow /\ alone.op = call[h].op /\ alone.at = call[h].at
      /\ alone.tab = None /\ alone.cookie = call[h].cookie
      /\ Settled(alone) \in CallRow
      /\ \/ Settled(alone) = alone
         \/ Settled(alone) = NoCall /\ (alone.op = "me" \/ alone.at \in {"ok", "failed"})
  <2>1. call[h] \in CallRow
    BY <1>2
  <2>2. /\ alone \in CallRow /\ alone.op = call[h].op /\ alone.at = call[h].at
        /\ alone.tab = None /\ alone.cookie = call[h].cookie
    BY <2>1, CallChanges
  <2> HIDE DEF alone
  <2> QED
    BY <2>2, CallChanges
<1> HIDE DEF alone
<1>4. /\ call' \in [Handler -> CallRow] /\ call'[h] = Settled(alone)
      /\ \A g \in Handler \ {h} : call'[g] = call[g]
  BY <1>1, <1>2, <1>3
<1>5. /\ Unanswered({h}) \subseteq Session
      /\ call[h].op \in {"refresh", "logout"} =>
           \A s \in Session : Holds(h, s) => session[s].family \in astray'
  BY <1>1, UnansweredIs
<1>6. StepOf(h, None)
  BY <1>1, <1>4, PageStep
<1>7. CallServed(h) /\ handler' = handler /\ Known' = Known /\ Live' = Live
  BY <1>1 DEF BrowserInv, Calls, Known, Live
<1>8. ASSUME Settled(alone) = NoCall, alone.op = "me" \/ alone.at \in {"ok", "failed"}
      PROVE  Calls' /\ Places'
  <2>1. handler'[h].pc = "idle"
    BY <1>3, <1>7, <1>8 DEF CallServed
  <2>2. CallServed(h)' /\ \A s \in Session : ~Holds(h, s)'
    BY <1>4, <1>8, <2>1 DEF CallServed, Holds, NoCall
  <2>3. ASSUME NEW s \in Session, jar = s, Holds(h, s), Steady(s)', call[h].op # "login"
        PROVE  FALSE
    <3>1. call[h].op \in {"refresh", "logout"}
      BY <1>2, <1>7, <2>3 DEF CallRow, CallServed, Holds
    <3> QED
      BY <1>1, <1>5, <2>3, <3>1 DEF Steady
  <2> QED
    BY <1>1, <1>4, <1>6, <2>2, <2>3, TokenDropped
<1>9. ASSUME Settled(alone) = alone
      PROVE  Calls' /\ Places'
  <2>1. call'[h].op = call[h].op /\ call'[h].at = call[h].at /\ call'[h].cookie = call[h].cookie
    BY <1>3, <1>4, <1>9
  <2>2. \A s \in Session : Holds(h, s)' <=> Holds(h, s)
    BY <1>7, <2>1 DEF Holds
  <2>3. CallServed(h)'
    BY <1>7, <2>1, <2>2 DEF CallServed
  <2>4. Awaited(h)'
    BY <1>1, <1>5, <2>1, <2>2 DEF Awaited, Steady
  <2>5. ASSUME NEW s \in Session, Holds(h, s)', Steady(s)' PROVE Stage(h, s)'
    <3>1. Stage(h, s) /\ s \in Known
      BY <1>1, <1>7, <2>2, <2>5 DEF Steady, BrowserInv, Places, Stages, CallServed
    <3>2. /\ Rests(s) => Rests(s)'
          /\ Passed(s) => Passed(s)'
          /\ Passing(s) => Passing(s)'
          /\ Over(s) => Over(s)'
      BY <1>1, <3>1, StillSo
    <3>3. /\ handler'[h].pc = handler[h].pc /\ (s \in Live => s \in Live')
          /\ session[s].family \in kept => session'[s].family \in kept'
      BY <1>1, <1>7
    <3> QED
      BY <2>1, <3>1, <3>2, <3>3 DEF Stage
  <2>6. \A s \in Known : session[s].family # None
    BY KnownFamily DEF Known
  <2> QED
    BY <1>1, <1>4, <1>6, <2>1, <2>2, <2>3, <2>4, <2>5, <2>6, TokenKept
<1>10. Lineage' /\ Remembered' /\ LogoutHolds' /\ NoFalseAlarm'
  BY <1>1, RowsStay
<1>11. WebTypeOK'
  BY <1>1, <1>2, <1>4, <1>5 DEF BrowserInv, WebTypeOK, CallRow
<1> QED
  BY <1>3, <1>8, <1>9, <1>10, <1>11 DEF BrowserInv

(* A call is sent, with the cookie of the moment.                           *)
LEMMA PressLoginKeeps ==
    ASSUME Base, BrowserInv, NEW t \in Tab, NEW h \in Handler, PressLogin(t, h)
    PROVE  BrowserInv'
<1>1. /\ call[h] = NoCall /\ handler[h].pc = "idle"
      /\ call' = [call EXCEPT ![h] = [op |-> "login", at |-> "sent", tab |-> t, cookie |-> None]]
      /\ UNCHANGED <<session, handler, jar, user, loggedOut, kept, alarmed>>
      /\ astray' = astray
  BY DEF PressLogin, Sends, At, vars
<1>2. call \in [Handler -> CallRow]
  BY DEF BrowserInv, WebTypeOK, CallRow
<1>3. /\ call' \in [Handler -> CallRow] /\ \A g \in Handler \ {h} : call'[g] = call[g]
      /\ call'[h].op = "login" /\ call'[h].at = "sent" /\ call'[h].cookie = None
  BY <1>1, <1>2 DEF CallRow
<1>4. StepOf(h, None)
  BY <1>1, <1>3, PageStep
<1>5. CallServed(h)' /\ \A s \in Session : ~Holds(h, s)' /\ ~Holds(h, s)
  BY <1>1, <1>3 DEF CallServed, Holds, NoCall
<1>6. Calls' /\ Places'
  BY <1>1, <1>3, <1>4, <1>5, TokenDropped
<1>7. Lineage' /\ Remembered' /\ LogoutHolds' /\ NoFalseAlarm'
  BY <1>1, RowsStay
<1>8. WebTypeOK'
  BY <1>1, <1>3 DEF BrowserInv, WebTypeOK, CallRow
<1> QED
  BY <1>6, <1>7, <1>8 DEF BrowserInv

(* The other calls are as they were, or those of a page that is reloaded:   *)
(* forgotten if they are over, and waited for by nobody otherwise.          *)
LEMMA SendsKeeps ==
    ASSUME Base, BrowserInv, NEW h \in Handler, NEW t \in Tab, NEW op \in {"refresh", "logout"},
           NEW calls, NEW families, Sends(h, t, op, calls, families),
           calls \in [Handler -> CallRow], families \subseteq Session,
           \A g \in Handler :
             \/ calls[g] = call[g]
             \/ /\ \/ calls[g] = NoCall /\ call[g].at # "served"
                   \/ /\ calls[g].op = call[g].op /\ calls[g].at = call[g].at
                      /\ calls[g].cookie = call[g].cookie
                /\ call[g].op \in {"refresh", "logout"} /\ call[g].at # "failed" =>
                     \A s \in Session : Holds(g, s) => session[s].family \in families
                /\ calls[g] # NoCall /\ call[g].op \in {"refresh", "logout"} =>
                     \A s \in Session : Holds(g, s) => session[s].family \in families,
           user' \in SUBSET Tab, UNCHANGED <<session, handler, jar, loggedOut, kept, alarmed>>
    PROVE  BrowserInv'
<1>1. /\ calls[h] = NoCall /\ handler[h].pc = "idle"
      /\ call' = [calls EXCEPT ![h] = [op |-> op, at |-> "sent", tab |-> t, cookie |-> jar]]
      /\ astray' = astray \cup families \cup (IF jar \in Cookies(calls) THEN Family(jar) ELSE {})
  BY DEF Sends, At
<1>2. /\ jar \in Session \cup {None} /\ (jar # None => jar \in Known)
      /\ astray \in SUBSET Session /\ Lineage
  BY DEF BrowserInv, WebTypeOK, Remembered
<1>3. /\ call' \in [Handler -> CallRow] /\ \A g \in Handler \ {h} : call'[g] = calls[g]
      /\ call'[h].op = op /\ call'[h].at = "sent" /\ call'[h].tab = t /\ call'[h].cookie = jar
  BY <1>1, <1>2 DEF CallRow
<1>4. \A s \in Session : Holds(h, s)' <=> s = jar
  BY <1>3 DEF Holds
<1>5. Known' = Known /\ Live' = Live /\ \A s \in Known : session[s].family # None
  BY KnownFamily DEF Known, Live
<1>6. StepOf(h, None)
  <2>1. \A g \in Handler, s \in Session : Holds(g, s) => session[s].family # None
    BY <1>5 DEF BrowserInv, Calls, CallServed
  <2>2. astray \subseteq astray' /\ families \subseteq astray'
    BY <1>1
  <2>3. ASSUME NEW g \in Handler \ {h}
        PROVE  \/ call'[g] = NoCall /\ call[g].at # "served"
               \/ /\ call'[g].op = call[g].op /\ call'[g].at = call[g].at
                  /\ call'[g].cookie = call[g].cookie
                  /\ \/ call'[g].tab = call[g].tab
                     \/ call[g].op \in {"refresh", "logout"} =>
                          \A s \in Session : Holds(g, s) => session[s].family \in astray'
    <3>1. CASE calls[g] = call[g]
      BY <1>3, <3>1
    <3>2. CASE calls[g] = NoCall /\ call[g].at # "served"
      BY <1>3, <3>2
    <3>3. CASE calls[g] # call[g] /\ ~(calls[g] = NoCall /\ call[g].at # "served")
      <4>1. /\ calls[g].op = call[g].op /\ calls[g].at = call[g].at
            /\ calls[g].cookie = call[g].cookie
        BY <3>3
      <4>2. ASSUME calls[g] = NoCall PROVE FALSE
        BY <3>3, <4>1, <4>2 DEF NoCall
      <4>3. call[g].op \in {"refresh", "logout"} =>
              \A s \in Session : Holds(g, s) => session[s].family \in families
        BY <3>3, <4>2
      <4> QED
        BY <1>3, <2>2, <4>1, <4>3
    <3> QED
      BY <3>1, <3>2, <3>3
  <2> QED
    BY <2>1, <2>2, <2>3, NoRowTouched DEF StepOf
<1>7. CallServed(h)' /\ Awaited(h)'
  BY <1>1, <1>2, <1>3, <1>4, <1>5, TabAssumption DEF CallServed, Awaited
\* A call that carries the cookie, and is not over, takes the accident note.
<1>8. ASSUME NEW g \in Handler, NEW s \in Session, Holds(g, s), jar # None, Kin(s, jar), Steady(jar)'
      PROVE  s = jar /\ (g # h => call'[g] = NoCall)
             /\ call[g].at = "failed" /\ call[g].op \in {"refresh", "logout"}
  <2>1. jar \in Session /\ Steady(jar)
    BY <1>1, <1>2, <1>8 DEF Steady
  <2>2. s = jar /\ call[g].op # "login"
    BY <1>8, <2>1 DEF BrowserInv, Places, JarAgrees, Kin
  <2>3. call[g].op \in {"refresh", "logout"} /\ call[g].cookie = jar
    <3>1. call[g] \in CallRow /\ CallServed(g)
      BY DEF BrowserInv, Calls, WebTypeOK, CallRow
    <3> QED
      BY <1>8, <2>1, <2>2, <3>1 DEF CallRow, CallServed, Holds
  <2>4. session[jar].family \notin families /\ jar \notin Cookies(calls)
    BY <1>1, <1>8, <2>1 DEF Steady, Family
  <2>5. ~(calls[g].op \in {"refresh", "logout"} /\ calls[g].cookie = jar)
    BY <2>4 DEF Cookies
  <2>6. calls[g] # call[g]
    BY <2>3, <2>5
  <2>7. calls[g] = NoCall
    BY <2>3, <2>5, <2>6
  <2>8. call[g].at = "failed"
    BY <1>8, <2>2, <2>3, <2>4, <2>6
  <2> QED
    BY <1>3, <2>2, <2>3, <2>7, <2>8
<1>9. ASSUME NEW s \in Session, s = jar, Steady(s)' PROVE Rests(s)'
  <2>1. Steady(s) /\ s \in Known /\ jar # None
    BY <1>1, <1>2, <1>9 DEF Steady
  <2>2. Rests(s)
    <3>1. CASE \E g \in Handler, u \in Session : Holds(g, u) /\ Kin(s, u)
      <4>1. PICK g \in Handler, u \in Session : Holds(g, u) /\ Kin(s, u)
        BY <3>1
      <4>2. u = s /\ call[g].at = "failed"
        BY <1>8, <1>9, <2>1, <4>1 DEF Kin
      <4> QED
        BY <2>1, <4>1, <4>2 DEF BrowserInv, Places, Stages, Stage
    <3>2. CASE \A g \in Handler, u \in Session : Holds(g, u) => ~Kin(s, u)
      BY <1>9, <2>1, <3>2 DEF BrowserInv, Places, JarRests
    <3> QED
      BY <3>1, <3>2
  <2> QED
    BY <2>1, <2>2, StillSo
<1>10. Calls' /\ OneCall' /\ Stages'
  <2>1. \A s \in Session : Holds(h, s)' /\ Steady(s)' => Stage(h, s)'
    BY <1>3, <1>4, <1>9 DEF Stage
  <2>2. ASSUME NEW g \in Handler \ {h}, NEW s \in Session, NEW u \in Session,
               Holds(g, s)', Holds(h, u)', Kin(s, u)', Steady(s)'
        PROVE  FALSE
    <3>1. u = jar /\ jar # None
      BY <1>4, <2>2
    <3>2. Holds(g, s) /\ Kin(s, jar) /\ Steady(jar)'
      BY <1>6, <2>2, <3>1, OthersCarry DEF Kin, Steady
    <3>3. call'[g] = NoCall
      BY <1>8, <3>1, <3>2
    <3> QED
      BY <2>2, <3>3 DEF Holds, NoCall
  <2> QED
    BY <1>6, <1>7, <2>1, <2>2, CallsCarry
<1>11. JarAgrees' /\ JarRests'
  <2>1. \A s, u \in Session : jar = s /\ Holds(h, u)' /\ Kin(s, u)' /\ Steady(s)'
          => s = u /\ call'[h].op # "login"
    BY <1>3, <1>4
  <2>2. \A s \in Session : jar = s => Holds(h, s)' /\ Kin(s, s)'
    BY <1>4 DEF Kin
  <2> QED
    BY <1>6, <2>1, <2>2, JarCarries
<1>12. Lineage' /\ Remembered' /\ LogoutHolds' /\ NoFalseAlarm'
  BY <1>6, RowsStay DEF StepOf
<1>13. WebTypeOK'
  <2>1. astray' \in SUBSET Session
    BY <1>1, <1>2, KnownFamily DEF Family
  <2> QED
    BY <1>3, <2>1 DEF BrowserInv, WebTypeOK, CallRow
<1> QED
  BY <1>10, <1>11, <1>12, <1>13 DEF BrowserInv, Places

LEMMA PressLogoutKeeps ==
    ASSUME Base, BrowserInv, NEW t \in Tab, NEW h \in Handler, PressLogout(t, h)
    PROVE  BrowserInv'
<1>1. call \in [Handler -> CallRow] /\ user \in SUBSET Tab
  BY DEF BrowserInv, WebTypeOK, CallRow
<1>2. /\ Sends(h, t, "logout", call, {})
      /\ UNCHANGED <<session, handler, jar, user, loggedOut, kept, alarmed>>
  BY DEF PressLogout, vars
<1> QED
  BY <1>1, <1>2, SendsKeeps

LEMMA LoadKeeps ==
    ASSUME Base, BrowserInv, NEW t \in Tab, NEW h \in Handler, Load(t, h)
    PROVE  BrowserInv'
<1> DEFINE own == {g \in Handler : call[g].tab = t}
           calls == Orphaned(t)
           families == Unanswered(own)
<1>1. call \in [Handler -> CallRow] /\ user' \in SUBSET Tab
  BY DEF BrowserInv, WebTypeOK, CallRow, Load
<1>2. /\ Sends(h, t, "refresh", calls, families)
      /\ UNCHANGED <<session, handler, jar, loggedOut, kept, alarmed>>
  BY DEF Load, vars
<1>3. /\ families \subseteq Session
      /\ \A g \in own, s \in Session :
           call[g].op \in {"refresh", "logout"} /\ call[g].at # "failed" /\ Holds(g, s)
               => session[s].family \in families
  BY UnansweredIs
<1>4. ASSUME NEW g \in Handler
      PROVE  /\ calls[g] \in CallRow
             /\ \/ calls[g] = call[g]
                \/ /\ \/ calls[g] = NoCall /\ call[g].at # "served"
                      \/ /\ calls[g].op = call[g].op /\ calls[g].at = call[g].at
                         /\ calls[g].cookie = call[g].cookie
                   /\ call[g].op \in {"refresh", "logout"} /\ call[g].at # "failed" =>
                        \A s \in Session : Holds(g, s) => session[s].family \in families
                   /\ calls[g] # NoCall /\ call[g].op \in {"refresh", "logout"} =>
                        \A s \in Session : Holds(g, s) => session[s].family \in families
  <2>1. CASE call[g].tab # t
    <3>1. calls[g] = call[g]
      BY <2>1 DEF Orphaned
    <3> QED
      BY <1>1, <3>1
  <2>2. CASE call[g].tab = t
    <3> DEFINE alone == [call[g] EXCEPT !.tab = None]
    <3>1. calls[g] = Settled(alone)
      BY <2>2 DEF Orphaned
    <3>2. /\ alone \in CallRow /\ alone.op = call[g].op /\ alone.at = call[g].at
          /\ alone.tab = None /\ alone.cookie = call[g].cookie
      <4>1. call[g] \in CallRow
        BY <1>1
      <4> QED
        BY <4>1, CallChanges
    <3> HIDE DEF alone, calls, families
    <3>3. /\ Settled(alone) \in CallRow
          /\ \/ Settled(alone) = alone
             \/ Settled(alone) = NoCall /\ (alone.op = "me" \/ alone.at \in {"ok", "failed"})
      BY <3>2, CallChanges
    <3>4. alone.at = "failed" => Settled(alone) = NoCall
      BY <3>2 DEF Settled
    <3>5. call[g].op = "me" => call[g].at # "served"
      BY DEF BrowserInv, Calls, CallServed
    <3>6. call[g].op \in {"refresh", "logout"} /\ call[g].at # "failed" =>
            \A s \in Session : Holds(g, s) => session[s].family \in families
      BY <1>3, <2>2
    <3> QED
      BY <3>1, <3>2, <3>3, <3>4, <3>5, <3>6
  <2> QED
    BY <2>1, <2>2
<1>5. calls \in [Handler -> CallRow]
  BY <1>4 DEF Orphaned
<1> HIDE DEF calls, families
<1> QED
  BY <1>1, <1>2, <1>3, <1>4, <1>5, SendsKeeps

-----------------------------------------------------------------------------
(* Steps of the service touch the family of their call's token.             *)
LEMMA SpawnsIn ==
    ASSUME Base, NEW n \in Session, NEW f \in Session \cup {None}, NEW p \in Session \cup {None},
           Spawns(n, f, p), p # None => p \in Known /\ session[p].family = f
    PROVE  OnlyIn(f) /\ Known' = Known \cup {n} /\ Live' = Live \cup {n} /\ n \notin Known
<1>1. n \notin Known /\ Known' = Known \cup {n} /\ Live' = Live \cup {n}
  BY DEF Spawns, Known, Live
<1>2. \A s \in Known : s \in Session /\ session'[s] = session[s]
  BY <1>1 DEF Spawns, Known
<1> QED
  BY <1>1, <1>2 DEF OnlyIn, Spawns

LEMMA RevokesIn ==
    ASSUME Base, NEW set, Revokes(set), NEW f \in Session \cup {None},
           \A s \in Known : s \in set => session[s].family = f
    PROVE  /\ OnlyIn(f) /\ Known' = Known /\ Live' = Live \ set
           /\ \A s \in Session : session'[s].family = session[s].family
                                 /\ session'[s].parent = session[s].parent
<1>1. /\ \A s \in Session : session'[s].family = session[s].family
                            /\ session'[s].parent = session[s].parent
      /\ Known' = Known /\ Live' = Live \ set
  BY DEF Revokes, Known, Live
<1>2. \A s \in Known : session[s].family # f => session'[s].status = session[s].status
  BY DEF Revokes, Known
<1>3. \A s \in Known : s \in Session
  BY DEF Known
<1> QED
  BY <1>1, <1>2, <1>3 DEF OnlyIn

LEMMA RowsKept ==
    ASSUME Base, BrowserInv, NEW f \in Session \cup {None}, OnlyIn(f), jar' = jar,
           loggedOut' = loggedOut, alarmed' \subseteq alarmed \cup astray' \cup kept',
           astray \subseteq astray', kept \subseteq kept',
           \A s \in Live' \ Live : session'[s].family \in loggedOut => session'[s].family \in astray'
    PROVE  Lineage' /\ Remembered' /\ LogoutHolds' /\ NoFalseAlarm'
<1>1. ASSUME NEW s \in Known', session'[s].parent # None
      PROVE  session'[session'[s].parent].family = session'[s].family
  <2>1. CASE s \in Known
    <3>1. session'[s].parent = session[s].parent /\ session'[s].family = session[s].family
      BY <2>1 DEF OnlyIn
    <3>2. session[s].parent \in Known
      BY <1>1, <2>1, <3>1 DEF Base, References, RowsRefer
    <3> QED
      BY <1>1, <2>1, <3>1, <3>2 DEF OnlyIn, BrowserInv, Lineage
  <2>2. CASE s \notin Known
    BY <1>1, <2>2 DEF OnlyIn
  <2> QED
    BY <2>1, <2>2
<1>2. Remembered'
  BY DEF OnlyIn, BrowserInv, Remembered
<1>3. ASSUME NEW s \in Live', session'[s].family \in loggedOut PROVE session'[s].family \in astray'
  <2>1. CASE s \in Live
    <3>1. s \in Known
      BY <2>1 DEF Live, Known
    <3>2. session'[s].family = session[s].family
      BY <3>1 DEF OnlyIn
    <3> QED
      BY <1>3, <2>1, <3>2 DEF BrowserInv, LogoutHolds
  <2>2. CASE s \notin Live
    BY <1>3, <2>2
  <2> QED
    BY <2>1, <2>2
<1>4. NoFalseAlarm'
  BY DEF BrowserInv, NoFalseAlarm
<1> QED
  BY <1>1, <1>2, <1>3, <1>4 DEF Lineage, LogoutHolds

LEMMA ServiceStep ==
    ASSUME Base, BrowserInv, NEW h \in Handler, NEW f \in Session \cup {None}, OnlyIn(f),
           OthersStay(h), \A g \in Handler \ {h} : call'[g] = call[g],
           astray \subseteq astray', kept \subseteq kept',
           \A s \in Known : session[s].family = f =>
               f \in astray' \/ \E t \in Session : Holds(h, t) /\ Kin(s, t)
    PROVE  StepOf(h, f)
<1>1. ASSUME NEW g \in Handler \ {h}, NEW s \in Session, Holds(g, s), session[s].family = f
      PROVE  f \in astray'
  <2>1. s \in Known
    BY <1>1 DEF BrowserInv, Calls, CallServed
  <2>2. CASE \E t \in Session : Holds(h, t) /\ Kin(s, t)
    <3>1. ~Steady(s)
      BY <1>1, <2>2 DEF BrowserInv, Places, OneCall
    <3> QED
      BY <1>1, <3>1 DEF Steady
  <2> QED
    BY <1>1, <2>1, <2>2
<1> QED
  BY <1>1 DEF StepOf, OthersStay

(* The call goes on to another step, or is forgotten if nobody waits.       *)
CallGoesOn(h, state) ==
    /\ call' \in [Handler -> CallRow]
    /\ \A g \in Handler \ {h} : call'[g] = call[g]
    /\ \/ /\ call'[h].op = call[h].op /\ call'[h].at = state
          /\ call'[h].tab = call[h].tab /\ call'[h].cookie = call[h].cookie
       \/ call'[h] = NoCall /\ call[h].tab = None /\ state \in {"ok", "failed"}

LEMMA BecomesDoes ==
    ASSUME BrowserInv, NEW h \in Handler, NEW state \in {"served", "ok", "failed"},
           Becomes(h, state), call[h].op # "me"
    PROVE  CallGoesOn(h, state)
<1> DEFINE next == [call[h] EXCEPT !.at = state]
<1>1. call \in [Handler -> CallRow]
  BY DEF BrowserInv, WebTypeOK, CallRow
<1>2. /\ next \in CallRow /\ next.op = call[h].op /\ next.at = state
      /\ next.tab = call[h].tab /\ next.cookie = call[h].cookie
  <2>1. call[h] \in CallRow
    BY <1>1
  <2> QED
    BY <2>1 DEF CallRow
<1>3. call' = [call EXCEPT ![h] = Settled(next)]
  BY DEF Becomes
<1> HIDE DEF next
<1>4. /\ Settled(next) \in CallRow
      /\ \/ Settled(next) = next
         \/ Settled(next) = NoCall /\ next.tab = None /\ (next.op = "me" \/ next.at \in {"ok", "failed"})
  BY <1>2, CallChanges
<1>5. /\ call' \in [Handler -> CallRow] /\ call'[h] = Settled(next)
      /\ \A g \in Handler \ {h} : call'[g] = call[g]
  BY <1>1, <1>3, <1>4
<1> QED
  BY <1>2, <1>4, <1>5 DEF CallGoesOn

(* A refresh or a logout with a cookie.                                     *)
LEMMA ServiceKeeps ==
    ASSUME Base, BrowserInv, NEW h \in Handler, NEW c \in Session,
           call[h].op \in {"refresh", "logout"}, call[h].cookie = c,
           NEW state \in {"served", "ok", "failed"}, CallGoesOn(h, state),
           NEW f \in Session \cup {None}, f = None \/ f = session[c].family, OnlyIn(f),
           OthersStay(h),
           IF state = "served"
           THEN /\ call[h].op = "refresh" /\ handler'[h].session = c
                /\ handler'[h].pc \in {"live", "checked", "inserted", "answer", "reused"}
           ELSE handler'[h].pc = "idle",
           UNCHANGED <<jar, user>>, astray \subseteq astray', kept' = kept,
           astray' \in SUBSET Session, loggedOut' \in SUBSET Session, alarmed' \in SUBSET Session,
           call'[h].op = call[h].op /\ call'[h].at = state /\ Steady(c)' => Stage(h, c)'
    PROVE  Calls' /\ Places' /\ WebTypeOK'
<1>1. /\ call' \in [Handler -> CallRow] /\ \A g \in Handler \ {h} : call'[g] = call[g]
      /\ CallServed(h) /\ Awaited(h)
  BY DEF CallGoesOn, BrowserInv, Calls
<1>2. \A s \in Session : Holds(h, s) <=> s = c
  BY DEF Holds
<1>3. c \in Known /\ \A s \in Known : session[s].family # None
  BY <1>1, <1>2, KnownFamily DEF CallServed, Known
<1>4. \A s \in Known : session[s].family = f =>
        f \in astray' \/ \E t \in Session : Holds(h, t) /\ Kin(s, t)
  BY <1>2, <1>3 DEF Kin
<1>5. StepOf(h, f)
  BY <1>1, <1>4, ServiceStep
<1>6. c \in Known' /\ session'[c].family = session[c].family
  BY <1>3 DEF OnlyIn
<1>7. WebTypeOK'
  BY <1>1 DEF BrowserInv, WebTypeOK, CallRow
<1>8. CASE call'[h] = NoCall /\ call[h].tab = None /\ state \in {"ok", "failed"}
  <2>1. \A s \in Session : ~Holds(h, s)'
    BY <1>8 DEF Holds, NoCall
  <2>2. CallServed(h)' /\ Awaited(h)'
    BY <1>8, <2>1 DEF CallServed, Awaited, NoCall
  <2>3. session[c].family \in astray'
    BY <1>1, <1>2, <1>8 DEF Awaited, Steady
  <2>4. Calls' /\ Places'
    BY <1>1, <1>2, <1>4, <1>5, <2>1, <2>2, <2>3, TokenKept
  <2> QED
    BY <1>7, <2>4
<1>9. CASE /\ call'[h].op = call[h].op /\ call'[h].at = state
           /\ call'[h].tab = call[h].tab /\ call'[h].cookie = call[h].cookie
  <2>1. \A s \in Session : Holds(h, s)' <=> s = c
    BY <1>9 DEF Holds
  <2>2. CallServed(h)'
    BY <1>6, <1>9, <2>1 DEF CallServed
  <2>3. Awaited(h)'
    BY <1>1, <1>2, <1>6, <1>9, <2>1 DEF Awaited, Steady
  <2>4. \A s \in Session : Holds(h, s)' /\ Steady(s)' => Stage(h, s)'
    BY <1>9, <2>1
  <2>5. Calls' /\ Places'
    BY <1>1, <1>2, <1>4, <1>5, <1>9, <2>1, <2>2, <2>3, <2>4, TokenKept
  <2> QED
    BY <1>7, <2>5
<1> QED
  BY <1>8, <1>9 DEF CallGoesOn

(* A call without a token before and after.                                 *)
LEMMA NoTokenKeeps ==
    ASSUME Base, BrowserInv, NEW h \in Handler, UNCHANGED session, OthersStay(h),
           call' \in [Handler -> CallRow], \A g \in Handler \ {h} : call'[g] = call[g],
           UNCHANGED <<jar, user, browserHistory>>, CallServed(h)',
           \A s \in Session : ~Holds(h, s)',
           \A s \in Session : Holds(h, s) => call[h].op = "login"
    PROVE  BrowserInv'
<1>1. UNCHANGED <<astray, kept, loggedOut, alarmed>>
  BY DEF browserHistory
<1>2. \A s \in Known : session[s].family # None
  BY KnownFamily DEF Known
<1>3. StepOf(h, None)
  BY <1>1, <1>2, NoRowTouched, ServiceStep
<1>4. Calls' /\ Places'
  BY <1>3, TokenDropped
<1>5. Lineage' /\ Remembered' /\ LogoutHolds' /\ NoFalseAlarm'
  BY <1>1, RowsStay
<1>6. WebTypeOK'
  BY <1>1 DEF BrowserInv, WebTypeOK, CallRow
<1> QED
  BY <1>4, <1>5, <1>6 DEF BrowserInv

LEMMA BeginKeeps ==
    ASSUME Base, BrowserInv, NEW h \in Handler, Begin(h)
    PROVE  BrowserInv'
<1>1. CallServed(h) /\ call \in [Handler -> CallRow] /\ call[h].cookie \in Session \cup {None}
  BY DEF BrowserInv, Calls, WebTypeOK, CallRow
<1>2. CASE /\ Is(h, "refresh", "sent") /\ call[h].cookie # None
           /\ LoadSession(h, call[h].cookie) /\ Becomes(h, "served")
           /\ UNCHANGED <<jar, user, browserHistory>>
  <2>1. PICK c \in Session : c = call[h].cookie
    BY <1>1, <1>2
  <2>2. /\ call[h].op = "refresh" /\ call[h].at = "sent" /\ CallGoesOn(h, "served")
        /\ UNCHANGED <<astray, kept, loggedOut, alarmed>>
    BY <1>2, BecomesDoes DEF Is, browserHistory
  <2>3. /\ Turns(h, IF c \in Live THEN "live" ELSE "reused", c, None, 0, FALSE)
        /\ session' = session
    BY <1>2, <2>1, LoadSessionDoes
  <2>4. /\ handler'[h].pc = (IF c \in Live THEN "live" ELSE "reused") /\ handler'[h].session = c
        /\ OthersStay(h)
    BY <2>3 DEF Turns, Becoming
  <2>5. Holds(h, c) /\ c \in Known
    BY <1>1, <2>1, <2>2 DEF Holds, CallServed
  <2>6. ASSUME call'[h].op = call[h].op, call'[h].at = "served", Steady(c)' PROVE Stage(h, c)'
    <3>1. Rests(c)
      BY <2>2, <2>3, <2>5, <2>6 DEF Steady, BrowserInv, Places, Stages, Stage
    <3>2. Rests(c)' /\ (c \in Live => c \in Live') /\ (c \notin Live => session'[c].family \in kept')
      BY <2>2, <2>3, <2>5, <3>1, StillSo DEF Rests, Live
    <3> QED
      BY <2>2, <2>4, <2>6, <3>2 DEF Stage
  <2>7. /\ astray' \in SUBSET Session /\ loggedOut' \in SUBSET Session
        /\ alarmed' \in SUBSET Session
    BY <2>2 DEF BrowserInv, WebTypeOK
  <2>8. Calls' /\ Places' /\ WebTypeOK'
    BY <1>2, <2>1, <2>2, <2>3, <2>4, <2>6, <2>7, NoRowTouched, ServiceKeeps
  <2>9. Lineage' /\ Remembered' /\ LogoutHolds' /\ NoFalseAlarm'
    BY <1>2, <2>2, <2>3, RowsStay
  <2> QED
    BY <2>8, <2>9 DEF BrowserInv
<1>3. CASE /\ Is(h, "login", "sent") /\ LoadLogin(h) /\ Becomes(h, "served")
           /\ UNCHANGED <<jar, user, browserHistory>>
  <2>1. call[h].op = "login" /\ call[h].at = "sent" /\ CallGoesOn(h, "served")
    BY <1>3, BecomesDoes DEF Is
  <2>2. Turns(h, "login", None, None, tokenVersion, FALSE) /\ session' = session
    BY <1>3, LoadLoginDoes
  <2>3. handler'[h].pc = "login" /\ handler'[h].next = None /\ OthersStay(h)
    BY <2>2 DEF Turns, Becoming
  <2>4. /\ call' \in [Handler -> CallRow] /\ \A g \in Handler \ {h} : call'[g] = call[g]
        /\ call'[h].op = "login" /\ call'[h].at = "served" /\ call'[h].cookie = call[h].cookie
    BY <2>1 DEF CallGoesOn
  <2>5. \A s \in Session : ~Holds(h, s)' /\ ~Holds(h, s)
    BY <1>1, <2>1, <2>3, <2>4 DEF Holds, CallServed
  <2>6. CallServed(h)'
    BY <1>1, <2>1, <2>3, <2>4, <2>5 DEF CallServed
  <2> QED
    BY <1>3, <2>2, <2>3, <2>4, <2>5, <2>6, NoTokenKeeps
<1> QED
  BY <1>2, <1>3 DEF Begin

LEMMA RejectKeeps ==
    ASSUME Base, BrowserInv, NEW h \in Handler, Reject(h)
    PROVE  BrowserInv'
<1>1. /\ call[h].op \in {"refresh", "logout"} /\ call[h].at = "sent"
      /\ Becomes(h, "failed") /\ UNCHANGED <<session, handler, jar, user, browserHistory>>
  BY DEF Reject, Is, vars
<1>2. /\ CallServed(h) /\ handler[h].pc = "idle" /\ call[h].cookie \in Session \cup {None}
      /\ CallGoesOn(h, "failed") /\ OthersStay(h)
      /\ UNCHANGED <<astray, kept, loggedOut, alarmed>>
  BY <1>1, BecomesDoes DEF BrowserInv, Calls, CallServed, WebTypeOK, OthersStay, browserHistory
<1>3. CASE call[h].cookie = None
  <2>1. /\ call' \in [Handler -> CallRow] /\ \A g \in Handler \ {h} : call'[g] = call[g]
        /\ call'[h].at # "served" /\ call'[h].cookie = None
        /\ call'[h].op \in {"none", "refresh", "logout"} /\ call'[h].at \in {"idle", "failed"}
    BY <1>1, <1>2, <1>3 DEF CallGoesOn, NoCall
  <2>2. \A s \in Session : ~Holds(h, s)' /\ ~Holds(h, s)
    BY <1>1, <1>3, <2>1 DEF Holds
  <2>3. CallServed(h)'
    BY <1>1, <1>2, <2>1, <2>2 DEF CallServed
  <2> QED
    BY <1>1, <1>2, <2>1, <2>2, <2>3, NoTokenKeeps
<1>4. CASE call[h].cookie # None
  <2>1. PICK c \in Session : c = call[h].cookie
    BY <1>2, <1>4
  <2>2. Holds(h, c) /\ c \in Known
    BY <1>1, <1>2, <2>1 DEF Holds, CallServed
  <2>3. ASSUME call'[h].op = call[h].op, call'[h].at = "failed", Steady(c)' PROVE Stage(h, c)'
    <3>1. Rests(c)
      BY <1>1, <1>2, <2>2, <2>3 DEF Steady, BrowserInv, Places, Stages, Stage
    <3>2. Rests(c)'
      BY <1>1, <1>2, <2>2, <3>1, StillSo
    <3> QED
      BY <1>1, <2>3, <3>2 DEF Stage
  <2>4. /\ astray' \in SUBSET Session /\ loggedOut' \in SUBSET Session
        /\ alarmed' \in SUBSET Session
    BY <1>2 DEF BrowserInv, WebTypeOK
  <2>5. Calls' /\ Places' /\ WebTypeOK'
    BY <1>1, <1>2, <2>1, <2>3, <2>4, NoRowTouched, ServiceKeeps
  <2>6. Lineage' /\ Remembered' /\ LogoutHolds' /\ NoFalseAlarm'
    BY <1>1, <1>2, RowsStay
  <2> QED
    BY <2>5, <2>6 DEF BrowserInv
<1> QED
  BY <1>3, <1>4

(* The statements of a request that is served.                              *)
LEMMA CreateKeeps ==
    ASSUME Base, BrowserInv, NEW h \in Handler, NEW n \in Session, call[h].at = "served",
           CreateSession(h, n), UNCHANGED browserVars
    PROVE  BrowserInv'
<1>1. /\ Turns(h, "answer", handler[h].session, n, handler[h].version, handler[h].crossed)
      /\ handler[h].pc = "login" /\ Spawns(n, n, None)
  BY CreateSessionDoes
<1>2. /\ handler'[h].pc = "answer" /\ handler'[h].next = n /\ OthersStay(h)
  BY <1>1 DEF Turns, Becoming
<1>3. /\ call[h].op = "login" /\ call[h].cookie = None /\ CallServed(h)
      /\ \A s \in Session : ~Holds(h, s)
  BY <1>1 DEF BrowserInv, Calls, CallServed, Holds
<1>4. UNCHANGED <<jar, user, call, loggedOut, astray, kept, alarmed>>
  BY DEF browserVars, browserHistory
<1>5. OnlyIn(n) /\ Known' = Known \cup {n} /\ Live' = Live \cup {n} /\ n \notin Known
  BY <1>1, SpawnsIn
<1>6. \A s \in Known : session[s].family # n /\ session'[s].family = session[s].family
  BY <1>5, KnownFamily DEF Known, OnlyIn
<1>7. session'[n].family = n /\ session'[n].parent = None
  BY <1>1 DEF Spawns
<1>8. StepOf(h, n)
  BY <1>2, <1>4, <1>5, <1>6, ServiceStep
<1>9. \A s \in Session : Holds(h, s)' <=> s = n
  BY <1>2, <1>3, <1>4 DEF Holds
<1>10. CallServed(h)' /\ Awaited(h)'
  BY <1>2, <1>3, <1>4, <1>5, <1>9 DEF CallServed, Awaited
<1>11. Rests(n)' /\ n \in Live'
  <2>1. ASSUME NEW m \in Known' PROVE session'[m].parent # n
    <3>1. CASE m = n
      BY <1>7, <3>1
    <3>2. CASE m # n
      <4>1. m \in Known /\ session'[m].parent = session[m].parent
        BY <1>5, <3>2 DEF OnlyIn
      <4>2. n # None
        OBVIOUS
      <4> QED
        BY <1>5, <4>1, <4>2 DEF Base, References, RowsRefer
    <3> QED
      BY <3>1, <3>2
  <2>2. ASSUME NEW m \in Live', session'[m].family = n PROVE m = n
    <3>1. ASSUME m # n PROVE m \in Known
      BY <1>5, <3>1 DEF Live, Known
    <3> QED
      BY <1>6, <2>2, <3>1
  <2> QED
    BY <1>5, <1>7, <2>1, <2>2 DEF Rests, Childless, Sole, Kin
<1>12. Calls' /\ OneCall' /\ Stages'
  <2>1. \A s \in Session : Holds(h, s)' /\ Steady(s)' => Stage(h, s)'
    BY <1>3, <1>4, <1>9, <1>11 DEF Stage
  <2>2. ASSUME NEW g \in Handler \ {h}, NEW s \in Session, NEW t \in Session,
               Holds(g, s)', Holds(h, t)', Kin(s, t)'
        PROVE  FALSE
    <3>1. Holds(g, s) /\ s \in Known
      BY <1>8, <2>2, OthersCarry
    <3> QED
      BY <1>6, <1>7, <1>9, <2>2, <3>1 DEF Kin
  <2> QED
    BY <1>8, <1>10, <2>1, <2>2, CallsCarry
<1>13. JarAgrees' /\ JarRests'
  <2>1. \A s \in Session : jar = s => s \in Known /\ session'[s].family # n /\ session[s].family # n
    BY <1>6 DEF BrowserInv, Remembered
  <2>2. \A s, t \in Session : jar = s /\ Holds(h, t)' => ~Kin(s, t)'
    BY <1>7, <1>9, <2>1 DEF Kin
  <2>3. ASSUME NEW s \in Session, jar = s,
               \A g \in Handler, t \in Session : Holds(g, t)' => ~Kin(s, t)'
        PROVE  ~\E g \in Handler, t \in Session : Holds(g, t) /\ Kin(s, t)
    <3>1. SUFFICES ASSUME NEW g \in Handler, NEW t \in Session, Holds(g, t), Kin(s, t) PROVE FALSE
      OBVIOUS
    <3>2. g # h /\ t \in Known
      BY <1>3, <3>1 DEF BrowserInv, Calls, CallServed
    <3>3. Holds(g, t)' /\ Kin(s, t)'
      BY <1>2, <1>4, <1>6, <2>1, <2>3, <3>1, <3>2 DEF Holds, Kin, OthersStay
    <3> QED
      BY <2>3, <3>3
  <2> QED
    BY <1>4, <1>8, <2>1, <2>2, <2>3, JarCarries
<1>14. Lineage' /\ Remembered' /\ LogoutHolds' /\ NoFalseAlarm'
  <2>1. \A s \in Live' \ Live : session'[s].family \notin loggedOut
    BY <1>5, <1>7 DEF BrowserInv, Remembered
  <2> QED
    BY <1>4, <1>5, <2>1, RowsKept DEF BrowserInv, NoFalseAlarm
<1>15. WebTypeOK'
  BY <1>4 DEF BrowserInv, WebTypeOK
<1> QED
  BY <1>12, <1>13, <1>14, <1>15 DEF BrowserInv, Places

(* A refresh that is served.                                                *)
LEMMA Refreshing ==
    ASSUME BrowserInv, NEW h \in Handler, call[h].at = "served",
           handler[h].pc \in {"live", "checked", "inserted", "reused"}
    PROVE  /\ call[h].op = "refresh" /\ handler[h].session = call[h].cookie
           /\ handler[h].session \in Session /\ handler[h].session \in Known
           /\ Holds(h, handler[h].session)
<1>1. CallServed(h) /\ call[h].cookie \in Session \cup {None}
  BY DEF BrowserInv, Calls, WebTypeOK
<1>2. call[h].op = "refresh" /\ handler[h].session = call[h].cookie /\ call[h].cookie \in Session
  BY <1>1 DEF CallServed
<1> QED
  BY <1>1, <1>2 DEF CallServed, Holds

LEMMA CallStays ==
    ASSUME BrowserInv, NEW h \in Handler, call' = call
    PROVE  CallGoesOn(h, call[h].at)
BY DEF CallGoesOn, BrowserInv, WebTypeOK, CallRow

LEMMA CheckKeeps ==
    ASSUME Base, BrowserInv, NEW h \in Handler, call[h].at = "served", CheckUser(h),
           UNCHANGED browserVars
    PROVE  BrowserInv'
<1>1. /\ Turns(h, "checked", handler[h].session, handler[h].next, tokenVersion, handler[h].crossed)
      /\ handler[h].pc = "live" /\ session' = session
  BY CheckUserDoes
<1>2. /\ handler'[h].pc = "checked" /\ handler'[h].session = handler[h].session /\ OthersStay(h)
  BY <1>1 DEF Turns, Becoming
<1>3. UNCHANGED <<jar, user, call, loggedOut, astray, kept, alarmed>>
  BY DEF browserVars, browserHistory
<1>4. PICK c \in Session : c = handler[h].session
  BY <1>1, Refreshing
<1>5. call[h].op = "refresh" /\ call[h].cookie = c /\ c \in Known /\ Holds(h, c)
  BY <1>1, <1>4, Refreshing
<1>6. ASSUME Steady(c)' PROVE Stage(h, c)'
  <2>1. Rests(c) /\ c \in Live
    BY <1>1, <1>3, <1>5, <1>6 DEF Steady, BrowserInv, Places, Stages, Stage
  <2>2. Rests(c)' /\ c \in Live'
    BY <1>1, <1>3, <1>5, <2>1, StillSo DEF Live
  <2> QED
    BY <1>2, <1>3, <1>5, <2>2 DEF Stage
<1>7. /\ astray' \in SUBSET Session /\ loggedOut' \in SUBSET Session
      /\ alarmed' \in SUBSET Session
  BY <1>3 DEF BrowserInv, WebTypeOK
<1>8. CallGoesOn(h, "served")
  BY <1>3, CallStays
<1>9. Calls' /\ Places' /\ WebTypeOK'
  BY <1>1, <1>2, <1>3, <1>4, <1>5, <1>6, <1>7, <1>8, NoRowTouched, ServiceKeeps
<1>10. Lineage' /\ Remembered' /\ LogoutHolds' /\ NoFalseAlarm'
  BY <1>1, <1>3, RowsStay
<1> QED
  BY <1>9, <1>10 DEF BrowserInv

LEMMA InsertKeeps ==
    ASSUME Base, BrowserInv, NEW h \in Handler, NEW n \in Session, call[h].at = "served",
           InsertNext(h, n), UNCHANGED browserVars
    PROVE  BrowserInv'
<1>1. /\ Turns(h, "inserted", handler[h].session, n, handler[h].version, handler[h].crossed)
      /\ handler[h].pc = "checked"
      /\ Spawns(n, session[handler[h].session].family, handler[h].session)
  BY InsertNextDoes
<1>2. /\ handler'[h].pc = "inserted" /\ handler'[h].session = handler[h].session /\ OthersStay(h)
  BY <1>1 DEF Turns, Becoming
<1>3. UNCHANGED <<jar, user, call, loggedOut, astray, kept, alarmed>>
  BY DEF browserVars, browserHistory
<1>4. PICK c \in Session : c = handler[h].session
  BY <1>1, Refreshing
<1>5. call[h].op = "refresh" /\ call[h].cookie = c /\ c \in Known /\ Holds(h, c)
  BY <1>1, <1>4, Refreshing
<1>6. PICK f \in Session : f = session[c].family
  BY <1>5, KnownFamily
<1>7. OnlyIn(f) /\ Known' = Known \cup {n} /\ Live' = Live \cup {n} /\ n \notin Known
  BY <1>1, <1>4, <1>5, <1>6, SpawnsIn
<1>8. session'[n].family = f /\ session'[n].parent = c /\ n # c
  BY <1>1, <1>4, <1>5, <1>6, <1>7 DEF Spawns
<1>9. \A m \in Known : m \in Session /\ session'[m].parent = session[m].parent
                       /\ session'[m].family = session[m].family
  BY <1>7 DEF OnlyIn, Known
<1>10. Steady(c)' => Steady(c) /\ c \in Live /\ Rests(c)
  BY <1>1, <1>3, <1>5, <1>9 DEF Steady, BrowserInv, Places, Stages, Stage
<1>11. ASSUME Steady(c)' PROVE Stage(h, c)'
  <2>1. Childless(c) /\ Sole(c)
    BY <1>10, <1>11 DEF Rests
  <2>2. ASSUME NEW m \in Known', session'[m].parent = c PROVE m = n
    BY <1>7, <1>9, <2>1, <2>2 DEF Childless
  <2>3. ASSUME NEW m \in Known' PROVE session'[m].parent # n
    <3>1. n # None
      OBVIOUS
    <3>2. ASSUME m \in Known PROVE session'[m].parent # n
      BY <1>7, <1>9, <3>1, <3>2 DEF Base, References, RowsRefer
    <3> QED
      BY <1>7, <1>8, <3>2
  <2>4. ASSUME NEW t \in Live', session'[c].family = session'[t].family PROVE t \in {c, n}
    <3>1. ASSUME t # n PROVE t = c
      <4>1. t \in Live /\ t \in Known
        BY <1>7, <3>1 DEF Live, Known
      <4> QED
        BY <1>5, <1>9, <2>1, <2>4, <4>1 DEF Sole, Kin
    <3> QED
      BY <3>1
  <2>5. Passing(c)'
    BY <1>7, <2>2, <2>3, <2>4 DEF Passing, Childless, Kin
  <2> QED
    BY <1>2, <1>3, <1>5, <2>5 DEF Stage
<1>12. /\ astray' \in SUBSET Session /\ loggedOut' \in SUBSET Session
       /\ alarmed' \in SUBSET Session
  BY <1>3 DEF BrowserInv, WebTypeOK
<1>13. CallGoesOn(h, "served")
  BY <1>3, CallStays
<1>14. Calls' /\ Places' /\ WebTypeOK'
  BY <1>2, <1>3, <1>4, <1>5, <1>6, <1>7, <1>11, <1>12, <1>13, ServiceKeeps
<1>15. Lineage' /\ Remembered' /\ LogoutHolds' /\ NoFalseAlarm'
  <2>1. ASSUME NEW s \in Live' \ Live, session'[s].family \in loggedOut PROVE session'[s].family \in astray'
    <3>1. s = n
      BY <1>7, <2>1
    <3>2. ASSUME Steady(c)' PROVE FALSE
      BY <1>3, <1>6, <1>8, <1>10, <2>1, <3>1, <3>2 DEF BrowserInv, LogoutHolds, Steady
    <3> QED
      BY <1>5, <1>6, <1>8, <1>9, <3>1, <3>2 DEF Steady
  <2> QED
    BY <1>3, <1>6, <1>7, <2>1, RowsKept DEF BrowserInv, NoFalseAlarm
<1> QED
  BY <1>14, <1>15 DEF BrowserInv

LEMMA RevokeKeeps ==
    ASSUME Base, BrowserInv, NEW h \in Handler, call[h].at = "served", RevokeOld(h),
           UNCHANGED browserVars
    PROVE  BrowserInv'
<1>1. /\ Turns(h, "answer", handler[h].session, handler[h].next, handler[h].version, handler[h].crossed)
      /\ handler[h].pc = "inserted"
      /\ session'[handler[h].session].status = "revoked"
      /\ session'[handler[h].session].family = session[handler[h].session].family
      /\ session'[handler[h].session].parent = session[handler[h].session].parent
      /\ \A s \in Session \ {handler[h].session} : session'[s] = session[s]
  BY RevokeOldDoes
<1>2. /\ handler'[h].pc = "answer" /\ handler'[h].session = handler[h].session /\ OthersStay(h)
  BY <1>1 DEF Turns, Becoming
<1>3. UNCHANGED <<jar, user, call, loggedOut, astray, kept, alarmed>>
  BY DEF browserVars, browserHistory
<1>4. PICK c \in Session : c = handler[h].session
  BY <1>1, Refreshing
<1>5. call[h].op = "refresh" /\ call[h].cookie = c /\ c \in Known /\ Holds(h, c)
  BY <1>1, <1>4, Refreshing
<1>6. PICK f \in Session : f = session[c].family
  BY <1>5, KnownFamily
<1>7. /\ \A s \in Session : session'[s].family = session[s].family
                            /\ session'[s].parent = session[s].parent
      /\ Live' = Live \ {c} /\ Known' = Known
  BY <1>1, <1>4, <1>5 DEF Live, Known
<1>8. OnlyIn(f)
  <2>1. \A s \in Known : s \in Session
    BY DEF Known
  <2>2. \A s \in Known : session[s].family # f => session'[s].status = session[s].status
    BY <1>1, <1>4, <1>6, <2>1
  <2> QED
    BY <1>7, <2>1, <2>2 DEF OnlyIn
<1>9. ASSUME Steady(c)' PROVE Stage(h, c)'
  <2>1. Passing(c)
    BY <1>1, <1>3, <1>5, <1>7, <1>9 DEF Steady, BrowserInv, Places, Stages, Stage
  <2>2. ASSUME NEW n \in Known', session'[n].parent = c
        PROVE  n \in Live' /\ Childless(n)' /\ Sole(n)'
    <3>1. n \in Known /\ n \in Session /\ session[n].parent = c
      BY <1>7, <2>2 DEF Known
    <3>2. n \in Live /\ Childless(n) /\ \A t \in Live : Kin(c, t) => t \in {c, n}
      BY <2>1, <3>1 DEF Passing
    <3>3. n # c
      BY <1>5, <3>1, <3>2 DEF Childless
    <3>4. Kin(c, n)
      BY <3>1 DEF BrowserInv, Lineage, Kin
    <3>5. Childless(n)'
      BY <1>7, <3>2 DEF Childless, Known
    <3>6. ASSUME NEW t \in Live', Kin(n, t)' PROVE t = n
      <4>1. t \in Session
        BY DEF Live
      <4> QED
        BY <1>7, <3>1, <3>2, <3>4, <3>6, <4>1 DEF Kin
    <3> QED
      BY <1>7, <3>2, <3>3, <3>5, <3>6 DEF Sole
  <2>3. Passed(c)'
    BY <2>2 DEF Passed
  <2> QED
    BY <1>2, <1>3, <1>5, <2>3 DEF Stage
<1>10. /\ astray' \in SUBSET Session /\ loggedOut' \in SUBSET Session
       /\ alarmed' \in SUBSET Session
  BY <1>3 DEF BrowserInv, WebTypeOK
<1>11. CallGoesOn(h, "served")
  BY <1>3, CallStays
<1>12. Calls' /\ Places' /\ WebTypeOK'
  BY <1>2, <1>3, <1>4, <1>5, <1>6, <1>8, <1>9, <1>10, <1>11, ServiceKeeps
<1>13. Lineage' /\ Remembered' /\ LogoutHolds' /\ NoFalseAlarm'
  BY <1>3, <1>6, <1>7, <1>8, RowsKept DEF BrowserInv, NoFalseAlarm
<1> QED
  BY <1>12, <1>13 DEF BrowserInv

LEMMA ServeKeeps ==
    ASSUME Base, BrowserInv, NEW h \in Handler, Serve(h)
    PROVE  BrowserInv'
<1>1. call[h].at = "served" /\ UNCHANGED browserVars
  BY DEF Serve
<1>2. ASSUME NEW n \in Session, CreateSession(h, n) PROVE BrowserInv'
  BY <1>1, <1>2, CreateKeeps
<1>3. ASSUME NEW n \in Session, InsertNext(h, n) PROVE BrowserInv'
  BY <1>1, <1>3, InsertKeeps
<1> QED
  BY <1>1, <1>2, <1>3, CheckKeeps, RevokeKeeps DEF Serve

LEMMA ServeAnswerKeeps ==
    ASSUME Base, BrowserInv, NEW h \in Handler, ServeAnswer(h)
    PROVE  BrowserInv'
<1>1. /\ call[h].at = "served" /\ UNCHANGED <<jar, user, browserHistory>>
      /\ UNCHANGED <<astray, kept, loggedOut, alarmed>> /\ CallServed(h)
      /\ call \in [Handler -> CallRow] /\ handler[h].next \in Session \cup {None}
  BY DEF ServeAnswer, browserHistory, BrowserInv, Calls, WebTypeOK, CallRow, Base, TypeOK
<1>2. Turns(h, "idle", None, None, 0, FALSE) /\ handler[h].pc = "answer" /\ session' = session
  BY AnswerDoes DEF ServeAnswer
<1>3. handler'[h].pc = "idle" /\ OthersStay(h)
  BY <1>2 DEF Turns, Becoming
<1> DEFINE cookie == IF call[h].op = "login" THEN handler[h].next ELSE call[h].cookie
           next == [call[h] EXCEPT !.at = "ok",
                      !.cookie = IF call[h].op = "login" THEN handler[h].next
                                 ELSE call[h].cookie]
<1>4. call' = [call EXCEPT ![h] = Settled(next)]
  BY DEF ServeAnswer
<1>5. /\ next \in CallRow /\ next.op = call[h].op /\ next.at = "ok"
      /\ next.tab = call[h].tab /\ next.cookie = cookie
  <2>1. call[h] \in CallRow
    BY <1>1
  <2> QED
    BY <1>1, <2>1 DEF CallRow
<1> HIDE DEF next
<1>6. /\ Settled(next) \in CallRow
      /\ \/ Settled(next) = next
         \/ Settled(next) = NoCall /\ next.tab = None
  BY <1>5, CallChanges
<1>7. /\ call' \in [Handler -> CallRow] /\ call'[h] = Settled(next)
      /\ \A g \in Handler \ {h} : call'[g] = call[g]
  BY <1>1, <1>4, <1>6
<1>8. CASE call[h].op = "refresh"
  <2>1. PICK c \in Session : c = call[h].cookie
    BY <1>1, <1>8 DEF CallServed, CallRow
  <2>2. CallGoesOn(h, "ok")
    BY <1>5, <1>6, <1>7, <1>8 DEF CallGoesOn
  <2>3. Holds(h, c) /\ c \in Known
    BY <1>1, <1>8, <2>1 DEF Holds, CallServed
  <2>4. ASSUME call'[h].op = call[h].op, call'[h].at = "ok", Steady(c)' PROVE Stage(h, c)'
    <3>1. Passed(c)
      BY <1>1, <1>2, <1>8, <2>3, <2>4 DEF Steady, BrowserInv, Places, Stages, Stage
    <3>2. Passed(c)'
      BY <1>1, <1>2, <2>3, <3>1, StillSo
    <3> QED
      BY <1>8, <2>4, <3>2 DEF Stage
  <2>5. /\ astray' \in SUBSET Session /\ loggedOut' \in SUBSET Session
        /\ alarmed' \in SUBSET Session
    BY <1>1 DEF BrowserInv, WebTypeOK
  <2>6. Calls' /\ Places' /\ WebTypeOK'
    BY <1>1, <1>2, <1>3, <1>8, <2>1, <2>2, <2>4, <2>5, NoRowTouched, ServiceKeeps
  <2>7. Lineage' /\ Remembered' /\ LogoutHolds' /\ NoFalseAlarm'
    BY <1>1, <1>2, RowsStay
  <2> QED
    BY <2>6, <2>7 DEF BrowserInv
<1>9. CASE call[h].op = "login"
  <2>1. PICK n \in Session : n = handler[h].next
    BY <1>1, <1>2, <1>9 DEF CallServed
  <2>2. \A s \in Session : Holds(h, s) <=> s = n
    BY <1>1, <1>9, <2>1 DEF Holds
  <2>3. CASE Settled(next) = NoCall
    <3>1. \A s \in Session : ~Holds(h, s)'
      BY <1>7, <2>3 DEF Holds, NoCall
    <3>2. CallServed(h)'
      BY <1>3, <1>7, <2>3, <3>1 DEF CallServed, NoCall
    <3> QED
      BY <1>1, <1>2, <1>3, <1>7, <1>9, <3>1, <3>2, NoTokenKeeps
  <2>4. CASE Settled(next) = next
    <3>1. call'[h].op = "login" /\ call'[h].at = "ok" /\ call'[h].cookie = n
      BY <1>5, <1>7, <1>9, <2>1, <2>4
    <3>2. \A s \in Session : Holds(h, s)' <=> s = n
      BY <3>1 DEF Holds
    <3>3. Known' = Known /\ Live' = Live /\ \A s \in Known : session[s].family # None
      BY <1>2, KnownFamily DEF Known, Live
    <3>4. CallServed(h)' /\ Awaited(h)'
      BY <1>1, <1>3, <2>2, <3>1, <3>2, <3>3 DEF CallServed, Awaited
    <3>5. StepOf(h, None)
      BY <1>1, <1>2, <1>3, <1>7, <3>3, NoRowTouched, ServiceStep
    <3>6. ASSUME NEW s \in Session, Holds(h, s)', Steady(s)' PROVE Stage(h, s)'
      <4>1. Holds(h, s) /\ Steady(s) /\ s \in Known
        BY <1>1, <1>2, <2>2, <3>2, <3>6 DEF Steady, CallServed
      <4>2. Rests(s) /\ s \in Live
        BY <1>9, <4>1 DEF BrowserInv, Places, Stages, Stage
      <4>3. Rests(s)' /\ s \in Live'
        BY <1>1, <1>2, <3>3, <4>1, <4>2, StillSo
      <4> QED
        BY <3>1, <4>3 DEF Stage
    <3>7. Calls' /\ Places'
      BY <1>1, <1>7, <1>9, <2>2, <3>1, <3>2, <3>3, <3>4, <3>5, <3>6, TokenKept
    <3>8. Lineage' /\ Remembered' /\ LogoutHolds' /\ NoFalseAlarm'
      BY <1>1, <1>2, RowsStay
    <3>9. WebTypeOK'
      BY <1>1, <1>7 DEF BrowserInv, WebTypeOK, CallRow
    <3> QED
      BY <3>7, <3>8, <3>9 DEF BrowserInv
  <2> QED
    BY <1>6, <2>3, <2>4
<1> QED
  BY <1>1, <1>8, <1>9 DEF CallServed

(* A spent token ends its family, which had an accident or had been logged  *)
(* out with the cookie left.                                                *)
LEMMA ServeReuseKeeps ==
    ASSUME Base, BrowserInv, NEW h \in Handler, ServeReuse(h)
    PROVE  BrowserInv'
<1>1. /\ call[h].at = "served" /\ UNCHANGED <<jar, user, loggedOut, astray, kept>>
      /\ alarmed' = alarmed \cup Family(call[h].cookie) /\ Becomes(h, "failed")
      /\ RevokeFamily(h)
  BY DEF ServeReuse
<1>2. /\ Turns(h, "idle", None, None, 0, FALSE) /\ handler[h].pc = "reused"
      /\ Revokes(Of(session[handler[h].session].family))
  BY <1>1, RevokeFamilyDoes
<1>3. handler'[h].pc = "idle" /\ OthersStay(h)
  BY <1>2 DEF Turns, Becoming
<1>4. PICK c \in Session : c = handler[h].session
  BY <1>1, <1>2, Refreshing
<1>5. call[h].op = "refresh" /\ call[h].cookie = c /\ c \in Known /\ Holds(h, c)
  BY <1>1, <1>2, <1>4, Refreshing
<1>6. PICK f \in Session : f = session[c].family
  BY <1>5, KnownFamily
<1>7. /\ OnlyIn(f) /\ Known' = Known /\ Live' = Live \ Of(f)
      /\ \A s \in Session : session'[s].family = session[s].family
                            /\ session'[s].parent = session[s].parent
  <2>1. Revokes(Of(f)) /\ \A s \in Known : s \in Of(f) => session[s].family = f
    BY <1>2, <1>4, <1>6 DEF Of
  <2> QED
    BY <2>1, RevokesIn
<1>8. Steady(c) => Rests(c) /\ f \in kept
  BY <1>1, <1>2, <1>5, <1>6 DEF BrowserInv, Places, Stages, Stage
<1>9. ASSUME call'[h].op = call[h].op, call'[h].at = "failed", Steady(c)' PROVE Stage(h, c)'
  <2>1. Rests(c) /\ f \in kept
    BY <1>1, <1>7, <1>8, <1>9 DEF Steady
  <2>2. Childless(c)'
    BY <1>7, <2>1 DEF Rests, Childless, Known
  <2>3. ASSUME NEW t \in Live', Kin(c, t)' PROVE t = c
    BY <1>6, <1>7, <2>3 DEF Kin, Of, Live
  <2>4. Rests(c)'
    BY <1>1, <1>6, <1>7, <2>1, <2>2, <2>3 DEF Rests, Sole
  <2> QED
    BY <1>5, <1>9, <2>4 DEF Stage
<1>10. Family(call[h].cookie) = {f}
  BY <1>5, <1>6 DEF Family
<1>11. /\ astray' \in SUBSET Session /\ loggedOut' \in SUBSET Session
       /\ alarmed' \in SUBSET Session
  BY <1>1, <1>10 DEF BrowserInv, WebTypeOK
<1>12. CallGoesOn(h, "failed")
  BY <1>1, <1>5, BecomesDoes
<1>13. Calls' /\ Places' /\ WebTypeOK'
  BY <1>1, <1>3, <1>5, <1>6, <1>7, <1>9, <1>11, <1>12, ServiceKeeps
<1>14. Lineage' /\ Remembered' /\ LogoutHolds' /\ NoFalseAlarm'
  <2>1. f \in astray \cup kept
    BY <1>6, <1>8 DEF Steady
  <2> QED
    BY <1>1, <1>6, <1>7, <1>10, <2>1, RowsKept
<1> QED
  BY <1>13, <1>14 DEF BrowserInv

LEMMA ServeAbandonKeeps ==
    ASSUME Base, BrowserInv, NEW h \in Handler, ServeAbandon(h)
    PROVE  BrowserInv'
<1>1. /\ call[h].at = "served" /\ UNCHANGED <<jar, user, loggedOut, kept, alarmed>>
      /\ astray' = (IF handler[h].pc \in {"inserted", "answer"}
                    THEN astray \cup Family(call[h].cookie) ELSE astray)
      /\ Becomes(h, "failed") /\ Abandon(h) /\ CallServed(h)
  BY DEF ServeAbandon, BrowserInv, Calls
<1>2. Turns(h, "idle", None, None, 0, FALSE) /\ session' = session
  BY <1>1, AbandonDoes
<1>3. handler'[h].pc = "idle" /\ OthersStay(h)
  BY <1>2 DEF Turns, Becoming
<1>4. call[h].op \in {"refresh", "login"}
  BY <1>1 DEF CallServed
<1>5. CallGoesOn(h, "failed")
  BY <1>1, <1>4, BecomesDoes
<1>6. CASE call[h].op = "refresh"
  <2>1. call[h].cookie # None /\ call[h].cookie \in Session \cup {None}
    BY <1>1, <1>6 DEF CallServed, BrowserInv, WebTypeOK
  <2>2. PICK c \in Session : c = call[h].cookie
    BY <2>1
  <2>3. Holds(h, c) /\ c \in Known
    BY <1>1, <1>6, <2>2 DEF Holds, CallServed
  <2>4. PICK f \in Session : f = session[c].family
    BY <2>3, KnownFamily
  <2>5. Family(call[h].cookie) = {f}
    BY <2>1, <2>2, <2>4 DEF Family
  <2>6. ASSUME call'[h].op = call[h].op, call'[h].at = "failed", Steady(c)' PROVE Stage(h, c)'
    <3>1. Steady(c) /\ handler[h].pc \in {"live", "checked", "reused"}
      BY <1>1, <1>2, <1>6, <2>4, <2>5, <2>6 DEF Steady, CallServed
    <3>2. Rests(c)
      BY <1>1, <1>6, <2>3, <3>1 DEF BrowserInv, Places, Stages, Stage
    <3>3. Rests(c)'
      BY <1>1, <1>2, <2>3, <3>2, StillSo
    <3> QED
      BY <1>6, <2>6, <3>3 DEF Stage
  <2>7. /\ astray' \in SUBSET Session /\ loggedOut' \in SUBSET Session
        /\ alarmed' \in SUBSET Session /\ astray \subseteq astray'
    BY <1>1, <2>5 DEF BrowserInv, WebTypeOK
  <2>8. Calls' /\ Places' /\ WebTypeOK'
    BY <1>1, <1>2, <1>3, <1>5, <1>6, <2>2, <2>6, <2>7, NoRowTouched, ServiceKeeps
  <2>9. Lineage' /\ Remembered' /\ LogoutHolds' /\ NoFalseAlarm'
    BY <1>1, <1>2, <2>7, RowsStay
  <2> QED
    BY <2>8, <2>9 DEF BrowserInv
<1>7. CASE call[h].op = "login"
  <2>1. call[h].cookie = None
    BY <1>1, <1>7 DEF CallServed
  <2>2. UNCHANGED browserHistory
    BY <1>1, <2>1 DEF browserHistory, Family
  <2>3. /\ call' \in [Handler -> CallRow] /\ \A g \in Handler \ {h} : call'[g] = call[g]
        /\ call'[h].op \in {"none", "login"} /\ call'[h].at \in {"idle", "failed"}
        /\ call'[h].cookie = None
    BY <1>5, <1>7, <2>1 DEF CallGoesOn, NoCall
  <2>4. \A s \in Session : ~Holds(h, s)'
    BY <2>3 DEF Holds
  <2>5. CallServed(h)'
    BY <1>3, <2>3, <2>4 DEF CallServed
  <2> QED
    BY <1>1, <1>2, <1>3, <1>7, <2>2, <2>3, <2>4, <2>5, NoTokenKeeps
<1> QED
  BY <1>4, <1>6, <1>7

(* The one session of the cookie is the family's last.                      *)
LEMMA ServeLogoutKeeps ==
    ASSUME Base, BrowserInv, NEW h \in Handler, ServeLogout(h)
    PROVE  BrowserInv'
<1>1. /\ call[h].op = "logout" /\ call[h].at = "sent"
      /\ UNCHANGED <<jar, user, astray, kept, alarmed>>
      /\ loggedOut' = loggedOut \cup Family(call[h].cookie) /\ Becomes(h, "ok")
      /\ IF call[h].cookie = None THEN UNCHANGED vars ELSE Logout(call[h].cookie)
  BY DEF ServeLogout, Is
<1>2. /\ CallServed(h) /\ handler[h].pc = "idle" /\ call[h].cookie \in Session \cup {None}
      /\ CallGoesOn(h, "ok")
  BY <1>1, BecomesDoes DEF BrowserInv, Calls, CallServed, WebTypeOK
<1>3. CASE call[h].cookie = None
  <2>1. UNCHANGED <<session, handler, browserHistory>> /\ OthersStay(h)
    BY <1>1, <1>3 DEF vars, browserHistory, Family, OthersStay
  <2>2. /\ call' \in [Handler -> CallRow] /\ \A g \in Handler \ {h} : call'[g] = call[g]
        /\ call'[h].op \in {"none", "logout"} /\ call'[h].at \in {"idle", "ok"}
        /\ call'[h].cookie = None
    BY <1>1, <1>2, <1>3 DEF CallGoesOn, NoCall
  <2>3. \A s \in Session : ~Holds(h, s)' /\ ~Holds(h, s)
    BY <1>1, <1>3, <2>2 DEF Holds
  <2>4. CallServed(h)'
    BY <1>2, <2>1, <2>2, <2>3 DEF CallServed
  <2> QED
    BY <1>1, <2>1, <2>2, <2>3, <2>4, NoTokenKeeps
<1>4. CASE call[h].cookie # None
  <2>1. PICK c \in Session : c = call[h].cookie
    BY <1>2, <1>4
  <2>2. Holds(h, c) /\ c \in Known
    BY <1>1, <1>2, <2>1 DEF Holds, CallServed
  <2>3. PICK f \in Session : f = session[c].family
    BY <2>2, KnownFamily
  <2>4. Revokes({c}) /\ handler' = handler
    BY <1>1, <1>4, <2>1, LogoutDoes
  <2>5. /\ OnlyIn(f) /\ Known' = Known /\ Live' = Live \ {c}
        /\ \A s \in Session : session'[s].family = session[s].family
                              /\ session'[s].parent = session[s].parent
    BY <2>3, <2>4, RevokesIn
  <2>6. OthersStay(h) /\ handler'[h].pc = "idle"
    BY <1>2, <2>4 DEF OthersStay
  <2>7. Family(call[h].cookie) = {f}
    BY <1>4, <2>1, <2>3 DEF Family
  <2>8. ASSUME Steady(c) PROVE Over(c)'
    <3>1. Childless(c) /\ Sole(c)
      BY <1>1, <2>2, <2>8 DEF BrowserInv, Places, Stages, Stage, Rests
    <3>2. Childless(c)'
      BY <2>5, <3>1 DEF Childless, Known
    <3>3. ASSUME NEW t \in Live' PROVE ~Kin(c, t)'
      <4>1. t \in Live /\ t \in Session /\ t # c
        BY <2>5 DEF Live
      <4> QED
        BY <2>5, <3>1, <4>1 DEF Sole, Kin
    <3> QED
      BY <3>2, <3>3 DEF Over
  <2>9. ASSUME call'[h].op = call[h].op, call'[h].at = "ok", Steady(c)' PROVE Stage(h, c)'
    <3>1. Over(c)'
      BY <1>1, <2>5, <2>8, <2>9 DEF Steady
    <3> QED
      BY <1>1, <2>9, <3>1 DEF Stage
  <2>10. /\ astray' \in SUBSET Session /\ loggedOut' \in SUBSET Session
         /\ alarmed' \in SUBSET Session
    BY <1>1, <2>7 DEF BrowserInv, WebTypeOK
  <2>11. Calls' /\ Places' /\ WebTypeOK'
    BY <1>1, <1>2, <2>1, <2>3, <2>5, <2>6, <2>9, <2>10, ServiceKeeps
  <2>12. Lineage'
    BY <2>5 DEF BrowserInv, Lineage, Known, Base, References, RowsRefer
  <2>13. f \in Known
    BY <2>2, <2>3, KnownFamily
  <2>14. Remembered'
    BY <1>1, <2>5, <2>7, <2>13 DEF BrowserInv, Remembered
  <2>15. LogoutHolds'
    <3>1. ASSUME NEW s \in Live', session'[s].family \in loggedOut', session'[s].family \notin astray'
          PROVE  FALSE
      <4>1. s \in Live /\ s \in Session /\ session'[s].family = session[s].family
        BY <2>5 DEF Live
      <4>2. CASE session[s].family = f
        <5>1. Steady(c) /\ Kin(c, s)'
          BY <1>1, <2>3, <2>5, <3>1, <4>1, <4>2 DEF Steady, Kin
        <5> QED
          BY <2>8, <5>1 DEF Over
      <4>3. CASE session[s].family # f
        BY <1>1, <2>7, <3>1, <4>1, <4>3 DEF BrowserInv, LogoutHolds
      <4> QED
        BY <4>2, <4>3
    <3> QED
      BY <3>1 DEF LogoutHolds
  <2>16. NoFalseAlarm'
    BY <1>1 DEF BrowserInv, NoFalseAlarm
  <2> QED
    BY <2>11, <2>12, <2>14, <2>15, <2>16 DEF BrowserInv
<1> QED
  BY <1>3, <1>4

-----------------------------------------------------------------------------
LEMMA BrowserBegins == ASSUME WebInit PROVE BrowserInv
<1>1. /\ jar = None /\ user = {} /\ loggedOut = {} /\ astray = {} /\ kept = {} /\ alarmed = {}
      /\ \A h \in Handler : call[h] = NoCall /\ handler[h].pc = "idle"
      /\ call \in [Handler -> CallRow]
  BY DEF WebInit, Init, Idle, CallRow, NoCall
<1>2. Known = {} /\ Live = {}
  BY DEF WebInit, Init, Known, Live
<1>3. \A h \in Handler, s \in Session : ~Holds(h, s)
  BY <1>1 DEF Holds, NoCall
<1>4. Calls
  BY <1>1, <1>3 DEF Calls, CallServed, Awaited, NoCall
<1>5. Places
  BY <1>1, <1>3 DEF Places, OneCall, Stages, JarAgrees, JarRests
<1>6. WebTypeOK
  BY <1>1 DEF WebTypeOK, CallRow
<1> QED
  BY <1>1, <1>2, <1>4, <1>5, <1>6 DEF BrowserInv, Lineage, Remembered, LogoutHolds, NoFalseAlarm

LEMMA BrowserStutters == ASSUME BrowserInv, UNCHANGED webVars PROVE BrowserInv'
<1>1. UNCHANGED <<session, handler, jar, user, call, loggedOut, astray, kept, alarmed>>
  BY DEF webVars, vars, browserVars, browserHistory
<1>2. WebTypeOK' /\ Lineage' /\ Remembered' /\ LogoutHolds' /\ NoFalseAlarm'
  BY <1>1 DEF BrowserInv, WebTypeOK, Lineage, Remembered, LogoutHolds, NoFalseAlarm, Known, Live
<1>3. Calls'
  BY <1>1 DEF BrowserInv, Calls, CallServed, Awaited, Holds, Steady, Known
<1>4. /\ \A h \in Handler, s \in Session : Holds(h, s)' <=> Holds(h, s)
      /\ \A s \in Session : Steady(s)' <=> Steady(s)
      /\ \A s, t \in Session : Kin(s, t)' <=> Kin(s, t)
      /\ Known' = Known /\ Live' = Live
  BY <1>1 DEF Holds, Steady, Kin, Known, Live
<1>5. /\ \A s \in Session : Childless(s)' <=> Childless(s)
      /\ \A s \in Session : Sole(s)' <=> Sole(s)
  BY <1>1 DEF Childless, Sole, Kin, Known, Live
<1>6. /\ \A s \in Session : Rests(s) => Rests(s)'
      /\ \A s \in Session : Over(s) => Over(s)'
  BY <1>1, <1>4, <1>5 DEF Rests, Over, Kin, Live
<1>7. /\ \A s \in Session : Passed(s) => Passed(s)'
      /\ \A s \in Session : Passing(s) => Passing(s)'
  BY <1>1, <1>4, <1>5 DEF Passed, Passing, Kin, Known, Live
<1>8. \A h \in Handler, s \in Session : Stage(h, s) => Stage(h, s)'
  BY <1>1, <1>4, <1>6, <1>7 DEF Stage
<1>9. Places'
  BY <1>1, <1>4, <1>6, <1>8 DEF BrowserInv, Places, OneCall, Stages, JarAgrees, JarRests
<1> QED
  BY <1>2, <1>3, <1>9 DEF BrowserInv

LEMMA BrowserKeeps == ASSUME IInv, BrowserInv, [WebNext]_webVars PROVE BrowserInv'
<1>0. Base
  BY DEF IInv
<1>1. CASE UNCHANGED webVars
  BY <1>1, BrowserStutters
<1>2. CASE WebNext
  <2>1. PICK h \in Handler :
          \/ PagesNext(h)
          \/ Begin(h) \/ Reject(h) \/ Serve(h) \/ ServeAnswer(h)
          \/ ServeReuse(h) \/ ServeAbandon(h) \/ ServeLogout(h)
    BY <1>2 DEF WebNext
  <2>2. CASE PagesNext(h)
    <3>1. ASSUME NEW t \in Tab, Load(t, h) \/ PressLogin(t, h) \/ PressLogout(t, h)
          PROVE  BrowserInv'
      BY <1>0, <3>1, LoadKeeps, PressLoginKeeps, PressLogoutKeeps
    <3>2. ASSUME NEW n \in Session, RefreshAnswered(h, n) \/ LoginAnswered(h, n)
          PROVE  BrowserInv'
      BY <1>0, <3>2, RefreshAnsweredKeeps, LoginAnsweredKeeps
    <3>3. ASSUME \/ MeAnswered(h) \/ RefreshRefused(h) \/ LoginRefused(h)
                 \/ LogoutAnswered(h) \/ Lose(h)
          PROVE  BrowserInv'
      BY <1>0, <3>3, MeAnsweredKeeps, RefreshRefusedKeeps, LoginRefusedKeeps, LogoutAnsweredKeeps,
         LoseKeeps
    <3> QED
      BY <2>2, <3>1, <3>2, <3>3 DEF PagesNext
  <2>3. CASE \/ Begin(h) \/ Reject(h) \/ Serve(h) \/ ServeAnswer(h)
             \/ ServeReuse(h) \/ ServeAbandon(h) \/ ServeLogout(h)
    BY <1>0, <2>3, BeginKeeps, RejectKeeps, ServeKeeps, ServeAnswerKeeps, ServeReuseKeeps,
       ServeAbandonKeeps, ServeLogoutKeeps
  <2> QED
    BY <2>1, <2>2, <2>3
<1> QED
  BY <1>1, <1>2

(* The browser's invariant holds of its runs, with that of the service.     *)
THEOREM BrowserInvariance == WebSpec => []BrowserInv
<1>1. WebInit => IInv /\ BrowserInv
  BY Initially, BrowserBegins DEF WebInit
<1>2. IInv /\ BrowserInv /\ [WebNext]_webVars => (IInv /\ BrowserInv)'
  <2>1. IInv /\ [WebNext]_webVars => IInv'
    BY WebSteps, Inductive DEF webVars
  <2> QED
    BY <2>1, BrowserKeeps
<1> QED
  BY <1>1, <1>2, PTL DEF WebSpec

(* A browser nobody has stolen from raises no alarm of theft, unless one of *)
(* its families met with an accident or its cookie outlived a logout.       *)
THEOREM AlarmsAreReal == WebSpec => []NoFalseAlarm
BY BrowserInvariance, PTL DEF BrowserInv

(* A logout of one session ends its family, barring accidents.              *)
THEOREM LogoutIsEnough == WebSpec => []LogoutHolds
BY BrowserInvariance, PTL DEF BrowserInv

LEMMA CookieIsLive == ASSUME BrowserInv PROVE CookieInStep
<1>1. SUFFICES ASSUME \A h \in Handler : call[h].op \in {"none", "me"}, jar # None,
                      session[jar].family \notin astray \cup kept
               PROVE  jar \in Live
  BY DEF CookieInStep
<1>2. PICK s \in Session : s = jar
  BY <1>1 DEF BrowserInv, WebTypeOK
<1>3. \A h \in Handler, t \in Session : ~Holds(h, t)
  BY <1>1 DEF BrowserInv, Calls, CallServed, Holds
<1>4. Rests(s)
  BY <1>1, <1>2, <1>3 DEF BrowserInv, Places, JarRests, Steady
<1> QED
  BY <1>1, <1>2, <1>4 DEF Rests

(* With no call under way, the cookie is the token of a live session or     *)
(* there is none, barring accidents.                                        *)
THEOREM CookieIsCurrent == WebSpec => []CookieInStep
BY BrowserInvariance, CookieIsLive, PTL

=============================================================================
