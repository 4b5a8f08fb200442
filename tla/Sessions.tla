------------------------------ MODULE Sessions ------------------------------
(***************************************************************************)
(* The durable logical sessions of one account: SessionService,            *)
(* AuthService (login, refresh, logout, changePassword, changeEmail) and   *)
(* RefreshCleanupService over the refresh_sessions table.                  *)
(*                                                                         *)
(* Every PostgreSQL statement or transaction is one step; whatever else is *)
(* separated from it by an await in the code is separated from it here, so *)
(* concurrent requests interleave between their reads and their writes.    *)
(* A refresh credential and its SHA-256 tokenHash are the same value; a    *)
(* password is the number of the credential change that set it.            *)
(***************************************************************************)
EXTENDS Naturals

CONSTANTS
    Session,     \* row ids of refresh_sessions (UUIDs, never reused)
    Cred,        \* refresh credentials (64 random bytes, never reused)
    Req,         \* concurrent HTTP requests of this account
    NoSession, NoCred

ASSUME SessionsAssumption ==
    /\ NoSession \notin Session
    /\ NoCred \notin Cred

VARIABLES
    row,         \* refresh_sessions, by id
    user,        \* the User row: current password, passwordChangeRequired, email
    req,         \* what each request in flight holds in its local variables
    minted,      \* credentials generated so far
    delivered,   \* credentials a client has received in a cookie
    access,      \* <<sid, sv>> of the access tokens clients have received
    \* history, read by properties only
    epoch,       \* number of committed credential changes
    born,        \* epoch in which a session was created
    keeper,      \* session the latest credential change was made from
    rotations    \* how often each credential was exchanged by a refresh

dbVars == <<row, user>>
clientVars == <<minted, delivered, access>>
histVars == <<epoch, born, keeper, rotations>>
vars == <<row, user, req, minted, delivered, access,
          epoch, born, keeper, rotations>>

Row == [st   : {"none", "active", "revoked", "deleted"},
        ver  : Nat,
        hash : Cred \cup {NoCred},
        exp  : BOOLEAN]

User == [pwd : Nat, email : Nat, mustChange : BOOLEAN]

\* pc names the await a request is suspended in; the other fields are the
\* values it carries across that await.
Request == [pc   : {"idle", "loginVerified", "refreshRead", "authorized",
                    "verified", "revoked", "committed"},
            op   : {"none", "login", "refresh", "password", "email", "logout"},
            sid  : Session \cup {NoSession},
            ver  : Nat,
            cred : Cred \cup {NoCred},
            seen : Nat,
            gone : SUBSET Session]

IdleRequest == [pc |-> "idle", op |-> "none", sid |-> NoSession, ver |-> 0,
                cred |-> NoCred, seen |-> 0, gone |-> {}]

TypeOK ==
    /\ row \in [Session -> Row]
    /\ user \in User
    /\ req \in [Req -> Request]
    /\ minted \subseteq Cred
    /\ delivered \subseteq Cred
    /\ access \subseteq Session \X Nat
    /\ epoch \in Nat
    /\ born \in [Session -> Nat]
    /\ keeper \in Session \cup {NoSession}
    /\ rotations \in [Cred -> Nat]
    /\ \A r \in Req :
          /\ req[r].pc \notin {"idle", "loginVerified"} => req[r].sid \in Session
          /\ req[r].pc \in {"refreshRead", "committed"} => req[r].cred \in Cred

Active(s) == row[s].st = "active"

Init ==
    /\ row = [s \in Session |-> [st |-> "none", ver |-> 0,
                                 hash |-> NoCred, exp |-> FALSE]]
    /\ \E m \in BOOLEAN : user = [pwd |-> 0, email |-> 0, mustChange |-> m]
    /\ req = [r \in Req |-> IdleRequest]
    /\ minted = {}
    /\ delivered = {}
    /\ access = {}
    /\ epoch = 0
    /\ born = [s \in Session |-> 0]
    /\ keeper = NoSession
    /\ rotations = [c \in Cred |-> 0]

------------------------------------------------------------
(* Login: findUnique + argon2 verify, then the transaction that creates    *)
(* the row. A wrong password leaves no trace and is not a step.            *)

LoginVerify(r) ==
    /\ req[r].pc = "idle"
    /\ req' = [req EXCEPT ![r] = [IdleRequest EXCEPT
                 !.pc = "loginVerified", !.op = "login", !.seen = user.pwd]]
    /\ UNCHANGED <<dbVars, clientVars, histVars>>

\* Faulty variant: a login recycles the row of a session that ended.
RecyclableId(s) == ~Active(s)

\* Every session gets an id of its own (a UUID).
UnusedId(s) == row[s].st = "none"

LoginCreate(r, s, c) ==
    /\ req[r].pc = "loginVerified"
    /\ UnusedId(s)
    /\ c \notin minted
    /\ row' = [row EXCEPT ![s] = [st |-> "active", ver |-> 1,
                                  hash |-> c, exp |-> FALSE]]
    /\ minted' = minted \cup {c}
    /\ delivered' = delivered \cup {c}
    /\ access' = access \cup {<<s, 1>>}
    /\ born' = [born EXCEPT ![s] = epoch]
    /\ req' = [req EXCEPT ![r] = IdleRequest]
    /\ UNCHANGED <<user, epoch, keeper, rotations>>

------------------------------------------------------------
(* Refresh: the row is found by credential and checked; the rotation is a  *)
(* conditional update, and `now` in its condition is the time of the read. *)

RefreshRead(r, s) ==
    /\ req[r].pc = "idle"
    /\ row[s].hash \in delivered
    /\ Active(s)
    /\ ~row[s].exp
    /\ req' = [req EXCEPT ![r] = [IdleRequest EXCEPT
                 !.pc = "refreshRead", !.op = "refresh", !.sid = s,
                 !.ver = row[s].ver, !.cred = row[s].hash]]
    /\ UNCHANGED <<dbVars, clientVars, histVars>>

\* Faulty variant: the update does not compare the credential that was read.
RotationMatchesRow(r) == Active(req[r].sid)

\* WHERE of the rotation: id, tokenHash, revokedAt null.
RotationMatches(r) ==
    /\ Active(req[r].sid)
    /\ row[req[r].sid].hash = req[r].cred

\* The access token is signed with the version that was read, not with the
\* version of the updated row.
RefreshRotate(r, c) ==
    /\ req[r].pc = "refreshRead"
    /\ RotationMatches(r)
    /\ c \notin minted
    /\ row' = [row EXCEPT ![req[r].sid] = [@ EXCEPT !.hash = c, !.exp = FALSE]]
    /\ minted' = minted \cup {c}
    /\ delivered' = delivered \cup {c}
    /\ access' = access \cup {<<req[r].sid, req[r].ver>>}
    /\ rotations' = [rotations EXCEPT ![req[r].cred] = @ + 1]
    /\ req' = [req EXCEPT ![r] = IdleRequest]
    /\ UNCHANGED <<user, epoch, born, keeper>>

\* REFRESH_SESSION_REUSED: the update matched no row.
RefreshLost(r) ==
    /\ req[r].pc = "refreshRead"
    /\ ~RotationMatches(r)
    /\ req' = [req EXCEPT ![r] = IdleRequest]
    /\ UNCHANGED <<dbVars, clientVars, histVars>>

------------------------------------------------------------
(* Protected requests: JwtStrategy.validate checks sid and sv against the  *)
(* row; the handler runs afterwards with the values it was given.          *)

Authorises(t) ==
    /\ Active(t[1])
    /\ row[t[1]].ver = t[2]
    /\ ~row[t[1]].exp

Authorize(r, op, t) ==
    /\ req[r].pc = "idle"
    /\ op \in {"password", "email", "logout"}
    /\ t \in access
    /\ Authorises(t)
    /\ req' = [req EXCEPT ![r] = [IdleRequest EXCEPT
                 !.pc = "authorized", !.op = op, !.sid = t[1], !.ver = t[2]]]
    /\ UNCHANGED <<dbVars, clientVars, histVars>>

Revoked(s) == [row[s] EXCEPT !.st = "revoked"]

\* revokeCurrentSession: WHERE id, revokedAt null. Another id stays as it is.
LogoutRevoke(r) ==
    /\ req[r].pc = "authorized"
    /\ req[r].op = "logout"
    /\ Active(req[r].sid)
    /\ row' = [row EXCEPT ![req[r].sid] = Revoked(req[r].sid)]
    /\ req' = [req EXCEPT ![r] = [@ EXCEPT !.pc = "revoked", !.gone = {req[r].sid}]]
    /\ UNCHANGED <<user, clientVars, histVars>>

\* currentUser and verifyCurrentPassword: the user row is read, the forced
\* change blocks an email change, and the current password is proved.
ChangeVerify(r) ==
    /\ req[r].pc = "authorized"
    /\ req[r].op \in {"password", "email"}
    /\ req[r].op = "email" => ~user.mustChange
    /\ req' = [req EXCEPT ![r] = [@ EXCEPT !.pc = "verified", !.seen = user.pwd]]
    /\ UNCHANGED <<dbVars, clientVars, histVars>>

\* Faulty variant: the update does not compare the version in the access token.
CurrentMatchesRow(r) == Active(req[r].sid) /\ ~row[req[r].sid].exp

\* WHERE of rotateCurrentSession: id, accessVersion, revokedAt null, unexpired.
CurrentMatches(r) ==
    /\ Active(req[r].sid)
    /\ row[req[r].sid].ver = req[r].ver
    /\ ~row[req[r].sid].exp

\* Faulty variant: sessions whose refresh credential has expired are skipped.
UsableOtherSessions(s) == {o \in Session \ {s} : Active(o) /\ ~row[o].exp}

\* revokeOtherSessions: every other row with revokedAt null, expired or not.
OtherSessions(s) == {o \in Session \ {s} : Active(o)}

Rotated(s, c) == [st |-> "active", ver |-> row[s].ver + 1, hash |-> c, exp |-> FALSE]

\* The rows after the transaction: the current one rotated, the others revoked.
RowsAfterChange(s, c) ==
    [o \in Session |-> CASE o = s -> Rotated(s, c)
                         [] o \in OtherSessions(s) -> Revoked(o)
                         [] OTHER -> row[o]]

UserAfterChange(op) ==
    IF op = "password"
    THEN [user EXCEPT !.pwd = epoch + 1, !.mustChange = FALSE]
    ELSE [user EXCEPT !.email = epoch + 1]

\* Faulty variant: the new credential is lost on the way out.
CommittedBare(q, c, others) ==
    [q EXCEPT !.pc = "committed", !.ver = q.ver + 1, !.gone = others]

\* What a change takes out of its transaction: the credential and version of
\* the retained session (auth.sessionVersion + 1) and the sessions revoked.
Committed(q, c, others) ==
    [q EXCEPT !.pc = "committed", !.cred = c, !.ver = q.ver + 1, !.gone = others]

\* The serializable transaction of changePassword and changeEmail.
ChangeCommit(r, c) ==
    /\ req[r].pc = "verified"
    /\ CurrentMatches(r)
    /\ c \notin minted
    /\ LET s == req[r].sid IN
         /\ row' = RowsAfterChange(s, c)
         /\ user' = UserAfterChange(req[r].op)
         /\ req' = [req EXCEPT ![r] = Committed(req[r], c, OtherSessions(s))]
         /\ keeper' = s
    /\ epoch' = epoch + 1
    /\ minted' = minted \cup {c}
    /\ UNCHANGED <<delivered, access, born, rotations>>

\* Everything that ends a protected request before its commit: an invalid
\* current password, an unchanged value, an exhausted limit, a lost session
\* (SESSION_INVALID), a uniqueness conflict or a serialization failure.
Refuse(r) ==
    /\ req[r].pc \in {"loginVerified", "authorized", "verified"}
    /\ req' = [req EXCEPT ![r] = IdleRequest]
    /\ UNCHANGED <<dbVars, clientVars, histVars>>

\* After commit: disconnectRevokedSessions, then the response. `ok` is FALSE
\* when it threw: the client gets 503 and no new credentials.
Reply(r, ok) ==
    /\ req[r].pc \in {"committed", "revoked"}
    /\ IF ok /\ req[r].pc = "committed"
       THEN /\ delivered' = delivered \cup {req[r].cred}
            /\ access' = access \cup {<<req[r].sid, req[r].ver>>}
       ELSE UNCHANGED <<delivered, access>>
    /\ req' = [req EXCEPT ![r] = IdleRequest]
    /\ UNCHANGED <<dbVars, minted, histVars>>

------------------------------------------------------------
\* The thirty days of a refresh credential run out.
Expire(s) ==
    /\ Active(s)
    /\ ~row[s].exp
    /\ row' = [row EXCEPT ![s].exp = TRUE]
    /\ UNCHANGED <<user, req, clientVars, histVars>>

\* RefreshCleanupService deletes expired rows and revoked ones past retention.
Cleanup(s) ==
    /\ \/ row[s].st = "revoked"
       \/ Active(s) /\ row[s].exp
    /\ row' = [row EXCEPT ![s].st = "deleted"]
    /\ UNCHANGED <<user, req, clientVars, histVars>>

\* The API process dies: requests in flight vanish, PostgreSQL keeps its rows.
Restart ==
    /\ \E r \in Req : req[r].pc # "idle"
    /\ req' = [r \in Req |-> IdleRequest]
    /\ UNCHANGED <<dbVars, clientVars, histVars>>

RequestStep(r) ==
    \/ LoginVerify(r)
    \/ \E s \in Session, c \in Cred : LoginCreate(r, s, c)
    \/ \E s \in Session : RefreshRead(r, s)
    \/ \E c \in Cred : RefreshRotate(r, c)
    \/ RefreshLost(r)
    \/ \E op \in {"password", "email", "logout"}, t \in access : Authorize(r, op, t)
    \/ LogoutRevoke(r)
    \/ ChangeVerify(r)
    \/ \E c \in Cred : ChangeCommit(r, c)
    \/ Refuse(r)
    \/ \E ok \in BOOLEAN : Reply(r, ok)

Next ==
    \/ \E r \in Req : RequestStep(r)
    \/ \E s \in Session : Expire(s) \/ Cleanup(s)
    \/ Restart

Spec == Init /\ [][Next]_vars

------------------------------------------------------------
(* Properties.                                                             *)

\* A refresh credential is exchanged at most once, however many refresh
\* requests read its row before one of them rotates it
\* (session.service.ts: the rotation is conditional on the tokenHash read).
RefreshSingleUse == \A c \in Cred : rotations[c] <= 1

\* A credential change leaves no session of an earlier time active but the one
\* it was made from, whatever logins, refreshes, logouts or other changes were
\* in flight (auth.service.ts: revokeOtherSessions in the transaction).
OnlyKeeperSurvives ==
    \A s \in Session : Active(s) => born[s] = epoch \/ s = keeper

\* While the row still holds the credential a committed change generated, the
\* version about to be signed into the retained session's token is the row's:
\* the caller is not locked out by its own change (auth.service.ts returns
\* auth.sessionVersion + 1 without reading the row back).
RetainedTokenMatchesRow ==
    \A r \in Req :
        LET s == req[r].sid IN
        (req[r].pc = "committed" /\ Active(s) /\ row[s].hash = req[r].cred)
            => row[s].ver = req[r].ver

\* An access token that stopped authorising by revocation or by version never
\* authorises again; no refresh, retained session or cleanup revives it.
DeadTokensStayDead ==
    [][\A t \in access :
         ~(Active(t[1]) /\ row[t[1]].ver = t[2])
            => ~(row'[t[1]].st = "active" /\ row'[t[1]].ver = t[2])]_vars

\* The current password a change was allowed on is still the current password
\* when it commits, although it was read and verified outside the transaction:
\* a change cannot be committed on the strength of a replaced password.
ChangeVerifiedCurrentPassword ==
    [][\A r \in Req :
         (req[r].pc = "verified" /\ req'[r].pc = "committed")
            => req[r].seen = user.pwd]_vars

\* The tokens that authorise (expiry aside) behave as the abstract account
\* sessions: AccountSessions under this mapping.
ValidTokens == {<<s, row[s].ver>> : s \in {x \in Session : Active(x)}}
EverUsed == {s \in Session : row[s].st # "none"}

Account == INSTANCE AccountSessions WITH valid <- ValidTokens, ever <- EverUsed

ImplementsAccountSessions == Account!AbsSpec

\* The strengthening the proofs in SessionsProofs use: tokens and requests only
\* ever hold versions their row has reached, credentials are generated once and
\* sit in one row, and a verified password stands as long as the row's version.
VersionsReached ==
    /\ \A t \in access : row[t[1]].st # "none" /\ t[2] <= row[t[1]].ver
    /\ \A r \in Req : req[r].pc \notin {"idle", "loginVerified"} =>
          /\ row[req[r].sid].st # "none"
          /\ req[r].ver <= row[req[r].sid].ver

CredentialsFresh ==
    /\ \A c \in Cred \ minted : rotations[c] = 0
    /\ \A s \in Session : row[s].hash # NoCred =>
          row[s].hash \in minted /\ rotations[row[s].hash] = 0
    /\ \A s, o \in Session : (row[s].hash = row[o].hash /\ row[s].hash # NoCred) => s = o
    /\ \A r \in Req : req[r].pc = "committed" => req[r].cred \in minted

VerifiedStillCurrent ==
    \A r \in Req :
        LET s == req[r].sid IN
        (req[r].pc = "verified" /\ Active(s) /\ row[s].ver = req[r].ver)
            => req[r].seen = user.pwd

IInv ==
    /\ TypeOK
    /\ VersionsReached
    /\ CredentialsFresh
    /\ VerifiedStillCurrent
    /\ RefreshSingleUse
    /\ OnlyKeeperSurvives
    /\ RetainedTokenMatchesRow

\* No login succeeds with a password that a committed change has replaced.
NoLoginWithReplacedPassword ==
    [][\A r \in Req, s \in Session :
         (/\ req[r].pc = "loginVerified" /\ req'[r].pc = "idle"
          /\ row[s].st = "none" /\ row'[s].st = "active")
            => req[r].seen = user.pwd]_vars
=============================================================================
