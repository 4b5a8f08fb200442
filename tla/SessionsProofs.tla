--------------------------- MODULE SessionsProofs ---------------------------
(***************************************************************************)
(* Proofs about Sessions, for every set of sessions, credentials and       *)
(* requests. IInv is inductive; each property the runs check follows from  *)
(* it, and Sessions implements AccountSessions step by step.               *)
(***************************************************************************)
EXTENDS SessionSockets, TLAPS

\* The shape of an idle request.
LEMMA IdleRequestType ==
    /\ IdleRequest \in Request
    /\ IdleRequest.pc = "idle"
BY DEF IdleRequest, Request

\* The initial state is well typed.
LEMMA InitType == Init => TypeOK
BY IdleRequestType DEF Init, TypeOK, Row, User

\* The row of a retained session after a credential change.
LEMMA RotatedRow ==
    ASSUME TypeOK, NEW s \in Session, NEW c \in Cred
    PROVE  /\ Rotated(s, c) \in Row
           /\ Rotated(s, c).st = "active"
           /\ Rotated(s, c).ver = row[s].ver + 1
           /\ Rotated(s, c).hash = c
<1> row[s] \in Row BY DEF TypeOK
<1>1. QED BY DEF Rotated, Row

\* A revoked row keeps its version and credential.
LEMMA RevokedRow ==
    ASSUME TypeOK, NEW s \in Session
    PROVE  /\ Revoked(s) \in Row
           /\ Revoked(s).st = "revoked"
           /\ Revoked(s).ver = row[s].ver
           /\ Revoked(s).hash = row[s].hash
<1> row[s] \in Row BY DEF TypeOK
<1>1. Revoked(s) \in Row BY DEF Revoked, Row
<1>2. QED BY <1>1 DEF Revoked, Row

\* What a credential change leaves in each row: a row that is not the current
\* one keeps its version and credential and is not active.
LEMMA RowsAfterChangeRows ==
    ASSUME TypeOK, NEW s \in Session, NEW c \in Cred
    PROVE  /\ RowsAfterChange(s, c) \in [Session -> Row]
           /\ RowsAfterChange(s, c)[s] = Rotated(s, c)
           /\ \A o \in Session \ {s} :
                 /\ RowsAfterChange(s, c)[o].st # "active"
                 /\ row[o].st = "none" <=> RowsAfterChange(s, c)[o].st = "none"
                 /\ RowsAfterChange(s, c)[o].ver = row[o].ver
                 /\ RowsAfterChange(s, c)[o].hash = row[o].hash
<1> DEFINE R == RowsAfterChange(s, c)
<1>1. R[s] = Rotated(s, c) BY DEF RowsAfterChange, OtherSessions
<1>2. ASSUME NEW o \in Session \ {s}
      PROVE  /\ R[o] \in Row
             /\ R[o].st # "active"
             /\ row[o].st = "none" <=> R[o].st = "none"
             /\ R[o].ver = row[o].ver /\ R[o].hash = row[o].hash
 <2>1. CASE o \in OtherSessions(s)
  <3>1. R[o] = Revoked(o) BY <2>1 DEF RowsAfterChange, OtherSessions
  <3>2. row[o].st = "active" BY <2>1 DEF OtherSessions, Active
  <3>3. QED BY <3>1, <3>2, RevokedRow
 <2>2. CASE o \notin OtherSessions(s)
  <3>1. R[o] = row[o] BY <2>2 DEF RowsAfterChange
  <3>2. row[o].st # "active" BY <2>2 DEF OtherSessions, Active
  <3>3. QED BY <3>1, <3>2 DEF TypeOK
 <2>3. QED BY <2>1, <2>2
<1>3. R \in [Session -> Row]
 <2>1. \A o \in Session : R[o] \in Row BY <1>1, <1>2, RotatedRow
 <2>2. QED BY <2>1 DEF RowsAfterChange
<1>4. QED BY <1>1, <1>2, <1>3

\* A committed change is a request with the new credential.
LEMMA CommittedType ==
    ASSUME NEW q \in Request, NEW c \in Cred, NEW others \in SUBSET Session
    PROVE  /\ Committed(q, c, others) \in Request
           /\ Committed(q, c, others).pc = "committed"
           /\ Committed(q, c, others).sid = q.sid
           /\ Committed(q, c, others).cred = c
           /\ Committed(q, c, others).ver = q.ver + 1
           /\ Committed(q, c, others).gone = others
<1>1. /\ Committed(q, c, others).pc = "committed"
      /\ Committed(q, c, others).sid = q.sid
      /\ Committed(q, c, others).cred = c
  BY DEF Committed, Request
<1>2. Committed(q, c, others).ver = q.ver + 1 BY DEF Committed, Request
<1>3. Committed(q, c, others).gone = others BY DEF Committed, Request
<1>4. q.ver + 1 \in Nat BY DEF Request
<1>5. Committed(q, c, others) \in Request BY <1>4 DEF Committed, Request
<1>6. QED BY <1>1, <1>2, <1>3, <1>5

\* Every step keeps the state well typed.
LEMMA StepType == TypeOK /\ [Next]_vars => TypeOK'
<1> SUFFICES ASSUME TypeOK, [Next]_vars
             PROVE  TypeOK'
  OBVIOUS
<1> USE IdleRequestType
<1>1. ASSUME NEW r \in Req, LoginVerify(r)
      PROVE  TypeOK'
  BY <1>1 DEF LoginVerify, TypeOK, IdleRequest, Request, User,
              dbVars, clientVars, histVars
<1>2. ASSUME NEW r \in Req, NEW s \in Session, NEW c \in Cred, LoginCreate(r, s, c)
      PROVE  TypeOK'
 <2>1. req[r].seen \in Nat BY DEF TypeOK, Request
 <2>2. row' \in [Session -> Row] BY <1>2 DEF LoginCreate, UnusedId, TypeOK, Row
 <2>3. QED BY <1>2, <2>1, <2>2 DEF LoginCreate, UnusedId, TypeOK
<1>3. ASSUME NEW r \in Req, NEW s \in Session, RefreshRead(r, s)
      PROVE  TypeOK'
 <2>1. row[s] \in Row /\ row[s].hash \in Cred BY <1>3 DEF TypeOK, RefreshRead
 <2>2. /\ req' \in [Req -> Request]
       /\ req'[r].sid \in Session /\ req'[r].cred \in Cred
       /\ \A q \in Req \ {r} : req'[q] = req[q]
   BY <1>3, <2>1 DEF RefreshRead, TypeOK, IdleRequest, Request, Row
 <2>3. QED BY <1>3, <2>2 DEF RefreshRead, TypeOK, dbVars, clientVars, histVars
<1>4. ASSUME NEW r \in Req, NEW c \in Cred, RefreshRotate(r, c)
      PROVE  TypeOK'
 <2>1. /\ req[r].sid \in Session /\ req[r].ver \in Nat /\ req[r].cred \in Cred
   BY <1>4 DEF TypeOK, Request, RefreshRotate
 <2>2. row' \in [Session -> Row] BY <1>4, <2>1 DEF RefreshRotate, TypeOK, Row
 <2>3. rotations' \in [Cred -> Nat] BY <1>4, <2>1 DEF RefreshRotate, TypeOK
 <2>4. access' \subseteq Session \X Nat BY <1>4, <2>1 DEF RefreshRotate, TypeOK
 <2>5. QED BY <1>4, <2>2, <2>3, <2>4 DEF RefreshRotate, TypeOK
<1>5. ASSUME NEW r \in Req, RefreshLost(r) \/ Refuse(r)
      PROVE  TypeOK'
  BY <1>5 DEF RefreshLost, Refuse, TypeOK, dbVars, clientVars, histVars
<1>6. ASSUME NEW r \in Req, NEW op \in {"password", "email", "logout"},
             NEW t \in access, Authorize(r, op, t)
      PROVE  TypeOK'
 <2>1. t[1] \in Session /\ t[2] \in Nat BY DEF TypeOK
 <2>2. /\ req' \in [Req -> Request]
       /\ req'[r].pc = "authorized" /\ req'[r].sid \in Session
       /\ \A q \in Req \ {r} : req'[q] = req[q]
   BY <1>6, <2>1 DEF Authorize, TypeOK, IdleRequest, Request
 <2>3. QED BY <1>6, <2>2 DEF Authorize, TypeOK, dbVars, clientVars, histVars
<1>7. ASSUME NEW r \in Req, LogoutRevoke(r)
      PROVE  TypeOK'
 <2>1. req[r].sid \in Session BY <1>7 DEF TypeOK, LogoutRevoke
 <2>2. row' \in [Session -> Row] BY <1>7, <2>1, RevokedRow DEF LogoutRevoke, TypeOK
 <2>3. /\ req' \in [Req -> Request]
       /\ req'[r].pc = "revoked" /\ req'[r].sid \in Session
       /\ \A q \in Req \ {r} : req'[q] = req[q]
  <3>1. req[r] \in Request BY DEF TypeOK
  <3>2. [req[r] EXCEPT !.pc = "revoked", !.gone = {req[r].sid}] \in Request BY <2>1, <3>1 DEF Request
  <3>3. req' = [req EXCEPT ![r] = [req[r] EXCEPT !.pc = "revoked", !.gone = {req[r].sid}]]
    BY <1>7 DEF LogoutRevoke
  <3>4. QED BY <2>1, <3>1, <3>2, <3>3 DEF TypeOK, Request
 <2>4. QED BY <1>7, <2>1, <2>2, <2>3 DEF LogoutRevoke, TypeOK, clientVars, histVars
<1>8. ASSUME NEW r \in Req, ChangeVerify(r)
      PROVE  TypeOK'
 <2>1. /\ req' \in [Req -> Request]
       /\ req'[r].pc = "verified" /\ req'[r].sid \in Session
       /\ \A q \in Req \ {r} : req'[q] = req[q]
  <3>1. req[r] \in Request /\ req[r].sid \in Session /\ user.pwd \in Nat BY <1>8 DEF TypeOK, ChangeVerify, User
  <3>2. [req[r] EXCEPT !.pc = "verified", !.seen = user.pwd] \in Request BY <3>1 DEF Request
  <3>3. req' = [req EXCEPT ![r] = [req[r] EXCEPT !.pc = "verified", !.seen = user.pwd]] BY <1>8 DEF ChangeVerify
  <3>4. QED BY <3>1, <3>2, <3>3 DEF TypeOK, Request
 <2>2. QED BY <1>8, <2>1 DEF ChangeVerify, TypeOK, dbVars, clientVars, histVars
<1>9. ASSUME NEW r \in Req, NEW c \in Cred, ChangeCommit(r, c)
      PROVE  TypeOK'
 <2>1. req[r].sid \in Session /\ req[r].ver \in Nat /\ req[r].seen \in Nat
   BY <1>9 DEF TypeOK, Request, ChangeCommit
 <2>2. row' \in [Session -> Row] BY <1>9, <2>1, RowsAfterChangeRows DEF ChangeCommit
 <2>3. user' \in User
  <3>1. /\ user \in User /\ epoch + 1 \in Nat
        /\ user' = UserAfterChange(req[r].op)
    BY <1>9 DEF TypeOK, ChangeCommit
  <3>2. /\ [user EXCEPT !.pwd = epoch + 1, !.mustChange = FALSE] \in User
        /\ [user EXCEPT !.email = epoch + 1] \in User
    BY <3>1 DEF User
  <3>3. QED BY <3>1, <3>2 DEF UserAfterChange
 <2>4. /\ req' \in [Req -> Request]
       /\ req'[r].sid \in Session /\ req'[r].cred \in Cred
       /\ \A q \in Req \ {r} : req'[q] = req[q]
  <3>1. OtherSessions(req[r].sid) \in SUBSET Session /\ req[r] \in Request BY DEF TypeOK, OtherSessions
  <3>2. req' = [req EXCEPT ![r] = Committed(req[r], c, OtherSessions(req[r].sid))] BY <1>9 DEF ChangeCommit
  <3>3. QED BY <2>1, <3>1, <3>2, CommittedType DEF TypeOK
 <2>5. QED BY <1>9, <2>1, <2>2, <2>3, <2>4 DEF ChangeCommit, TypeOK
<1>10. ASSUME NEW r \in Req, NEW ok \in BOOLEAN, Reply(r, ok)
       PROVE  TypeOK'
 <2>1. req' \in [Req -> Request] BY <1>10 DEF Reply, TypeOK
 <2>2. access' \subseteq Session \X Nat BY <1>10 DEF Reply, TypeOK, Request
 <2>3. delivered' \subseteq Cred BY <1>10 DEF Reply, TypeOK
 <2>4. QED BY <1>10, <2>1, <2>2, <2>3 DEF Reply, TypeOK, dbVars, histVars
<1>11. ASSUME NEW s \in Session, Expire(s) \/ Cleanup(s)
       PROVE  TypeOK'
 <2>1. row' \in [Session -> Row]
  <3>1. row[s] \in Row BY DEF TypeOK
  <3>2. [row[s] EXCEPT !.exp = TRUE] \in Row /\ [row[s] EXCEPT !.st = "deleted"] \in Row BY <3>1 DEF Row
  <3>3. \/ row' = [row EXCEPT ![s] = [row[s] EXCEPT !.exp = TRUE]]
        \/ row' = [row EXCEPT ![s] = [row[s] EXCEPT !.st = "deleted"]]
    BY <1>11 DEF Expire, Cleanup
  <3>4. QED BY <3>2, <3>3 DEF TypeOK
 <2>2. QED BY <1>11, <2>1 DEF Expire, Cleanup, TypeOK, clientVars, histVars
<1>12. CASE Restart BY <1>12 DEF Restart, TypeOK, dbVars, clientVars, histVars
<1>13. CASE UNCHANGED vars BY <1>13 DEF vars, TypeOK
<1>14. QED BY <1>1, <1>2, <1>3, <1>4, <1>5, <1>6, <1>7, <1>8, <1>9, <1>10, <1>11,
<1>12, <1>13 DEF Next, RequestStep

\* Every state of every behaviour is well typed.
THEOREM TypeCorrect == Spec => []TypeOK
<1>1. QED BY InitType, StepType, PTL DEF Spec

------------------------------------------------------------
(* How one step may change a row.                                          *)

\* A row's version never falls, a row never returns to "none", and only a row
\* that was active, or did not exist, is active afterwards.
LEMMA RowSteps ==
    ASSUME TypeOK, [Next]_vars, NEW o \in Session
    PROVE  /\ row[o].st # "none" =>
                 row'[o].st # "none" /\ row[o].ver <= row'[o].ver
           /\ row'[o].st = "active" => row[o].st \in {"none", "active"}
<1> DEFINE Goal == /\ row[o].st # "none" =>
                        row'[o].st # "none" /\ row[o].ver <= row'[o].ver
                   /\ row'[o].st = "active" => row[o].st \in {"none", "active"}
<1> row[o] \in Row BY DEF TypeOK
<1> SUFFICES Goal OBVIOUS
<1>0. row' = row => Goal BY DEF Row
<1>1. ASSUME NEW r \in Req, NEW s \in Session, NEW c \in Cred, LoginCreate(r, s, c)
      PROVE  Goal
  BY <1>1 DEF LoginCreate, UnusedId, TypeOK, Row
<1>2. ASSUME NEW r \in Req, NEW c \in Cred, RefreshRotate(r, c)
      PROVE  Goal
  BY <1>2 DEF RefreshRotate, RotationMatches, Active, TypeOK, Row
<1>3. ASSUME NEW r \in Req, LogoutRevoke(r)
      PROVE  Goal
 <2>1. req[r].sid \in Session BY <1>3 DEF LogoutRevoke, TypeOK
 <2>2. row' = [row EXCEPT ![req[r].sid] = Revoked(req[r].sid)] BY <1>3 DEF LogoutRevoke
 <2>3. row'[o] = IF o = req[r].sid THEN Revoked(o) ELSE row[o] BY <2>1, <2>2 DEF TypeOK
 <2>4. Revoked(o).st = "revoked" /\ Revoked(o).ver = row[o].ver BY RevokedRow
 <2>5. QED BY <2>3, <2>4 DEF Row
<1>4. ASSUME NEW r \in Req, NEW c \in Cred, ChangeCommit(r, c)
      PROVE  Goal
 <2>1. row'[o] = RowsAfterChange(req[r].sid, c)[o] BY <1>4 DEF ChangeCommit
 <2>2. req[r].sid \in Session BY <1>4 DEF ChangeCommit, TypeOK
 <2>3. CASE o = req[r].sid
  <3>1. row'[o] = Rotated(o, c) BY <2>1, <2>2, <2>3, RowsAfterChangeRows
  <3>2. row[o].st = "active" /\ row[o].ver \in Nat BY <1>4, <2>3 DEF ChangeCommit, CurrentMatches, Active, Row
  <3>3. QED BY <3>1, <3>2, RotatedRow
 <2>4. CASE o # req[r].sid
  <3>1. /\ row'[o].st # "active"
        /\ row[o].st = "none" <=> row'[o].st = "none"
        /\ row'[o].ver = row[o].ver
    BY <2>1, <2>2, <2>4, RowsAfterChangeRows
  <3>2. row[o].ver \in Nat BY DEF Row
  <3>3. QED BY <3>1, <3>2
 <2>5. QED BY <2>3, <2>4
<1>5. ASSUME NEW s \in Session, Expire(s) \/ Cleanup(s)
      PROVE  Goal
  BY <1>5 DEF Expire, Cleanup, Active, TypeOK, Row
<1>6. QED
  BY <1>0, <1>1, <1>2, <1>3, <1>4, <1>5
  DEF Next, RequestStep, LoginVerify, RefreshRead, RefreshLost, Authorize,
      ChangeVerify, Refuse, Reply, Restart, vars, dbVars

\* Tokens and requests only ever hold versions their row has reached.
LEMMA StepVersionsReached == TypeOK /\ VersionsReached /\ [Next]_vars => VersionsReached'
<1> SUFFICES ASSUME TypeOK, VersionsReached, [Next]_vars
             PROVE  VersionsReached'
  OBVIOUS
<1> TypeOK' BY StepType
<1> DEFINE Reached(s, v) == row[s].st # "none" /\ v <= row[s].ver
           ReqReached(r) == req[r].pc \notin {"idle", "loginVerified"} =>
                               Reached(req[r].sid, req[r].ver)
<1>a. \A s \in Session, v \in Nat : Reached(s, v) => Reached(s, v)'
 <2> SUFFICES ASSUME NEW s \in Session, NEW v \in Nat, Reached(s, v)
              PROVE  Reached(s, v)'
   OBVIOUS
 <2>1. row[s].ver \in Nat /\ row'[s].ver \in Nat BY DEF TypeOK, Row
 <2>2. QED BY <2>1, RowSteps
<1>b. ASSUME NEW q \in Req, req'[q] = req[q]
      PROVE  ReqReached(q)'
  BY <1>a, <1>b DEF VersionsReached, TypeOK, Request
<1>c. ASSUME NEW q \in Req, req'[q] = IdleRequest
      PROVE  ReqReached(q)'
  BY <1>c, IdleRequestType
<1>d. ASSUME NEW q \in Req, req'[q].sid = req[q].sid, req'[q].ver = req[q].ver,
             req[q].pc \notin {"idle", "loginVerified"}
      PROVE  ReqReached(q)'
  BY <1>a, <1>d DEF VersionsReached, TypeOK, Request
<1>e. ASSUME NEW t \in access
      PROVE  Reached(t[1], t[2])'
 <2>1. t[1] \in Session /\ t[2] \in Nat BY DEF TypeOK
 <2>2. QED BY <1>a, <2>1 DEF VersionsReached
<1>f. ASSUME \A q \in Req : ReqReached(q)', \A t \in access' : Reached(t[1], t[2])'
      PROVE  VersionsReached'
  BY <1>f DEF VersionsReached
<1> HIDE DEF ReqReached
<1>1. ASSUME NEW r \in Req, LoginVerify(r)
      PROVE  VersionsReached'
 <2>1. ReqReached(r)' BY <1>1 DEF LoginVerify, TypeOK, IdleRequest, ReqReached
 <2>2. \A q \in Req \ {r} : req'[q] = req[q] BY <1>1 DEF LoginVerify, TypeOK
 <2>3. QED BY <1>1, <1>b, <1>e, <1>f, <2>1, <2>2 DEF LoginVerify, clientVars
<1>2. ASSUME NEW r \in Req, NEW s \in Session, NEW c \in Cred, LoginCreate(r, s, c)
      PROVE  VersionsReached'
 <2>1. Reached(s, 1)' BY <1>2 DEF LoginCreate, UnusedId, TypeOK
 <2>2. \A q \in Req : req'[q] = req[q] \/ req'[q] = IdleRequest BY <1>2 DEF LoginCreate, UnusedId, TypeOK
 <2>3. QED BY <1>2, <1>b, <1>c, <1>e, <1>f, <2>1, <2>2 DEF LoginCreate
<1>3. ASSUME NEW r \in Req, NEW s \in Session, RefreshRead(r, s)
      PROVE  VersionsReached'
 <2>1. /\ req'[r].sid = s /\ req'[r].ver = row[s].ver
       /\ \A q \in Req \ {r} : req'[q] = req[q]
   BY <1>3 DEF RefreshRead, TypeOK, IdleRequest
 <2>2. ReqReached(r)' BY <1>3, <1>a, <2>1 DEF RefreshRead, Active, ReqReached, TypeOK, Row
 <2>3. QED BY <1>3, <1>b, <1>e, <1>f, <2>1, <2>2 DEF RefreshRead, clientVars
<1>4. ASSUME NEW r \in Req, NEW c \in Cred, RefreshRotate(r, c)
      PROVE  VersionsReached'
 <2>1. /\ req[r].sid \in Session /\ req[r].ver \in Nat
       /\ Reached(req[r].sid, req[r].ver)
   BY <1>4 DEF RefreshRotate, VersionsReached, TypeOK, Request
 <2>2. \A q \in Req : req'[q] = req[q] \/ req'[q] = IdleRequest BY <1>4 DEF RefreshRotate, TypeOK
 <2>3. row'[req[r].sid].st # "none" /\ req[r].ver <= row'[req[r].sid].ver BY <1>a, <2>1
 <2>4. \A t \in access' : t \in access \/ t = <<req[r].sid, req[r].ver>> BY <1>4 DEF RefreshRotate
 <2>5. \A t \in access' : Reached(t[1], t[2])' BY <1>e, <2>3, <2>4
 <2>6. QED BY <1>b, <1>c, <1>f, <2>2, <2>5
<1>5. ASSUME NEW r \in Req, RefreshLost(r) \/ Refuse(r)
      PROVE  VersionsReached'
 <2>1. \A q \in Req : req'[q] = req[q] \/ req'[q] = IdleRequest BY <1>5 DEF RefreshLost, Refuse, TypeOK
 <2>2. QED BY <1>5, <1>b, <1>c, <1>e, <1>f, <2>1 DEF RefreshLost, Refuse, clientVars
<1>6. ASSUME NEW r \in Req, NEW op \in {"password", "email", "logout"},
             NEW t \in access, Authorize(r, op, t)
      PROVE  VersionsReached'
 <2>1. /\ req'[r].sid = t[1] /\ req'[r].ver = t[2]
       /\ \A q \in Req \ {r} : req'[q] = req[q]
   BY <1>6 DEF Authorize, TypeOK, IdleRequest
 <2>2. ReqReached(r)' BY <1>e, <2>1 DEF ReqReached
 <2>3. QED BY <1>6, <1>b, <1>e, <1>f, <2>1, <2>2 DEF Authorize, clientVars
<1>7. ASSUME NEW r \in Req, LogoutRevoke(r) \/ ChangeVerify(r)
      PROVE  VersionsReached'
 <2>1. /\ req[r].pc \notin {"idle", "loginVerified"}
       /\ \A q \in Req \ {r} : req'[q] = req[q]
   BY <1>7 DEF LogoutRevoke, ChangeVerify, TypeOK
 <2>3. \/ req'[r] = [req[r] EXCEPT !.pc = "revoked", !.gone = {req[r].sid}]
       \/ req'[r] = [req[r] EXCEPT !.pc = "verified", !.seen = user.pwd]
   BY <1>7 DEF LogoutRevoke, ChangeVerify, TypeOK
 <2>4. req[r] \in Request BY DEF TypeOK
 <2>5. req'[r].sid = req[r].sid /\ req'[r].ver = req[r].ver BY <2>3, <2>4 DEF Request
 <2>6. QED BY <1>7, <1>b, <1>d, <1>e, <1>f, <2>1, <2>5 DEF LogoutRevoke, ChangeVerify, clientVars
<1>8. ASSUME NEW r \in Req, NEW c \in Cred, ChangeCommit(r, c)
      PROVE  VersionsReached'
 <2>1. /\ req[r] \in Request /\ req[r].sid \in Session /\ row[req[r].sid] \in Row
       /\ OtherSessions(req[r].sid) \in SUBSET Session
   BY <1>8 DEF ChangeCommit, TypeOK, OtherSessions
 <2>2. /\ req'[r] = Committed(req[r], c, OtherSessions(req[r].sid))
       /\ \A q \in Req \ {r} : req'[q] = req[q]
   BY <1>8 DEF ChangeCommit, TypeOK
 <2>3. req'[r].sid = req[r].sid /\ req'[r].ver = req[r].ver + 1 BY <2>1, <2>2, CommittedType
 <2>4. /\ row'[req[r].sid].st = "active"
       /\ row'[req[r].sid].ver = req[r].ver + 1
  <3>1. row' = RowsAfterChange(req[r].sid, c) /\ row[req[r].sid].ver = req[r].ver
    BY <1>8 DEF ChangeCommit, CurrentMatches
  <3>2. RowsAfterChange(req[r].sid, c)[req[r].sid] = Rotated(req[r].sid, c) BY <2>1, RowsAfterChangeRows
  <3>3. QED BY <2>1, <3>1, <3>2, RotatedRow
 <2>5. ReqReached(r)' BY <2>1, <2>3, <2>4 DEF ReqReached, Request
 <2>6. QED BY <1>8, <1>b, <1>e, <1>f, <2>2, <2>5 DEF ChangeCommit
<1>9. ASSUME NEW r \in Req, NEW ok \in BOOLEAN, Reply(r, ok)
      PROVE  VersionsReached'
 <2>1. \A q \in Req : req'[q] = req[q] \/ req'[q] = IdleRequest BY <1>9 DEF Reply, TypeOK
 <2>2. /\ req[r].sid \in Session /\ req[r].ver \in Nat
       /\ Reached(req[r].sid, req[r].ver)
   BY <1>9 DEF Reply, VersionsReached, TypeOK, Request
 <2>4. \A t \in access' : t \in access \/ t = <<req[r].sid, req[r].ver>> BY <1>9 DEF Reply
 <2>5. \A t \in access' : row'[t[1]].st # "none" /\ t[2] <= row'[t[1]].ver
   BY <1>9, <2>2, <2>4 DEF Reply, dbVars, VersionsReached
 <2>6. QED BY <1>b, <1>c, <1>f, <2>1, <2>5
<1>10. CASE (\E s \in Session : Expire(s) \/ Cleanup(s)) \/ Restart \/ UNCHANGED vars
 <2>1. access' = access BY <1>10 DEF Expire, Cleanup, Restart, vars, clientVars
 <2>2. \A q \in Req : req'[q] = req[q] \/ req'[q] = IdleRequest
   BY <1>10 DEF Expire, Cleanup, Restart, vars, TypeOK
 <2>3. QED BY <1>b, <1>c, <1>e, <1>f, <2>1, <2>2
<1>11. QED
  BY <1>1, <1>2, <1>3, <1>4, <1>5, <1>6, <1>7, <1>8, <1>9, <1>10
  DEF Next, RequestStep

------------------------------------------------------------
(* Refresh credentials.                                                    *)

\* A step that generates no credential and moves none keeps them fresh.
LEMMA HashesKept ==
    ASSUME TypeOK, CredentialsFresh, RefreshSingleUse,
           \A s \in Session : row'[s].hash = row[s].hash,
           minted' = minted, rotations' = rotations,
           \A q \in Req : req'[q].pc = "committed" =>
               req[q].pc = "committed" /\ req'[q].cred = req[q].cred
    PROVE  CredentialsFresh' /\ RefreshSingleUse'
<1>1. RefreshSingleUse' BY DEF RefreshSingleUse
<1>2. CredentialsFresh' BY DEF CredentialsFresh
<1>3. QED BY <1>1, <1>2

\* Giving one row a credential generated in this step keeps them fresh, when
\* the only exchange the step counts is of the credential the row held.
LEMMA HashReplaced ==
    ASSUME TypeOK, TypeOK', CredentialsFresh, RefreshSingleUse,
           NEW s \in Session, NEW c \in Cred \ minted,
           row'[s].hash = c,
           \A o \in Session \ {s} : row'[o].hash = row[o].hash,
           minted' = minted \cup {c},
           \A d \in Cred \ {row[s].hash} : rotations'[d] = rotations[d],
           row[s].hash # NoCred => rotations'[row[s].hash] <= 1,
           \A q \in Req : req'[q].pc = "committed" =>
               \/ req'[q].cred = c
               \/ req[q].pc = "committed" /\ req'[q].cred = req[q].cred
    PROVE  CredentialsFresh' /\ RefreshSingleUse'
<1>1. RefreshSingleUse'
 <2> SUFFICES ASSUME NEW d \in Cred
              PROVE  rotations'[d] <= 1
   BY DEF RefreshSingleUse
 <2>1. CASE d = row[s].hash BY <2>1, SessionsAssumption
 <2>2. CASE d # row[s].hash BY <2>2 DEF RefreshSingleUse
 <2>3. QED BY <2>1, <2>2
<1>2. row[s].hash # c BY SessionsAssumption DEF CredentialsFresh
<1>3. rotations'[c] = 0 BY <1>2 DEF CredentialsFresh
<1>4. ASSUME NEW d \in Cred \ minted'
      PROVE  rotations'[d] = 0
 <2>1. d # row[s].hash BY SessionsAssumption DEF CredentialsFresh
 <2>2. QED BY <2>1 DEF CredentialsFresh
<1>5. ASSUME NEW o \in Session, row'[o].hash # NoCred
      PROVE  row'[o].hash \in minted' /\ rotations'[row'[o].hash] = 0
 <2>1. CASE o = s BY <2>1, <1>3
 <2>2. CASE o # s
  <3>1. row[o].hash # NoCred /\ row'[o].hash = row[o].hash BY <1>5, <2>2
  <3>2. row[o].hash # row[s].hash /\ row[o].hash \in minted BY <2>2, <3>1 DEF CredentialsFresh
  <3>3. row[o].hash \in Cred BY <3>2 DEF TypeOK
  <3>4. QED BY <3>1, <3>2, <3>3 DEF CredentialsFresh
 <2>3. QED BY <2>1, <2>2
<1>6. ASSUME NEW o1 \in Session, NEW o2 \in Session,
             row'[o1].hash = row'[o2].hash, row'[o1].hash # NoCred
      PROVE  o1 = o2
 <2>1. \A o \in Session \ {s} : row[o].hash # NoCred => row'[o].hash # c BY DEF CredentialsFresh
 <2>2. CASE o1 = s \/ o2 = s BY <1>6, <2>1, <2>2, SessionsAssumption
 <2>3. CASE o1 # s /\ o2 # s BY <1>6, <2>3 DEF CredentialsFresh
 <2>4. QED BY <2>2, <2>3
<1>7. \A q \in Req : req'[q].pc = "committed" => req'[q].cred \in minted' BY DEF CredentialsFresh
<1>8. CredentialsFresh' BY <1>4, <1>5, <1>6, <1>7 DEF CredentialsFresh
<1>9. QED BY <1>1, <1>8

\* Credentials are generated once, sit in one row and are exchanged once.
LEMMA StepCredentials ==
    ASSUME TypeOK, CredentialsFresh, RefreshSingleUse, [Next]_vars
    PROVE  CredentialsFresh' /\ RefreshSingleUse'
<1> TypeOK' BY StepType
<1> DEFINE Fresh == CredentialsFresh' /\ RefreshSingleUse'
           ReqsKept == \A q \in Req : req'[q].pc = "committed" =>
                          req[q].pc = "committed" /\ req'[q].cred = req[q].cred
<1>a. ASSUME \A q \in Req : req'[q] = req[q] \/ req'[q].pc # "committed"
      PROVE  ReqsKept
  BY <1>a
<1> HIDE DEF ReqsKept
<1>1. ASSUME NEW r \in Req, NEW s \in Session, NEW c \in Cred, LoginCreate(r, s, c)
      PROVE  Fresh
 <2>1. /\ row'[s].hash = c
       /\ \A o \in Session \ {s} : row'[o].hash = row[o].hash
   BY <1>1 DEF LoginCreate, UnusedId, TypeOK
 <2>2. \A q \in Req : req'[q] = req[q] \/ req'[q].pc # "committed"
   BY <1>1, IdleRequestType DEF LoginCreate, UnusedId, TypeOK
 <2>3. row[s].hash # NoCred => rotations'[row[s].hash] <= 1 BY <1>1 DEF LoginCreate, CredentialsFresh
 <2>4. /\ c \in Cred \ minted /\ minted' = minted \cup {c} /\ rotations' = rotations BY <1>1 DEF LoginCreate
 <2>5. \A q \in Req : req'[q].pc = "committed" =>
              \/ req'[q].cred = c
              \/ req[q].pc = "committed" /\ req'[q].cred = req[q].cred
   BY <2>2
 <2>6. QED BY <2>1, <2>3, <2>4, <2>5, HashReplaced
<1>2. ASSUME NEW r \in Req, NEW c \in Cred, RefreshRotate(r, c)
      PROVE  Fresh
 <2> DEFINE s == req[r].sid
 <2>0. s \in Session /\ row[s] \in Row /\ row[s].hash = req[r].cred /\ req[r].cred \in Cred
   BY <1>2 DEF RefreshRotate, RotationMatches, TypeOK
 <2>1. /\ row'[s].hash = c
       /\ \A o \in Session \ {s} : row'[o].hash = row[o].hash
   BY <1>2, <2>0 DEF RefreshRotate, TypeOK, Row
 <2>2. \A q \in Req : req'[q] = req[q] \/ req'[q].pc # "committed"
   BY <1>2, IdleRequestType DEF RefreshRotate, TypeOK
 <2>3. rotations'[row[s].hash] <= 1
  <3>1. rotations[row[s].hash] = 0 BY <2>0, SessionsAssumption DEF CredentialsFresh
  <3>2. rotations'[row[s].hash] = rotations[row[s].hash] + 1 BY <1>2, <2>0 DEF RefreshRotate, TypeOK
  <3>3. QED BY <3>1, <3>2
 <2>4. \A d \in Cred \ {row[s].hash} : rotations'[d] = rotations[d] BY <1>2, <2>0 DEF RefreshRotate, TypeOK
 <2>5. c \in Cred \ minted /\ minted' = minted \cup {c} BY <1>2 DEF RefreshRotate
 <2>6. \A q \in Req : req'[q].pc = "committed" =>
              \/ req'[q].cred = c
              \/ req[q].pc = "committed" /\ req'[q].cred = req[q].cred
   BY <2>2
 <2> HIDE DEF s
 <2>7. QED BY <2>0, <2>1, <2>3, <2>4, <2>5, <2>6, HashReplaced
<1>3. ASSUME NEW r \in Req, NEW c \in Cred, ChangeCommit(r, c)
      PROVE  Fresh
 <2> DEFINE s == req[r].sid
 <2>0. /\ req[r] \in Request /\ s \in Session
       /\ OtherSessions(s) \in SUBSET Session
   BY <1>3 DEF ChangeCommit, TypeOK, OtherSessions
 <2>1. row' = RowsAfterChange(s, c) BY <1>3 DEF ChangeCommit
 <2>2. /\ row'[s].hash = c
       /\ \A o \in Session \ {s} : row'[o].hash = row[o].hash
   BY <2>0, <2>1, RowsAfterChangeRows, RotatedRow
 <2>3. /\ req'[r] = Committed(req[r], c, OtherSessions(s))
       /\ \A q \in Req \ {r} : req'[q] = req[q]
   BY <1>3 DEF ChangeCommit, TypeOK
 <2>4. req'[r].cred = c BY <2>0, <2>3, CommittedType
 <2>5. row[s].hash # NoCred => rotations'[row[s].hash] <= 1 BY <1>3, <2>0 DEF ChangeCommit, CredentialsFresh
 <2>6. /\ c \in Cred \ minted /\ minted' = minted \cup {c} /\ rotations' = rotations BY <1>3 DEF ChangeCommit
 <2>7. \A q \in Req : req'[q].pc = "committed" =>
              \/ req'[q].cred = c
              \/ req[q].pc = "committed" /\ req'[q].cred = req[q].cred
   BY <2>3, <2>4
 <2> HIDE DEF s
 <2>8. QED BY <2>0, <2>2, <2>5, <2>6, <2>7, HashReplaced
<1>4. ASSUME NEW r \in Req, LogoutRevoke(r)
      PROVE  Fresh
 <2>1. \A s \in Session : row'[s].hash = row[s].hash
  <3>1. \A s \in Session : row'[s] = row[s] \/ row'[s] = Revoked(s) BY <1>4 DEF LogoutRevoke, TypeOK
  <3>2. QED BY <3>1, RevokedRow
 <2>2. \A q \in Req : req'[q] = req[q] \/ req'[q].pc # "committed"
  <3>1. req'[r] = [req[r] EXCEPT !.pc = "revoked", !.gone = {req[r].sid}] BY <1>4 DEF LogoutRevoke, TypeOK
  <3>2. req[r] \in Request /\ \A q \in Req \ {r} : req'[q] = req[q] BY <1>4 DEF LogoutRevoke, TypeOK
  <3>3. req'[r].pc = "revoked" BY <3>1, <3>2 DEF Request
  <3>4. QED BY <3>2, <3>3
 <2>3. QED BY <1>4, <2>1, <2>2, <1>a, HashesKept DEF LogoutRevoke, clientVars, histVars, ReqsKept
<1>5. ASSUME NEW s \in Session, Expire(s) \/ Cleanup(s)
      PROVE  Fresh
 <2>1. \A o \in Session : row'[o].hash = row[o].hash
  <3>1. \/ row' = [row EXCEPT ![s] = [row[s] EXCEPT !.exp = TRUE]]
        \/ row' = [row EXCEPT ![s] = [row[s] EXCEPT !.st = "deleted"]]
    BY <1>5 DEF Expire, Cleanup
  <3>2. row[s] \in Row BY DEF TypeOK
  <3>3. QED BY <3>1, <3>2 DEF TypeOK, Row
 <2>2. QED BY <1>5, <2>1, HashesKept DEF Expire, Cleanup, clientVars, histVars
<1>6. ASSUME row' = row, minted' = minted, rotations' = rotations,
             \A q \in Req : req'[q] = req[q] \/ req'[q].pc # "committed"
      PROVE  Fresh
  BY <1>6, <1>a, HashesKept DEF ReqsKept
<1>7. ASSUME NEW r \in Req,
             \/ LoginVerify(r)
             \/ \E s \in Session : RefreshRead(r, s)
             \/ RefreshLost(r)
             \/ \E op \in {"password", "email", "logout"}, t \in access : Authorize(r, op, t)
             \/ ChangeVerify(r)
             \/ Refuse(r)
             \/ \E ok \in BOOLEAN : Reply(r, ok)
      PROVE  Fresh
 <2>1. row' = row /\ minted' = minted /\ rotations' = rotations
   BY <1>7 DEF LoginVerify, RefreshRead, RefreshLost, Authorize, ChangeVerify,
               Refuse, Reply, dbVars, clientVars, histVars
 <2>2. \A q \in Req \ {r} : req'[q] = req[q]
   BY <1>7 DEF LoginVerify, RefreshRead, RefreshLost, Authorize, ChangeVerify,
               Refuse, Reply, TypeOK
 <2>3. req'[r].pc # "committed"
  <3>1. CASE ChangeVerify(r)
   <4>1. req'[r] = [req[r] EXCEPT !.pc = "verified", !.seen = user.pwd] /\ req[r] \in Request
     BY <3>1 DEF ChangeVerify, TypeOK
   <4>2. QED BY <4>1 DEF Request
  <3>2. CASE LoginVerify(r) BY <3>2 DEF LoginVerify, TypeOK, IdleRequest
  <3>3. CASE \E s \in Session : RefreshRead(r, s) BY <3>3 DEF RefreshRead, TypeOK, IdleRequest
  <3>4. CASE \E op \in {"password", "email", "logout"}, t \in access : Authorize(r, op, t)
    BY <3>4 DEF Authorize, TypeOK, IdleRequest
  <3>5. CASE RefreshLost(r) \/ Refuse(r) \/ \E ok \in BOOLEAN : Reply(r, ok)
    BY <3>5, IdleRequestType DEF RefreshLost, Refuse, Reply, TypeOK
  <3>6. QED BY <1>7, <3>1, <3>2, <3>3, <3>4, <3>5
 <2>4. QED BY <1>6, <2>1, <2>2, <2>3
<1>8. CASE Restart \/ UNCHANGED vars
 <2>1. \A q \in Req : req'[q] = req[q] \/ req'[q].pc # "committed" BY <1>8, IdleRequestType DEF Restart, vars
 <2>2. QED BY <1>6, <1>8, <2>1 DEF Restart, vars, dbVars, clientVars, histVars
<1>9. QED BY <1>1, <1>2, <1>3, <1>4, <1>5, <1>7, <1>8 DEF Next, RequestStep

------------------------------------------------------------
(* Credential changes.                                                     *)

\* A row becomes active only by a login of the current epoch, and a step that
\* leaves a known credential in a row leaves its version too.
LEMMA RowOrigin ==
    ASSUME TypeOK, [Next]_vars, NEW o \in Session
    PROVE  /\ row[o].st = "none" /\ row'[o].st = "active" =>
                 epoch' = epoch /\ born'[o] = epoch
           /\ row'[o].hash \in minted =>
                 row'[o].hash = row[o].hash /\ row'[o].ver = row[o].ver
<1> DEFINE Goal == /\ row[o].st = "none" /\ row'[o].st = "active" =>
                         epoch' = epoch /\ born'[o] = epoch
                   /\ row'[o].hash \in minted =>
                         row'[o].hash = row[o].hash /\ row'[o].ver = row[o].ver
<1> row[o] \in Row BY DEF TypeOK
<1> SUFFICES Goal OBVIOUS
<1>0. row' = row => Goal OBVIOUS
<1>1. ASSUME NEW r \in Req, NEW s \in Session, NEW c \in Cred, LoginCreate(r, s, c)
      PROVE  Goal
 <2>1. CASE o = s BY <1>1, <2>1 DEF LoginCreate, UnusedId, TypeOK
 <2>2. CASE o # s BY <1>1, <2>2 DEF LoginCreate, UnusedId, TypeOK
 <2>3. QED BY <2>1, <2>2
<1>2. ASSUME NEW r \in Req, NEW c \in Cred, RefreshRotate(r, c)
      PROVE  Goal
  BY <1>2 DEF RefreshRotate, RotationMatches, Active, TypeOK, Row
<1>3. ASSUME NEW r \in Req, LogoutRevoke(r)
      PROVE  Goal
 <2>1. row'[o] = row[o] \/ row'[o] = Revoked(o) BY <1>3 DEF LogoutRevoke, TypeOK
 <2>2. QED BY <2>1, RevokedRow
<1>4. ASSUME NEW r \in Req, NEW c \in Cred, ChangeCommit(r, c)
      PROVE  Goal
 <2>1. /\ req[r].sid \in Session /\ row' = RowsAfterChange(req[r].sid, c)
       /\ c \notin minted /\ row[req[r].sid].st = "active"
   BY <1>4 DEF ChangeCommit, CurrentMatches, Active, TypeOK
 <2>2. CASE o = req[r].sid BY <2>1, <2>2, RowsAfterChangeRows, RotatedRow
 <2>3. CASE o # req[r].sid BY <2>1, <2>3, RowsAfterChangeRows
 <2>4. QED BY <2>2, <2>3
<1>5. ASSUME NEW s \in Session, Expire(s) \/ Cleanup(s)
      PROVE  Goal
  BY <1>5 DEF Expire, Cleanup, Active, TypeOK, Row
<1>6. QED
  BY <1>0, <1>1, <1>2, <1>3, <1>4, <1>5
  DEF Next, RequestStep, LoginVerify, RefreshRead, RefreshLost, Authorize,
      ChangeVerify, Refuse, Reply, Restart, vars, dbVars

\* A credential change, seen from the requests and the account.
LEMMA ChangeEffect ==
    ASSUME TypeOK, NEW r \in Req, NEW c \in Cred, ChangeCommit(r, c)
    PROVE  /\ req[r] \in Request /\ req[r].sid \in Session
           /\ row' = RowsAfterChange(req[r].sid, c)
           /\ Active(req[r].sid) /\ row[req[r].sid].ver = req[r].ver
           /\ req'[r].pc = "committed" /\ req'[r].sid = req[r].sid
           /\ req'[r].cred = c /\ req'[r].ver = req[r].ver + 1
           /\ \A q \in Req \ {r} : req'[q] = req[q]
<1>1. /\ req[r] \in Request /\ req[r].sid \in Session
      /\ OtherSessions(req[r].sid) \in SUBSET Session
  BY DEF ChangeCommit, TypeOK, OtherSessions
<1>2. /\ req'[r] = Committed(req[r], c, OtherSessions(req[r].sid))
      /\ \A q \in Req \ {r} : req'[q] = req[q]
  BY DEF ChangeCommit, TypeOK
<1>3. QED BY <1>1, <1>2, CommittedType DEF ChangeCommit, CurrentMatches

\* No other step commits a request, takes the account to a new epoch or
\* changes its password, and of the others only ChangeVerify verifies.
LEMMA NoChangeEffect ==
    ASSUME TypeOK, [Next]_vars, ~(\E r \in Req, c \in Cred : ChangeCommit(r, c))
    PROVE  /\ user' = user /\ epoch' = epoch /\ keeper' = keeper
           /\ \A o \in Session : row[o].st # "none" => born'[o] = born[o]
           /\ \A q \in Req :
                 \/ req'[q] = req[q]
                 \/ req'[q].pc \notin {"verified", "committed"}
                 \/ req'[q].pc = "verified" /\ req'[q].seen = user.pwd
<1> USE IdleRequestType
<1>1. user' = user /\ epoch' = epoch /\ keeper' = keeper
  BY DEF Next, RequestStep, LoginVerify, LoginCreate, RefreshRead, RefreshRotate,
         RefreshLost, Authorize, LogoutRevoke, ChangeVerify, Refuse, Reply,
         Expire, Cleanup, Restart, vars, dbVars, histVars
<1>2. \A o \in Session : row[o].st # "none" => born'[o] = born[o]
 <2>1. ASSUME NEW r \in Req, NEW s \in Session, NEW c \in Cred, LoginCreate(r, s, c),
              NEW o \in Session, row[o].st # "none"
       PROVE  born'[o] = born[o]
   BY <2>1 DEF LoginCreate, UnusedId, TypeOK
 <2>2. QED
   BY <2>1 DEF Next, RequestStep, LoginVerify, RefreshRead, RefreshRotate,
          RefreshLost, Authorize, LogoutRevoke, ChangeVerify, Refuse, Reply,
          Expire, Cleanup, Restart, vars, histVars
<1> DEFINE Quiet(q) == \/ req'[q] = req[q]
                       \/ req'[q].pc \notin {"verified", "committed"}
                       \/ req'[q].pc = "verified" /\ req'[q].seen = user.pwd
<1>3. ASSUME NEW r \in Req, RequestStep(r)
      PROVE  \A q \in Req : Quiet(q)
 <2>1. \A q \in Req \ {r} : req'[q] = req[q]
   BY <1>3 DEF RequestStep, LoginVerify, LoginCreate, RefreshRead, RefreshRotate,
          RefreshLost, Authorize, LogoutRevoke, ChangeVerify, Refuse, Reply, TypeOK
 <2>2. req[r] \in Request BY DEF TypeOK
 <2>3. CASE LogoutRevoke(r)
  <3>1. req'[r] = [req[r] EXCEPT !.pc = "revoked", !.gone = {req[r].sid}] BY <2>3 DEF LogoutRevoke, TypeOK
  <3>2. req'[r].pc = "revoked" BY <2>2, <3>1 DEF Request
  <3>3. QED BY <2>1, <3>2
 <2>4. CASE ChangeVerify(r)
  <3>1. req'[r] = [req[r] EXCEPT !.pc = "verified", !.seen = user.pwd] BY <2>4 DEF ChangeVerify, TypeOK
  <3>2. req'[r].pc = "verified" /\ req'[r].seen = user.pwd BY <2>2, <3>1 DEF Request
  <3>3. QED BY <2>1, <3>2
 <2>5. CASE LoginVerify(r) \/ \E s \in Session : RefreshRead(r, s)
  <3>1. req'[r].pc \in {"loginVerified", "refreshRead"}
    BY <2>5 DEF LoginVerify, RefreshRead, IdleRequest, TypeOK
  <3>2. QED BY <2>1, <3>1
 <2>6. CASE \E op \in {"password", "email", "logout"}, t \in access : Authorize(r, op, t)
  <3>1. req'[r].pc = "authorized" BY <2>6 DEF Authorize, IdleRequest, TypeOK
  <3>2. QED BY <2>1, <3>1
 <2>7. CASE \/ \E s \in Session, c \in Cred : LoginCreate(r, s, c)
            \/ \E c \in Cred : RefreshRotate(r, c)
            \/ RefreshLost(r) \/ Refuse(r)
            \/ \E ok \in BOOLEAN : Reply(r, ok)
  <3>1. req'[r].pc = "idle" BY <2>7 DEF LoginCreate, RefreshRotate, RefreshLost, Refuse, Reply, TypeOK
  <3>2. QED BY <2>1, <3>1
 <2>8. QED BY <1>3, <2>3, <2>4, <2>5, <2>6, <2>7 DEF RequestStep
<1>4. ASSUME (\E s \in Session : Expire(s) \/ Cleanup(s)) \/ UNCHANGED vars
      PROVE  \A q \in Req : Quiet(q)
  BY <1>4 DEF Expire, Cleanup, vars
<1>5. ASSUME Restart
      PROVE  \A q \in Req : Quiet(q)
  BY <1>5 DEF Restart
<1>6. \A q \in Req : Quiet(q) BY <1>3, <1>4, <1>5 DEF Next
<1>7. QED BY <1>1, <1>2, <1>6

\* A password that was verified stays the current one as long as the version
\* the change was authorised with stays the row's.
LEMMA StepVerifiedStillCurrent ==
    TypeOK /\ VersionsReached /\ VerifiedStillCurrent /\ [Next]_vars => VerifiedStillCurrent'
<1> SUFFICES ASSUME TypeOK, VersionsReached, VerifiedStillCurrent, [Next]_vars,
                    NEW q \in Req, req'[q].pc = "verified",
                    row'[req'[q].sid].st = "active",
                    row'[req'[q].sid].ver = req'[q].ver
             PROVE  req'[q].seen = user'.pwd
  BY DEF VerifiedStillCurrent, Active
<1> TypeOK' BY StepType
<1>1. ASSUME req'[q] = req[q]
      PROVE  /\ req[q].sid \in Session /\ row[req[q].sid].st = "active"
             /\ row[req[q].sid].ver = req[q].ver /\ row'[req[q].sid].ver = row[req[q].sid].ver
 <2> DEFINE s == req[q].sid
 <2>1. /\ s \in Session /\ req[q].ver \in Nat
       /\ row[s].st # "none" /\ req[q].ver <= row[s].ver
   BY <1>1 DEF VersionsReached, TypeOK, Request
 <2>2. row[s].ver \in Nat /\ row'[s].ver \in Nat BY <2>1 DEF TypeOK, Row
 <2>3. row[s].ver <= row'[s].ver /\ row[s].st = "active" BY <1>1, <2>1, RowSteps
 <2>4. QED BY <1>1, <2>1, <2>2, <2>3
<1>2. ASSUME NEW r \in Req, NEW c \in Cred, ChangeCommit(r, c)
      PROVE  FALSE
 <2>1. q # r /\ req'[q] = req[q] BY <1>2, ChangeEffect
 <2>2. /\ row'[req[q].sid].ver = row[req[q].sid].ver
       /\ req[q].sid \in Session /\ row[req[q].sid].ver \in Nat
   BY <1>1, <2>1 DEF TypeOK, Row
 <2>3. req[q].sid = req[r].sid => row'[req[q].sid].ver = row[req[q].sid].ver + 1
   BY <1>2, ChangeEffect, RowsAfterChangeRows, RotatedRow
 <2>4. req[q].sid # req[r].sid => row'[req[q].sid].st # "active"
   BY <1>2, <2>2, ChangeEffect, RowsAfterChangeRows
 <2>5. QED BY <2>1, <2>2, <2>3, <2>4
<1>3. ASSUME ~(\E r \in Req, c \in Cred : ChangeCommit(r, c))
      PROVE  req'[q].seen = user'.pwd
 <2>1. user' = user BY <1>3, NoChangeEffect
 <2>2. CASE req'[q] = req[q] BY <1>1, <2>1, <2>2 DEF VerifiedStillCurrent, Active
 <2>3. CASE req'[q] # req[q] BY <1>3, <2>1, <2>3, NoChangeEffect
 <2>4. QED BY <2>2, <2>3
<1>4. QED BY <1>2, <1>3

\* A credential change leaves no earlier session active but its own.
LEMMA StepOnlyKeeperSurvives ==
    TypeOK /\ OnlyKeeperSurvives /\ [Next]_vars => OnlyKeeperSurvives'
<1> SUFFICES ASSUME TypeOK, OnlyKeeperSurvives, [Next]_vars,
                    NEW s \in Session, row'[s].st = "active"
             PROVE  born'[s] = epoch' \/ s = keeper'
  BY DEF OnlyKeeperSurvives, Active
<1>1. ASSUME NEW r \in Req, NEW c \in Cred, ChangeCommit(r, c)
      PROVE  s = keeper'
 <2>1. keeper' = req[r].sid BY <1>1 DEF ChangeCommit
 <2>2. req[r].sid \in Session /\ row' = RowsAfterChange(req[r].sid, c) BY <1>1, ChangeEffect
 <2>3. QED BY <2>1, <2>2, RowsAfterChangeRows
<1>2. ASSUME ~(\E r \in Req, c \in Cred : ChangeCommit(r, c))
      PROVE  born'[s] = epoch' \/ s = keeper'
 <2>1. /\ epoch' = epoch /\ keeper' = keeper
       /\ row[s].st # "none" => born'[s] = born[s]
   BY <1>2, NoChangeEffect
 <2>2. CASE row[s].st = "none" BY <2>1, <2>2, RowOrigin
 <2>3. CASE row[s].st # "none" BY <2>1, <2>3, RowSteps DEF OnlyKeeperSurvives, Active
 <2>4. QED BY <2>2, <2>3
<1>3. QED BY <1>1, <1>2

\* The version a reply signs for the retained session is its row's.
LEMMA StepRetainedTokenMatchesRow ==
    /\ TypeOK /\ VersionsReached /\ CredentialsFresh /\ RetainedTokenMatchesRow
    /\ [Next]_vars
    => RetainedTokenMatchesRow'
<1> SUFFICES ASSUME TypeOK, VersionsReached, CredentialsFresh, RetainedTokenMatchesRow,
                    [Next]_vars, NEW q \in Req, req'[q].pc = "committed",
                    row'[req'[q].sid].st = "active",
                    row'[req'[q].sid].hash = req'[q].cred
             PROVE  row'[req'[q].sid].ver = req'[q].ver
  BY DEF RetainedTokenMatchesRow, Active
<1>1. ASSUME req'[q] = req[q]
      PROVE  row'[req'[q].sid].ver = req'[q].ver
 <2> DEFINE s == req[q].sid
 <2>1. s \in Session /\ req[q].cred \in minted /\ row[s].st # "none"
   BY <1>1 DEF CredentialsFresh, VersionsReached, TypeOK
 <2>2. /\ row'[s].hash = row[s].hash /\ row'[s].ver = row[s].ver
       /\ row[s].st = "active"
   BY <1>1, <2>1, RowOrigin, RowSteps
 <2>3. QED BY <1>1, <2>2 DEF RetainedTokenMatchesRow, Active
<1>2. ASSUME NEW c \in Cred, ChangeCommit(q, c)
      PROVE  row'[req'[q].sid].ver = req'[q].ver
 <2>1. /\ req[q].sid \in Session /\ row' = RowsAfterChange(req[q].sid, c)
       /\ row[req[q].sid].ver = req[q].ver
       /\ req'[q].sid = req[q].sid /\ req'[q].ver = req[q].ver + 1
   BY <1>2, ChangeEffect
 <2>2. QED BY <2>1, RowsAfterChangeRows, RotatedRow
<1>3. ASSUME req'[q] # req[q]
      PROVE  \E c \in Cred : ChangeCommit(q, c)
 <2>1. \E r \in Req, c \in Cred : ChangeCommit(r, c) BY <1>3, NoChangeEffect
 <2>2. QED BY <1>3, <2>1, ChangeEffect
<1>4. QED BY <1>1, <1>2, <1>3

------------------------------------------------------------
(* The theorems.                                                           *)

\* The initial state satisfies the inductive invariant.
LEMMA InitIInv == Init => IInv
<1> SUFFICES ASSUME Init
             PROVE  IInv
  OBVIOUS
<1>1. TypeOK BY InitType
<1>2. VersionsReached /\ VerifiedStillCurrent /\ RetainedTokenMatchesRow
  BY IdleRequestType DEF Init, VersionsReached, VerifiedStillCurrent, RetainedTokenMatchesRow
<1>3. CredentialsFresh /\ RefreshSingleUse /\ OnlyKeeperSurvives
  BY IdleRequestType
  DEF Init, CredentialsFresh, RefreshSingleUse, OnlyKeeperSurvives, Active
<1>4. QED BY <1>1, <1>2, <1>3 DEF IInv

\* The inductive invariant holds in every reachable state.
THEOREM Inductive == Spec => []IInv
<1>1. IInv /\ [Next]_vars => IInv'
  BY StepType, StepVersionsReached, StepCredentials, StepVerifiedStillCurrent,
     StepOnlyKeeperSurvives, StepRetainedTokenMatchesRow DEF IInv
<1>2. QED BY InitIInv, <1>1, PTL DEF Spec

\* Each refresh credential is exchanged at most once, however requests race.
THEOREM SingleUse == Spec => []RefreshSingleUse
<1>1. IInv => RefreshSingleUse BY DEF IInv
<1>2. QED BY Inductive, <1>1, PTL

\* A committed credential change leaves only its own session of those begun
\* before it.
THEOREM KeeperSurvives == Spec => []OnlyKeeperSurvives
<1>1. IInv => OnlyKeeperSurvives BY DEF IInv
<1>2. QED BY Inductive, <1>1, PTL

\* The tokens a credential change returns match the row it retained.
THEOREM RetainedToken == Spec => []RetainedTokenMatchesRow
<1>1. IInv => RetainedTokenMatchesRow BY DEF IInv
<1>2. QED BY Inductive, <1>1, PTL

\* No step revives an access token that stopped authorising.
THEOREM DeadTokens == Spec => DeadTokensStayDead
<1>1. ASSUME IInv, [Next]_vars, NEW t \in access,
             ~(Active(t[1]) /\ row[t[1]].ver = t[2])
      PROVE  ~(row'[t[1]].st = "active" /\ row'[t[1]].ver = t[2])
 <2> TypeOK /\ TypeOK' BY <1>1, StepType DEF IInv
 <2>1. /\ t[1] \in Session /\ t[2] \in Nat
       /\ row[t[1]].st # "none" /\ t[2] <= row[t[1]].ver
   BY <1>1 DEF IInv, VersionsReached, TypeOK
 <2>2. row[t[1]].ver \in Nat /\ row'[t[1]].ver \in Nat BY <2>1 DEF TypeOK, Row
 <2>3. /\ row[t[1]].ver <= row'[t[1]].ver
       /\ row'[t[1]].st = "active" => row[t[1]].st = "active"
   BY <1>1, <2>1, RowSteps
 <2>4. QED BY <1>1, <2>1, <2>2, <2>3 DEF Active
<1>2. IInv /\ [Next]_vars =>
         [\A t \in access : ~(Active(t[1]) /\ row[t[1]].ver = t[2])
             => ~(row'[t[1]].st = "active" /\ row'[t[1]].ver = t[2])]_vars
  BY <1>1
<1>3. QED BY Inductive, <1>2, PTL DEF Spec, DeadTokensStayDead

\* A credential change commits only on the password that is current.
THEOREM CurrentPasswordProved == Spec => ChangeVerifiedCurrentPassword
<1>1. ASSUME IInv, [Next]_vars, NEW r \in Req,
             req[r].pc = "verified", req'[r].pc = "committed"
      PROVE  req[r].seen = user.pwd
 <2> TypeOK BY <1>1 DEF IInv
 <2>1. PICK q \in Req, c \in Cred : ChangeCommit(q, c) BY <1>1, NoChangeEffect
 <2>2. q = r BY <1>1, <2>1, ChangeEffect
 <2>3. Active(req[r].sid) /\ row[req[r].sid].ver = req[r].ver BY <2>1, <2>2, ChangeEffect
 <2>4. QED BY <1>1, <2>3 DEF IInv, VerifiedStillCurrent
<1>2. IInv /\ [Next]_vars =>
         [\A r \in Req : (req[r].pc = "verified" /\ req'[r].pc = "committed")
             => req[r].seen = user.pwd]_vars
  BY <1>1
<1>3. QED BY Inductive, <1>2, PTL DEF Spec, ChangeVerifiedCurrentPassword

------------------------------------------------------------
(* Sessions implements AccountSessions.                                    *)

\* A row that is started joins the tokens; rows that keep their state and
\* version keep theirs.
LEMMA ValidTokensKept ==
    ASSUME \A s \in Session : row'[s].st = row[s].st /\ row'[s].ver = row[s].ver
    PROVE  ValidTokens' = ValidTokens /\ EverUsed' = EverUsed
BY DEF ValidTokens, EverUsed, Active

\* A row that leaves "active" takes exactly its token with it.
LEMMA ValidTokensEnd ==
    ASSUME NEW s \in Session, Active(s), row'[s].st \notin {"none", "active"},
           \A o \in Session \ {s} : row'[o] = row[o]
    PROVE  Account!End(<<s, row[s].ver>>)
<1> DEFINE t == <<s, row[s].ver>>
<1>1. t \in ValidTokens BY DEF ValidTokens
<1>2. ValidTokens' = ValidTokens \ {t} BY DEF ValidTokens, Active
<1>3. EverUsed' = EverUsed BY DEF EverUsed, Active
<1>4. QED BY <1>1, <1>2, <1>3 DEF Account!End

\* Every step is an abstract step or leaves the abstract state alone.
LEMMA StepAccount ==
    ASSUME TypeOK, [Next]_vars
    PROVE  \/ Account!AbsNext
           \/ ValidTokens' = ValidTokens /\ EverUsed' = EverUsed
<1> DEFINE Goal == \/ Account!AbsNext
                   \/ ValidTokens' = ValidTokens /\ EverUsed' = EverUsed
<1> SUFFICES Goal OBVIOUS
<1>0. row' = row => Goal BY ValidTokensKept
<1>1. ASSUME NEW r \in Req, NEW s \in Session, NEW c \in Cred, LoginCreate(r, s, c)
      PROVE  Goal
 <2>1. /\ row[s].st = "none" /\ row'[s].st = "active" /\ row'[s].ver = 1
       /\ \A o \in Session \ {s} : row'[o] = row[o]
   BY <1>1 DEF LoginCreate, UnusedId, TypeOK
 <2>2. ValidTokens' = ValidTokens \cup {<<s, 1>>} BY <2>1 DEF ValidTokens, Active
 <2>3. s \notin EverUsed /\ EverUsed' = EverUsed \cup {s} BY <2>1 DEF EverUsed
 <2>4. Account!Start(s) BY <2>2, <2>3 DEF Account!Start
 <2>5. QED BY <2>4 DEF Account!AbsNext
<1>2. ASSUME NEW r \in Req, NEW c \in Cred, RefreshRotate(r, c)
      PROVE  Goal
 <2>1. \A s \in Session : row'[s].st = row[s].st /\ row'[s].ver = row[s].ver
   BY <1>2 DEF RefreshRotate, TypeOK, Row
 <2>2. QED BY <2>1, ValidTokensKept
<1>3. ASSUME NEW r \in Req, LogoutRevoke(r)
      PROVE  Goal
 <2>1. /\ req[r].sid \in Session /\ Active(req[r].sid)
       /\ row' = [row EXCEPT ![req[r].sid] = Revoked(req[r].sid)]
   BY <1>3 DEF LogoutRevoke, TypeOK
 <2>2. /\ row'[req[r].sid] = Revoked(req[r].sid)
       /\ \A o \in Session \ {req[r].sid} : row'[o] = row[o]
   BY <2>1 DEF TypeOK
 <2>3. row'[req[r].sid].st \notin {"none", "active"} BY <2>1, <2>2, RevokedRow
 <2>4. Account!End(<<req[r].sid, row[req[r].sid].ver>>) BY <2>1, <2>2, <2>3, ValidTokensEnd
 <2>5. <<req[r].sid, row[req[r].sid].ver>> \in ValidTokens BY <2>1 DEF ValidTokens
 <2>6. QED BY <2>4, <2>5 DEF Account!AbsNext
<1>4. ASSUME NEW r \in Req, NEW c \in Cred, ChangeCommit(r, c)
      PROVE  Goal
 <2> DEFINE s == req[r].sid
            t == <<s, row[s].ver>>
 <2>1. /\ s \in Session /\ Active(s) /\ row' = RowsAfterChange(s, c) BY <1>4, ChangeEffect
 <2>2. /\ row'[s].st = "active" /\ row'[s].ver = row[s].ver + 1
       /\ \A o \in Session \ {s} :
             row'[o].st # "active" /\ (row[o].st = "none" <=> row'[o].st = "none")
   BY <2>1, RowsAfterChangeRows, RotatedRow
 <2> HIDE DEF s
 <2>3. t \in ValidTokens BY <2>1 DEF ValidTokens
 <2>4. ValidTokens' = {<<s, row[s].ver + 1>>} BY <2>1, <2>2 DEF ValidTokens, Active
 <2>5. EverUsed' = EverUsed BY <2>1, <2>2 DEF EverUsed, Active
 <2>6. Account!Change(t) BY <2>3, <2>4, <2>5 DEF Account!Change
 <2>7. QED BY <2>3, <2>6 DEF Account!AbsNext
<1>5. ASSUME NEW s \in Session, Expire(s)
      PROVE  Goal
 <2>1. \A o \in Session : row'[o].st = row[o].st /\ row'[o].ver = row[o].ver BY <1>5 DEF Expire, TypeOK, Row
 <2>2. QED BY <2>1, ValidTokensKept
<1>6. ASSUME NEW s \in Session, Cleanup(s)
      PROVE  Goal
 <2>1. /\ row'[s].st = "deleted"
       /\ \A o \in Session \ {s} : row'[o] = row[o]
   BY <1>6 DEF Cleanup, TypeOK, Row
 <2>2. CASE Active(s)
  <3>1. Account!End(<<s, row[s].ver>>) BY <2>1, <2>2, ValidTokensEnd
  <3>2. <<s, row[s].ver>> \in ValidTokens BY <2>2 DEF ValidTokens
  <3>3. QED BY <3>1, <3>2 DEF Account!AbsNext
 <2>3. CASE ~Active(s)
  <3>1. row[s].st = "revoked" BY <1>6, <2>3 DEF Cleanup
  <3>2. ValidTokens' = ValidTokens /\ EverUsed' = EverUsed BY <2>1, <3>1 DEF ValidTokens, EverUsed, Active
  <3>3. QED BY <3>2
 <2>4. QED BY <2>2, <2>3
<1>7. QED
  BY <1>0, <1>1, <1>2, <1>3, <1>4, <1>5, <1>6
  DEF Next, RequestStep, LoginVerify, RefreshRead, RefreshLost, Authorize,
      ChangeVerify, Refuse, Reply, Restart, vars, dbVars

\* The durable session store, under every interleaving of requests, gives an
\* account exactly the sessions AccountSessions promises.
THEOREM Implementation == Spec => ImplementsAccountSessions
<1>1. Init => Account!AbsInit BY DEF Init, Account!AbsInit, ValidTokens, EverUsed, Active
<1>2. IInv /\ [Next]_vars => [Account!AbsNext]_(Account!absVars) BY StepAccount DEF IInv, Account!absVars
<1>3. QED
  BY Inductive, <1>1, <1>2, PTL
  DEF Spec, ImplementsAccountSessions, Account!AbsSpec

------------------------------------------------------------
(* SessionSockets: the composition implements Sessions, so every theorem    *)
(* above holds of it, and a revoked session's sockets are silenced although *)
(* a disconnect may throw.                                                  *)

\* Every step of the composition is a step of Sessions or leaves it alone.
LEMMA SocketStepIsStep == [SocketNext]_allVars => [Next]_vars
<1> SUFFICES ASSUME [SocketNext]_allVars
             PROVE  Next \/ vars' = vars
  OBVIOUS
<1>1. ASSUME NEW r \in Req, QuietStep(r)
      PROVE  Next
  BY <1>1 DEF QuietStep, Next, RequestStep
<1>2. ASSUME NEW r \in Req, NEW closed \in SUBSET Socket, Reconcile(r, closed)
      PROVE  Next
 <2>1. \E ok \in BOOLEAN : Reply(r, ok) BY <1>2 DEF Reconcile
 <2>2. QED BY <2>1 DEF Next, RequestStep
<1>3. ASSUME NEW k \in Socket,
             \/ \E t \in access : Connect(k, t)
             \/ Associate(k) \/ HandshakeFails(k) \/ Drop(k)
      PROVE  vars' = vars
  BY <1>3 DEF Connect, Associate, HandshakeFails, Drop
<1>4. ASSUME ProcessRestart
      PROVE  Next \/ vars' = vars
  BY <1>4 DEF ProcessRestart, Next
<1>5. QED BY <1>1, <1>2, <1>3, <1>4 DEF SocketNext, ReconcileSome, Next, allVars

\* The composition implements Sessions.
THEOREM SocketsImplementSessions == SocketSpec => Spec
<1>1. SocketInit => Init BY DEF SocketInit
<1>2. QED BY <1>1, SocketStepIsStep, PTL DEF SocketSpec, Spec

------------------------------------------------------------
(* The socket variables.                                                   *)

\* The initial state satisfies the inductive invariant.
LEMMA SocketInitIInv == SocketInit => SocketIInv
<1> SUFFICES ASSUME SocketInit
             PROVE  SocketIInv
  OBVIOUS
<1>1. TypeOK /\ \A r \in Req : req[r].pc = "idle" BY InitType, IdleRequestType DEF SocketInit, Init
<1>2. QED
  BY <1>1 DEF SocketInit, SocketIInv, SocketTypeOK, Stage, GoneSessionsEnded,
     StruckSessionsEnded, ReadySocketsRegistered, OnlyLateHandshakesServe, Serving

\* Every step keeps the socket variables well typed.
LEMMA StepSocketType == TypeOK /\ SocketTypeOK /\ [SocketNext]_allVars => SocketTypeOK'
<1> SUFFICES ASSUME TypeOK, SocketTypeOK, [SocketNext]_allVars
             PROVE  SocketTypeOK'
  OBVIOUS
<1>1. ASSUME NEW r \in Req, NEW closed \in SUBSET Socket, Reconcile(r, closed)
      PROVE  SocketTypeOK'
 <2>1. req[r].gone \subseteq Session BY DEF TypeOK, Request
 <2>2. QED BY <1>1, <2>1 DEF Reconcile, SocketTypeOK, Quarantined, Registered
<1>2. ASSUME NEW k \in Socket, NEW t \in access, Connect(k, t)
      PROVE  SocketTypeOK'
 <2>1. t[1] \in Session BY DEF TypeOK
 <2>2. QED BY <1>2, <2>1 DEF Connect, SocketTypeOK, Stage
<1>3. ASSUME NEW k \in Socket, Associate(k) \/ HandshakeFails(k) \/ Drop(k)
      PROVE  SocketTypeOK'
  BY <1>3 DEF Associate, HandshakeFails, Drop, SocketTypeOK, Stage
<1>4. ASSUME ProcessRestart
      PROVE  SocketTypeOK'
  BY <1>4 DEF ProcessRestart, SocketTypeOK, Stage
<1>5. ASSUME UNCHANGED sockVars
      PROVE  SocketTypeOK'
  BY <1>5 DEF sockVars, SocketTypeOK
<1>6. QED BY <1>1, <1>2, <1>3, <1>4, <1>5 DEF SocketNext, QuietStep, ReconcileSome, allVars

\* A session that ended stays ended.
LEMMA EndedForGood ==
    ASSUME TypeOK, [Next]_vars, NEW o \in Session, row[o].st \in {"revoked", "deleted"}
    PROVE  row'[o].st \in {"revoked", "deleted"}
<1>1. TypeOK' BY StepType
<1>2. row'[o].st \in {"none", "active", "revoked", "deleted"} BY <1>1 DEF TypeOK, Row
<1>3. QED BY <1>2, RowSteps

\* The sessions a request is about to reconcile have ended.
LEMMA StepGoneSessionsEnded ==
    TypeOK /\ GoneSessionsEnded /\ [Next]_vars => GoneSessionsEnded'
<1> SUFFICES ASSUME TypeOK, GoneSessionsEnded, [Next]_vars, NEW q \in Req,
                    req'[q].pc \in {"committed", "revoked"},
                    NEW o \in req'[q].gone
             PROVE  row'[o].st \in {"revoked", "deleted"}
  BY DEF GoneSessionsEnded
<1> TypeOK' BY StepType
<1> o \in Session BY DEF TypeOK, Request
<1>1. CASE req'[q] = req[q] BY <1>1, EndedForGood DEF GoneSessionsEnded
<1>2. ASSUME NEW c \in Cred, ChangeCommit(q, c)
      PROVE  row'[o].st \in {"revoked", "deleted"}
 <2>1. /\ req[q] \in Request /\ req[q].sid \in Session
       /\ row' = RowsAfterChange(req[q].sid, c)
   BY <1>2, ChangeEffect
 <2>2. req'[q] = Committed(req[q], c, OtherSessions(req[q].sid)) BY <1>2 DEF ChangeCommit, TypeOK
 <2>3. req'[q].gone = OtherSessions(req[q].sid) BY <2>1, <2>2, CommittedType DEF OtherSessions
 <2>4. o \in Session \ {req[q].sid} /\ row[o].st = "active" BY <2>3 DEF OtherSessions, Active
 <2>5. row'[o].st # "active" /\ row'[o].st # "none" BY <2>1, <2>4, RowsAfterChangeRows
 <2>6. row'[o].st \in {"none", "active", "revoked", "deleted"} BY DEF TypeOK, Row
 <2>7. QED BY <2>5, <2>6
<1>3. ASSUME LogoutRevoke(q)
      PROVE  row'[o].st \in {"revoked", "deleted"}
 <2>1. req[q].sid \in Session /\ req[q] \in Request BY <1>3 DEF LogoutRevoke, TypeOK
 <2>2. req'[q] = [req[q] EXCEPT !.pc = "revoked", !.gone = {req[q].sid}] BY <1>3 DEF LogoutRevoke, TypeOK
 <2>3. req'[q].gone = {req[q].sid} BY <2>1, <2>2 DEF Request
 <2>4. row'[req[q].sid] = Revoked(req[q].sid) BY <1>3, <2>1 DEF LogoutRevoke, TypeOK
 <2>5. QED BY <2>1, <2>3, <2>4, RevokedRow
<1>4. CASE req'[q] # req[q]
 <2>1. \/ \E c \in Cred : ChangeCommit(q, c)
       \/ LogoutRevoke(q)
  <3>1. ASSUME NEW r \in Req, LogoutRevoke(r)
        PROVE  q = r
    BY <1>4, <3>1 DEF LogoutRevoke, TypeOK
  <3>2. ASSUME NEW r \in Req, NEW c \in Cred, ChangeCommit(r, c)
        PROVE  q = r
    BY <1>4, <3>2, ChangeEffect
  <3>3. ASSUME ~(\E r \in Req : LogoutRevoke(r)), ~(\E r \in Req, c \in Cred : ChangeCommit(r, c))
        PROVE  req'[q].pc \notin {"committed", "revoked"}
   <4>1. ASSUME NEW r \in Req, ChangeVerify(r)
         PROVE  req'[q].pc \notin {"committed", "revoked"}
    <5>1. q = r /\ req[r] \in Request BY <1>4, <4>1 DEF ChangeVerify, TypeOK
    <5>2. req'[r] = [req[r] EXCEPT !.pc = "verified", !.seen = user.pwd] BY <4>1 DEF ChangeVerify, TypeOK
    <5>3. QED BY <5>1, <5>2 DEF Request
   <4>2. ASSUME NEW r \in Req, LoginVerify(r) \/ \E s \in Session : RefreshRead(r, s)
         PROVE  req'[q].pc \notin {"committed", "revoked"}
     BY <1>4, <4>2 DEF LoginVerify, RefreshRead, IdleRequest, TypeOK
   <4>3. ASSUME NEW r \in Req,
                \E op \in {"password", "email", "logout"}, t \in access : Authorize(r, op, t)
         PROVE  req'[q].pc \notin {"committed", "revoked"}
     BY <1>4, <4>3 DEF Authorize, IdleRequest, TypeOK
   <4>4. ASSUME NEW r \in Req,
                \/ \E s \in Session, c \in Cred : LoginCreate(r, s, c)
                \/ \E c \in Cred : RefreshRotate(r, c)
                \/ RefreshLost(r) \/ Refuse(r)
                \/ \E ok \in BOOLEAN : Reply(r, ok)
         PROVE  req'[q].pc \notin {"committed", "revoked"}
     BY <1>4, <4>4, IdleRequestType
     DEF LoginCreate, RefreshRotate, RefreshLost, Refuse, Reply, TypeOK
   <4>5. ASSUME (\E s \in Session : Expire(s) \/ Cleanup(s)) \/ Restart \/ UNCHANGED vars
         PROVE  req'[q].pc \notin {"committed", "revoked"}
     BY <1>4, <4>5, IdleRequestType DEF Expire, Cleanup, Restart, vars
   <4>6. QED BY <3>3, <4>1, <4>2, <4>3, <4>4, <4>5 DEF Next, RequestStep
  <3>4. QED BY <3>1, <3>2, <3>3
 <2>2. QED BY <1>2, <1>3, <2>1
<1>5. QED BY <1>1, <1>4

\* Sockets: a connected socket past its handshake is registered, and a session
\* once reconciled has ended.
LEMMA StepSockets ==
    TypeOK /\ SocketTypeOK /\ GoneSessionsEnded /\ StruckSessionsEnded
    /\ ReadySocketsRegistered /\ [SocketNext]_allVars
    => StruckSessionsEnded' /\ ReadySocketsRegistered'
<1> SUFFICES ASSUME TypeOK, SocketTypeOK, GoneSessionsEnded, StruckSessionsEnded,
                    ReadySocketsRegistered, [SocketNext]_allVars
             PROVE  StruckSessionsEnded' /\ ReadySocketsRegistered'
  OBVIOUS
<1> [Next]_vars BY SocketStepIsStep
<1>1. ASSUME struck' \subseteq struck
      PROVE  StruckSessionsEnded'
 <2>1. \A o \in struck : o \in Session BY DEF SocketTypeOK
 <2>2. QED BY <1>1, <2>1, EndedForGood DEF StruckSessionsEnded
<1>2. ASSUME NEW r \in Req, NEW closed \in SUBSET Socket, Reconcile(r, closed)
      PROVE  StruckSessionsEnded' /\ ReadySocketsRegistered'
 <2>1. /\ req[r].pc \in {"committed", "revoked"} /\ req[r].gone \subseteq Session
       /\ struck' = struck \cup req[r].gone
   BY <1>2 DEF Reconcile, Reply, TypeOK, Request
 <2>2. \A o \in struck' : o \in Session /\ row[o].st \in {"revoked", "deleted"}
   BY <2>1 DEF GoneSessionsEnded, StruckSessionsEnded, SocketTypeOK
 <2>3. StruckSessionsEnded' BY <2>2, EndedForGood DEF StruckSessionsEnded
 <2>4. up' = up \ closed /\ registry' = registry \ closed /\ hand' = hand BY <1>2 DEF Reconcile
 <2>5. ReadySocketsRegistered' BY <2>4 DEF ReadySocketsRegistered
 <2>6. QED BY <2>3, <2>5
<1>3. ASSUME NEW k \in Socket, NEW t \in access, Connect(k, t)
      PROVE  ReadySocketsRegistered' /\ struck' = struck
  BY <1>3 DEF Connect, ReadySocketsRegistered, SocketTypeOK
<1>4. ASSUME NEW k \in Socket, Associate(k) \/ HandshakeFails(k) \/ Drop(k)
      PROVE  ReadySocketsRegistered' /\ struck' = struck
  BY <1>4 DEF Associate, HandshakeFails, Drop, ReadySocketsRegistered, SocketTypeOK
<1>5. ASSUME ProcessRestart
      PROVE  ReadySocketsRegistered' /\ struck' = struck
  BY <1>5 DEF ProcessRestart, ReadySocketsRegistered
<1>6. ASSUME UNCHANGED sockVars
      PROVE  ReadySocketsRegistered' /\ struck' = struck
  BY <1>6 DEF sockVars, ReadySocketsRegistered
<1>7. QED
  BY <1>1, <1>2, <1>3, <1>4, <1>5, <1>6
  DEF SocketNext, QuietStep, ReconcileSome, allVars

\* Of a reconciled session's sockets only those caught mid-handshake serve.
LEMMA StepOnlyLateHandshakesServe ==
    TypeOK /\ SocketTypeOK /\ StruckSessionsEnded /\ ReadySocketsRegistered
    /\ OnlyLateHandshakesServe /\ [SocketNext]_allVars
    => OnlyLateHandshakesServe'
<1> SUFFICES ASSUME TypeOK, SocketTypeOK, StruckSessionsEnded, ReadySocketsRegistered,
                    OnlyLateHandshakesServe, [SocketNext]_allVars
             PROVE  OnlyLateHandshakesServe'
  OBVIOUS
<1>1. ASSUME NEW r \in Req, NEW closed \in SUBSET Socket, Reconcile(r, closed)
      PROVE  OnlyLateHandshakesServe'
 <2> DEFINE S == req[r].gone
 <2>1. /\ up' \subseteq up /\ hand' = hand /\ sockSid' = sockSid
       /\ authRevoked' = authRevoked \cup Registered(S)
       /\ struck' = struck \cup S
       /\ late' = late \cup {k \in Socket : hand[k] = "validated" /\ sockSid[k] \in S}
   BY <1>1 DEF Reconcile, Quarantined
 <2>2. SUFFICES ASSUME NEW k \in Socket, k \in up, hand[k] \in {"validated", "ready"},
                       k \notin authRevoked, k \notin Registered(S),
                       sockSid[k] \in struck \cup S
                PROVE  k \in late'
   BY <2>1 DEF OnlyLateHandshakesServe, Serving
 <2>3. CASE sockSid[k] \in struck BY <2>1, <2>2, <2>3 DEF OnlyLateHandshakesServe, Serving
 <2>4. CASE sockSid[k] \in S
  <3>1. k \notin registry BY <2>2, <2>4 DEF Registered
  <3>2. hand[k] = "validated" BY <2>2, <3>1 DEF ReadySocketsRegistered
  <3>3. QED BY <2>1, <2>4, <3>2
 <2>5. QED BY <2>2, <2>3, <2>4
<1>2. ASSUME NEW j \in Socket, NEW t \in access, Connect(j, t)
      PROVE  OnlyLateHandshakesServe'
 <2>1. row[t[1]].st = "active" /\ t[1] \notin struck
   BY <1>2 DEF Connect, Authorises, Active, StruckSessionsEnded
 <2>2. /\ sockSid'[j] = t[1] /\ struck' = struck /\ late' = late
       /\ \A k \in Socket \ {j} : Serving(k)' = Serving(k) /\ sockSid'[k] = sockSid[k]
   BY <1>2 DEF Connect, Serving, SocketTypeOK
 <2>3. QED BY <2>1, <2>2 DEF OnlyLateHandshakesServe
<1>3. ASSUME NEW j \in Socket, Associate(j) \/ HandshakeFails(j) \/ Drop(j)
      PROVE  OnlyLateHandshakesServe'
 <2>1. /\ struck' = struck /\ late' = late /\ sockSid' = sockSid
       /\ authRevoked' = authRevoked /\ up' \subseteq up
   BY <1>3 DEF Associate, HandshakeFails, Drop
 <2>2. \A k \in Socket : hand'[k] \in {"validated", "ready"} => hand[k] \in {"validated", "ready"}
   BY <1>3 DEF Associate, HandshakeFails, Drop, SocketTypeOK
 <2>3. QED BY <2>1, <2>2 DEF OnlyLateHandshakesServe, Serving
<1>4. ASSUME ProcessRestart
      PROVE  OnlyLateHandshakesServe'
  BY <1>4 DEF ProcessRestart, OnlyLateHandshakesServe, Serving
<1>5. ASSUME UNCHANGED sockVars
      PROVE  OnlyLateHandshakesServe'
  BY <1>5 DEF sockVars, OnlyLateHandshakesServe, Serving
<1>6. QED BY <1>1, <1>2, <1>3, <1>4, <1>5 DEF SocketNext, QuietStep, ReconcileSome, allVars

\* The inductive invariant of the composition holds in every reachable state.
THEOREM SocketInductive == SocketSpec => []SocketIInv
<1>1. SocketIInv /\ [SocketNext]_allVars => SocketIInv'
  BY SocketStepIsStep, StepType, StepSocketType, StepGoneSessionsEnded, StepSockets,
     StepOnlyLateHandshakesServe DEF SocketIInv
<1>2. QED BY SocketInitIInv, <1>1, PTL DEF SocketSpec

\* After a reply has reconciled a revoked session, none of its sockets gets a
\* packet through but those that were still in their handshake.
THEOREM RevokedSocketsSilenced == SocketSpec => []OnlyLateHandshakesServe
<1>1. SocketIInv => OnlyLateHandshakesServe BY DEF SocketIInv
<1>2. QED BY SocketInductive, <1>1, PTL

\* A socket is quarantined only when its session is no longer active.
THEOREM RetainedSocketsKept == SocketSpec => ActiveSessionsKeepTheirSockets
<1>1. ASSUME SocketIInv, [SocketNext]_allVars, NEW k \in Socket,
             k \in authRevoked', k \notin authRevoked
      PROVE  ~Active(sockSid[k])
 <2>1. ASSUME NEW r \in Req, NEW closed \in SUBSET Socket, Reconcile(r, closed)
       PROVE  ~Active(sockSid[k])
  <3>1. req[r].pc \in {"committed", "revoked"} /\ sockSid[k] \in req[r].gone
    BY <1>1, <2>1 DEF Reconcile, Reply, Quarantined, Registered
  <3>2. QED BY <1>1, <3>1 DEF SocketIInv, GoneSessionsEnded, Active
 <2>2. \/ authRevoked' \subseteq authRevoked
       \/ \E r \in Req, closed \in SUBSET Socket : Reconcile(r, closed)
   BY <1>1 DEF SocketNext, QuietStep, ReconcileSome, Connect, Associate, HandshakeFails,
      Drop, ProcessRestart, sockVars, allVars
 <2>3. QED BY <1>1, <2>1, <2>2
<1>2. SocketIInv /\ [SocketNext]_allVars =>
         [\A k \in Socket : (k \in authRevoked' /\ k \notin authRevoked)
             => ~Active(sockSid[k])]_allVars
  BY <1>1
<1>3. QED BY SocketInductive, <1>2, PTL DEF SocketSpec, ActiveSessionsKeepTheirSockets
=============================================================================
