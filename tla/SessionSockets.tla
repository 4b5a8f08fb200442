--------------------------- MODULE SessionSockets ---------------------------
(***************************************************************************)
(* The single API process's sockets over the durable sessions:             *)
(* WsGateway.handleConnection / handleDisconnect and                       *)
(* WsSessionRegistryService, composed with Sessions, whose replies run     *)
(* disconnectRevokedSessions. The handshake is split where it awaits: the  *)
(* session is validated first and the socket enters the registry last.     *)
(***************************************************************************)
EXTENDS Sessions

CONSTANT Socket

VARIABLES
    up,          \* sockets whose transport is connected
    hand,        \* how far each socket's handleConnection has come
    sockSid,     \* client.sessionId
    authRevoked, \* sockets with data.authRevoked = true
    registry,    \* sockets in socketsBySession / sessionBySocket
    \* history, read by properties only
    struck,      \* sessions whose sockets a reply has reconciled
    late         \* sockets still in handleConnection when that happened

sockVars == <<up, hand, sockSid, authRevoked, registry, struck, late>>
allVars == <<vars, sockVars>>

Stage == {"new", "validated", "ready", "failed"}

SocketTypeOK ==
    /\ up \subseteq Socket
    /\ hand \in [Socket -> Stage]
    /\ sockSid \in [Socket -> Session \cup {NoSession}]
    /\ authRevoked \subseteq Socket
    /\ registry \subseteq Socket
    /\ struck \subseteq Session
    /\ late \subseteq Socket

SocketInit ==
    /\ Init
    /\ up = {}
    /\ hand = [k \in Socket |-> "new"]
    /\ sockSid = [k \in Socket |-> NoSession]
    /\ authRevoked = {}
    /\ registry = {}
    /\ struck = {}
    /\ late = {}

\* A packet of k reaches its handler: the transport is up, userId is set and
\* the client.use guard does not see authRevoked.
Serving(k) ==
    /\ k \in up
    /\ hand[k] \in {"validated", "ready"}
    /\ k \notin authRevoked

\* Faulty variant: every socket of the account, whatever its session.
RegisteredToUser(S) == registry

Registered(S) == {k \in registry : sockSid[k] \in S}

\* handleConnection up to its first await: the access token's session is
\* looked up and, when it authorises, userId and sessionId are set.
Connect(k, t) ==
    /\ hand[k] = "new"
    /\ t \in access
    /\ Authorises(t)
    /\ up' = up \cup {k}
    /\ hand' = [hand EXCEPT ![k] = "validated"]
    /\ sockSid' = [sockSid EXCEPT ![k] = t[1]]
    /\ UNCHANGED <<vars, authRevoked, registry, struck, late>>

\* The rest of handleConnection, after its reads and Redis calls: associate,
\* then ws:ready. It runs to the end although the transport may be gone.
Associate(k) ==
    /\ hand[k] = "validated"
    /\ hand' = [hand EXCEPT ![k] = "ready"]
    /\ registry' = registry \cup {k}
    /\ UNCHANGED <<vars, up, sockSid, authRevoked, struck, late>>

\* One of those calls fails: AUTH_FAILED and client.disconnect().
HandshakeFails(k) ==
    /\ hand[k] = "validated"
    /\ hand' = [hand EXCEPT ![k] = "failed"]
    /\ up' = up \ {k}
    /\ UNCHANGED <<vars, sockSid, authRevoked, registry, struck, late>>

\* The client goes away; handleDisconnect takes the socket out of the registry.
Drop(k) ==
    /\ k \in up
    /\ up' = up \ {k}
    /\ registry' = registry \ {k}
    /\ UNCHANGED <<vars, hand, sockSid, authRevoked, struck, late>>

\* Faulty variant: disconnect without the quarantine before it.
NotQuarantined(S) == authRevoked

Quarantined(S) == authRevoked \cup Registered(S)

\* disconnectRevokedSessions: all registered sockets of the sessions are
\* quarantined first; then session by session each socket is disconnected and
\* removed. A socket that throws is skipped, its session's other sockets are
\* still tried, and the sessions after it are not.
Reconcile(r, closed) ==
    /\ LET S == req[r].gone
           targets == Registered(S)
           ok == closed = targets
       IN  /\ closed \subseteq targets
           /\ \/ ok
              \/ \E bad \in S, before \in SUBSET S :
                    /\ bad \notin before
                    /\ Registered(before) \subseteq closed
                    /\ closed \subseteq Registered(before \cup {bad})
                    /\ ~(Registered({bad}) \subseteq closed)
           /\ Reply(r, ok)
           /\ authRevoked' = Quarantined(S)
           /\ up' = up \ closed
           /\ registry' = registry \ closed
           /\ struck' = struck \cup S
           /\ late' = late \cup {k \in Socket : hand[k] = "validated"
                                                /\ sockSid[k] \in S}
    /\ UNCHANGED <<hand, sockSid>>

\* Steps of Sessions that touch no socket.
QuietStep(r) ==
    /\ \/ LoginVerify(r)
       \/ \E s \in Session, c \in Cred : LoginCreate(r, s, c)
       \/ \E s \in Session : RefreshRead(r, s)
       \/ \E c \in Cred : RefreshRotate(r, c)
       \/ RefreshLost(r)
       \/ \E op \in {"password", "email", "logout"}, t \in access : Authorize(r, op, t)
       \/ LogoutRevoke(r)
       \/ ChangeVerify(r)
       \/ \E c \in Cred : ChangeCommit(r, c)
       \/ Refuse(r)
    /\ UNCHANGED sockVars

\* The process dies: its sockets and its registry die with its requests.
ProcessRestart ==
    /\ \/ Restart
       \/ /\ up # {}
          /\ \A r \in Req : req[r].pc = "idle"
          /\ UNCHANGED vars
    /\ up' = {}
    /\ registry' = {}
    /\ authRevoked' = {}
    /\ hand' = [k \in Socket |-> IF hand[k] = "new" THEN "new" ELSE "failed"]
    /\ UNCHANGED <<sockSid, struck, late>>

ReconcileSome(r) == \E closed \in SUBSET Socket : Reconcile(r, closed)

SocketNext ==
    \/ \E r \in Req : QuietStep(r) \/ ReconcileSome(r)
    \/ \E s \in Session : (Expire(s) \/ Cleanup(s)) /\ UNCHANGED sockVars
    \/ \E k \in Socket :
          \/ \E t \in access : Connect(k, t)
          \/ Associate(k)
          \/ HandshakeFails(k)
          \/ Drop(k)
    \/ ProcessRestart

SocketSpec == SocketInit /\ [][SocketNext]_allVars

\* A reply needs no further event: it is the synchronous continuation of a
\* transaction that has committed. Nothing obliges clients to do anything.
FairSocketSpec == SocketSpec /\ \A r \in Req : WF_allVars(ReconcileSome(r))

------------------------------------------------------------
(* Properties.                                                             *)

\* Once a reply has reconciled a revoked session, the only sockets of it that
\* still get packets through are those that were between validation and
\* associate at that moment: a disconnect that throws leaves none
\* (ws-session-registry.service.ts: quarantine before disconnect).
OnlyLateHandshakesServe ==
    \A k \in Socket : (Serving(k) /\ sockSid[k] \in struck) => k \in late

\* The strengthening the proofs use: sessions a reply closes, or has closed, have
\* ended for good, and a connected socket past its handshake is registered.
GoneSessionsEnded ==
    \A r \in Req : req[r].pc \in {"committed", "revoked"} =>
        \A o \in req[r].gone : row[o].st \in {"revoked", "deleted"}

StruckSessionsEnded == \A o \in struck : row[o].st \in {"revoked", "deleted"}

ReadySocketsRegistered == \A k \in up : hand[k] = "ready" => k \in registry

SocketIInv ==
    /\ TypeOK
    /\ SocketTypeOK
    /\ GoneSessionsEnded
    /\ StruckSessionsEnded
    /\ ReadySocketsRegistered
    /\ OnlyLateHandshakesServe

\* Packets of a retained session are never cut off: refreshes and credential
\* changes made from a session, and changes of others that fail, leave its
\* sockets alone. Only a session that stopped being active is quarantined.
ActiveSessionsKeepTheirSockets ==
    [][\A k \in Socket : (k \in authRevoked' /\ k \notin authRevoked)
         => ~Active(sockSid[k])]_allVars

\* A registered socket of a session that was revoked is cut off in the end,
\* by the reply of the request that revoked it.
Unfinished(k) == k \in registry /\ Serving(k) /\ row[sockSid[k]].st = "revoked"
RevokedSocketsAreCutOff ==
    \A k \in Socket :
        (Unfinished(k) /\ k \notin late /\ sockSid[k] \in Session)
            ~> (~Serving(k) \/ k \in late)

\* The registry holds connected sockets only (docs/product/account-security.md:
\* the API "maintains only the bounded socket association index from session ID
\* to authenticated sockets").
RegistryHoldsLiveSockets == registry \subseteq up

\* Without the exception for handshakes in flight: no socket of a reconciled
\* session gets a packet through.
RevokedSessionsFailClosed ==
    \A k \in Socket : Serving(k) => sockSid[k] \notin struck
=============================================================================
