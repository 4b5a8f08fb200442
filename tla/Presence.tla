------------------------------ MODULE Presence ------------------------------
(***************************************************************************)
(* PresenceService: a status key per user that heartbeats keep alive and a *)
(* counter of the user's connections, with the handlers of WsGateway that  *)
(* write them. Every Redis command is a step of its own; the EXPIRE that   *)
(* follows INCR only restarts the key's clock and is not shown.            *)
(***************************************************************************)
EXTENDS Integers, FiniteSets

CONSTANTS
    PresentUser,
    PresenceSocket,
    PresentOf,       \* [PresenceSocket -> PresentUser]
    PresenceStatus,  \* statuses clients set; "ONLINE" is one
    NoStatus,        \* the key is absent
    MaxConnections   \* bound on the counter, which failed decrements let grow

ASSUME PresenceAssumption ==
    /\ PresentOf \in [PresenceSocket -> PresentUser]
    /\ "ONLINE" \in PresenceStatus /\ NoStatus \notin PresenceStatus
    /\ PresenceStatus \cap {"idle", "count"} = {}   \* tags of this model, no statuses
    /\ MaxConnections \in Nat

VARIABLES
    presence,    \* presence:*
    connections, \* presence:connections:*
    socketUp,
    greeting,    \* handleConnection of a socket: "idle", "incr" or "set"
    parting,     \* handleDisconnect of a socket: "idle", "decr" or "remove"
    beat,        \* a heartbeat's handler: "idle", "count" or the status it writes
    miscounted,  \* history: users whose counter expired under them or missed a socket
    stalePresence \* history: users whose key expired or was removed under a writer

presenceVars == <<presence, connections, socketUp, greeting, parting, beat, miscounted, stalePresence>>

PresenceTypeOK ==
    /\ presence \in [PresentUser -> PresenceStatus \cup {NoStatus}]
    /\ connections \in [PresentUser -> 0..MaxConnections]
    /\ socketUp \subseteq PresenceSocket
    /\ greeting \in [PresenceSocket -> {"idle", "incr", "set"}]
    /\ parting \in [PresenceSocket -> {"idle", "decr", "remove"}]
    /\ beat \in [PresenceSocket -> PresenceStatus \cup {"idle", "count"}]
    /\ miscounted \subseteq PresentUser /\ stalePresence \subseteq PresentUser

PresenceInit ==
    /\ presence = [u \in PresentUser |-> NoStatus] /\ connections = [u \in PresentUser |-> 0]
    /\ socketUp = {}
    /\ greeting = [s \in PresenceSocket |-> "idle"] /\ parting = [s \in PresenceSocket |-> "idle"]
    /\ beat = [s \in PresenceSocket |-> "idle"]
    /\ miscounted = {} /\ stalePresence = {}

Sockets(u) == {s \in PresenceSocket : PresentOf[s] = u}
Quiet(u) == \A s \in Sockets(u) : greeting[s] = "idle" /\ parting[s] = "idle" /\ beat[s] = "idle"
Absent(u) == Sockets(u) \cap socketUp = {}
Removing(u) == \E s \in Sockets(u) : parting[s] = "remove"

------------------------------------------------------------
(* handleConnection                                                        *)

\* The user is known and the socket is on its way to its rooms.
Greet(s) ==
    LET u == PresentOf[s] IN
    /\ s \notin socketUp /\ greeting[s] = "idle" /\ parting[s] = "idle" /\ beat[s] = "idle"
    /\ socketUp' = socketUp \cup {s}
    /\ greeting' = [greeting EXCEPT ![s] = "incr"]
    /\ IF Absent(u) /\ Quiet(u) /\ connections[u] = 0 /\ presence[u] = NoStatus
       THEN miscounted' = miscounted \ {u} /\ stalePresence' = stalePresence \ {u}
       ELSE UNCHANGED <<miscounted, stalePresence>>
    /\ UNCHANGED <<presence, connections, parting, beat>>

incrementConnections(s) ==
    LET u == PresentOf[s] IN
    /\ greeting[s] = "incr" /\ connections[u] < MaxConnections
    /\ connections' = [connections EXCEPT ![u] = @ + 1]
    /\ greeting' = [greeting EXCEPT ![s] = IF connections[u] = 0 THEN "set" ELSE "idle"]
    /\ stalePresence' = IF Removing(u) THEN stalePresence \cup {u} ELSE stalePresence
    /\ UNCHANGED <<presence, socketUp, parting, beat, miscounted>>

SetOnline(s) ==
    /\ greeting[s] = "set"
    /\ presence' = [presence EXCEPT ![PresentOf[s]] = "ONLINE"]
    /\ greeting' = [greeting EXCEPT ![s] = "idle"]
    /\ UNCHANGED <<connections, socketUp, parting, beat, miscounted, stalePresence>>

\* presence:set-status
SetStatus(s, status) ==
    /\ s \in socketUp /\ greeting[s] = "idle"
    /\ presence' = [presence EXCEPT ![PresentOf[s]] = status]
    /\ UNCHANGED <<connections, socketUp, greeting, parting, beat, miscounted, stalePresence>>

------------------------------------------------------------
(* handleDisconnect, which does not wait for handleConnection              *)

Part(s) ==
    /\ s \in socketUp /\ parting[s] = "idle"
    /\ socketUp' = socketUp \ {s}
    /\ parting' = [parting EXCEPT ![s] = "decr"]
    /\ UNCHANGED <<presence, connections, greeting, beat, miscounted, stalePresence>>

\* Plausible bug: the counter only goes down, and nobody is told that it reached zero.
NeverLast(s) ==
    /\ parting[s] = "decr"
    /\ connections' = [connections EXCEPT ![PresentOf[s]] = IF @ = 0 THEN 0 ELSE @ - 1]
    /\ parting' = [parting EXCEPT ![s] = "idle"]
    /\ UNCHANGED <<presence, socketUp, greeting, beat, miscounted, stalePresence>>

\* Plausible bug: a plain DECR, which an expired counter takes below zero.
PlainDecrement(s) ==
    LET u == PresentOf[s] IN
    /\ parting[s] = "decr"
    /\ connections' = [connections EXCEPT ![u] = @ - 1]
    /\ parting' = [parting EXCEPT ![s] = IF connections[u] = 1 THEN "remove" ELSE "idle"]
    /\ miscounted' = IF greeting[s] = "incr" THEN miscounted \cup {u} ELSE miscounted
    /\ UNCHANGED <<presence, socketUp, greeting, beat, stalePresence>>

\* A script: the counter never stays below zero.
decrementConnections(s) ==
    LET u == PresentOf[s]
        left == IF connections[u] = 0 THEN 0 ELSE connections[u] - 1
    IN
    /\ parting[s] = "decr"
    /\ connections' = [connections EXCEPT ![u] = left]
    /\ parting' = [parting EXCEPT ![s] = IF left = 0 THEN "remove" ELSE "idle"]
    /\ miscounted' = IF greeting[s] = "incr" THEN miscounted \cup {u} ELSE miscounted
    /\ UNCHANGED <<presence, socketUp, greeting, beat, stalePresence>>

\* Redis does not answer: null, which is not taken for the last disconnect.
DecrementFails(s) ==
    /\ parting[s] = "decr"
    /\ parting' = [parting EXCEPT ![s] = "idle"]
    /\ miscounted' = miscounted \cup {PresentOf[s]}
    /\ UNCHANGED <<presence, connections, socketUp, greeting, beat, stalePresence>>

RemovePresence(s) ==
    LET u == PresentOf[s] IN
    /\ parting[s] = "remove"
    /\ presence' = [presence EXCEPT ![u] = NoStatus]
    /\ parting' = [parting EXCEPT ![s] = "idle"]
    /\ stalePresence' = IF \E o \in Sockets(u) : beat[o] # "idle" \/ greeting[o] = "set"
                        THEN stalePresence \cup {u} ELSE stalePresence
    /\ UNCHANGED <<connections, socketUp, greeting, beat, miscounted>>

------------------------------------------------------------
(* presence:heartbeat                                                      *)

HeartbeatGet(s) ==
    LET u == PresentOf[s] IN
    /\ s \in socketUp /\ greeting[s] = "idle" /\ beat[s] = "idle"
    /\ beat' = [beat EXCEPT ![s] = IF presence[u] = NoStatus THEN "count" ELSE presence[u]]
    /\ UNCHANGED <<presence, connections, socketUp, greeting, parting, miscounted, stalePresence>>

\* The key expired: it is restored if the user still has connections.
HeartbeatCount(s) ==
    /\ beat[s] = "count"
    /\ beat' = [beat EXCEPT ![s] = IF connections[PresentOf[s]] > 0 THEN "ONLINE" ELSE "idle"]
    /\ UNCHANGED <<presence, connections, socketUp, greeting, parting, miscounted, stalePresence>>

HeartbeatSet(s) ==
    LET u == PresentOf[s] IN
    /\ beat[s] \in PresenceStatus
    /\ presence' = [presence EXCEPT ![u] = beat[s]]
    /\ beat' = [beat EXCEPT ![s] = "idle"]
    /\ stalePresence' = IF s \in socketUp /\ ~Removing(u) THEN stalePresence \ {u} ELSE stalePresence
    /\ UNCHANGED <<connections, socketUp, greeting, parting, miscounted>>

------------------------------------------------------------
(* Time to live: heartbeats renew the status, only connections the counter *)

PresenceExpires(u) ==
    /\ presence[u] # NoStatus
    /\ presence' = [presence EXCEPT ![u] = NoStatus]
    /\ stalePresence' = stalePresence \cup {u}
    /\ UNCHANGED <<connections, socketUp, greeting, parting, beat, miscounted>>

CounterExpires(u) ==
    /\ connections[u] > 0
    /\ connections' = [connections EXCEPT ![u] = 0]
    /\ miscounted' = miscounted \cup {u}
    /\ UNCHANGED <<presence, socketUp, greeting, parting, beat, stalePresence>>

PresenceNext ==
    \/ \E s \in PresenceSocket :
           \/ Greet(s) \/ incrementConnections(s) \/ SetOnline(s)
           \/ Part(s) \/ decrementConnections(s) \/ DecrementFails(s) \/ RemovePresence(s)
           \/ HeartbeatGet(s) \/ HeartbeatCount(s) \/ HeartbeatSet(s)
           \/ \E status \in PresenceStatus : SetStatus(s, status)
    \/ \E u \in PresentUser : PresenceExpires(u) \/ CounterExpires(u)

PresenceSpec == PresenceInit /\ [][PresenceNext]_presenceVars

------------------------------------------------------------
(* Properties                                                              *)

\* When none of a user's handlers is in flight the counter is the number of the user's
\* sockets, unless it expired, missed a socket that left during its handshake, or Redis
\* failed. And the user then has a status exactly while connected, unless the key
\* expired or its removal overlapped a greeting or a heartbeat: which the next
\* heartbeat, or the key's expiry once the user is gone, makes good.
SettledPresence ==
    \A u \in PresentUser :
        Quiet(u) /\ u \notin miscounted =>
            /\ connections[u] = Cardinality(Sockets(u) \cap socketUp)
            /\ u \notin stalePresence => (presence[u] = NoStatus <=> connections[u] = 0)
=============================================================================
