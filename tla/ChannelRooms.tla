---------------------------- MODULE ChannelRooms ----------------------------
(***************************************************************************)
(* WsGateway: the Socket.IO rooms of one server and of one of its text     *)
(* channels. Sockets join them when they connect, when their user accepts  *)
(* an invite and when they subscribe; they are taken out by walks over the *)
(* connected sockets, which await at each socket, after a membership or a  *)
(* permission has gone. Voice rooms are in VoiceRooms.                     *)
(***************************************************************************)
EXTENDS Integers, FiniteSets

CONSTANTS
    RoomUser, RoomSocket,
    UserOfSocket,   \* [RoomSocket -> RoomUser]
    Walk,           \* walks at once
    MaxChanges,     \* bound: changes of membership and of overwrites
    NoWalkUser, NoWalkSocket

ASSUME ChannelRoomsAssumption ==
    /\ UserOfSocket \in [RoomSocket -> RoomUser]
    /\ NoWalkUser \notin RoomUser /\ NoWalkSocket \notin RoomSocket
    /\ MaxChanges \in Nat

VARIABLES
    isMember, mayView,  \* Member row, and VIEW_CHANNEL by the overwrites
    link,               \* how far handleConnection has come
    inServer, inChannel,\* sockets in `server:` and in `channel:` rooms
    subscribing,        \* sockets whose subscribe has passed its checks
    walk,
    joinsUser,          \* users whose accepted invite is yet to join sockets
    lateServer, lateChannel, \* sockets that joined when access had gone
    rejoined,           \* users readmitted while a walk was evicting them
    changes

roomVars == <<isMember, mayView, link, inServer, inChannel, subscribing, walk, joinsUser,
              lateServer, lateChannel, rejoined, changes>>
roomSets == <<inServer, inChannel, subscribing, lateServer, lateChannel>>

\* "known": the user id is set and the memberships not read; "member" and
\* "stranger": what they said.
LinkStage == {"gone", "known", "member", "stranger", "ready"}

NoWalk == [kind |-> "none", user |-> NoWalkUser, seen |-> {}, at |-> NoWalkSocket]

ChannelRoomsTypeOK ==
    /\ isMember \in [RoomUser -> BOOLEAN] /\ mayView \in [RoomUser -> BOOLEAN]
    /\ link \in [RoomSocket -> LinkStage]
    /\ \A set \in {inServer, inChannel, subscribing, lateServer, lateChannel} :
           set \subseteq RoomSocket
    /\ walk \in [Walk -> [kind : {"none", "reconcile", "evict"}, user : RoomUser \cup {NoWalkUser},
                          seen : SUBSET RoomSocket, at : RoomSocket \cup {NoWalkSocket}]]
    /\ joinsUser \subseteq RoomUser /\ rejoined \subseteq RoomUser
    /\ changes \in 0..MaxChanges

ChannelRoomsInit ==
    /\ isMember = [u \in RoomUser |-> TRUE] /\ mayView = [u \in RoomUser |-> TRUE]
    /\ link = [s \in RoomSocket |-> "gone"]
    /\ inServer = {} /\ inChannel = {} /\ subscribing = {}
    /\ walk = [w \in Walk |-> NoWalk]
    /\ joinsUser = {} /\ lateServer = {} /\ lateChannel = {} /\ rejoined = {}
    /\ changes = 0

MemberOf(s) == isMember[UserOfSocket[s]]
MayViewChannel(s) == MemberOf(s) /\ mayView[UserOfSocket[s]]

------------------------------------------------------------
(* Sockets                                                                 *)

Identify(s) ==
    /\ link[s] = "gone"
    /\ link' = [link EXCEPT ![s] = "known"]
    /\ UNCHANGED <<isMember, mayView, walk, joinsUser, rejoined, changes>> /\ UNCHANGED roomSets

ReadMemberships(s) ==
    /\ link[s] = "known"
    /\ link' = [link EXCEPT ![s] = IF MemberOf(s) THEN "member" ELSE "stranger"]
    /\ UNCHANGED <<isMember, mayView, walk, joinsUser, rejoined, changes>> /\ UNCHANGED roomSets

JoinServerRooms(s) ==
    /\ link[s] \in {"member", "stranger"}
    /\ link' = [link EXCEPT ![s] = "ready"]
    /\ inServer' = IF link[s] = "member" THEN inServer \cup {s} ELSE inServer
    /\ lateServer' = IF link[s] = "member" /\ ~MemberOf(s) THEN lateServer \cup {s} ELSE lateServer
    /\ UNCHANGED <<isMember, mayView, inChannel, subscribing, walk, joinsUser, lateChannel,
                   rejoined, changes>>

Hangup(s) ==
    /\ link[s] # "gone"
    /\ link' = [link EXCEPT ![s] = "gone"]
    /\ inServer' = inServer \ {s} /\ inChannel' = inChannel \ {s}
    /\ subscribing' = subscribing \ {s}
    /\ lateServer' = lateServer \ {s} /\ lateChannel' = lateChannel \ {s}
    /\ UNCHANGED <<isMember, mayView, walk, joinsUser, rejoined, changes>>

SubscribeChecks(s) ==
    /\ link[s] = "ready" /\ s \notin subscribing /\ MayViewChannel(s)
    /\ subscribing' = subscribing \cup {s}
    /\ UNCHANGED <<isMember, mayView, link, inServer, inChannel, walk, joinsUser, lateServer,
                   lateChannel, rejoined, changes>>

\* After the checks of the other channels it asked for.
SubscribeJoins(s) ==
    /\ s \in subscribing
    /\ subscribing' = subscribing \ {s}
    /\ inChannel' = inChannel \cup {s}
    /\ lateChannel' = IF MayViewChannel(s) THEN lateChannel ELSE lateChannel \cup {s}
    /\ UNCHANGED <<isMember, mayView, link, inServer, walk, joinsUser, lateServer, rejoined, changes>>

Unsubscribe(s) ==
    /\ s \in inChannel
    /\ inChannel' = inChannel \ {s} /\ lateChannel' = lateChannel \ {s}
    /\ UNCHANGED <<isMember, mayView, link, inServer, subscribing, walk, joinsUser, lateServer,
                   rejoined, changes>>

------------------------------------------------------------
(* Changes of access, and the walks they start                             *)

Starts(kind, u) ==
    \E w \in Walk :
        /\ walk[w].kind = "none"
        /\ walk' = [walk EXCEPT ![w] = [NoWalk EXCEPT !.kind = kind, !.user = u]]

Evicting(u) == \E w \in Walk : walk[w].kind = "evict" /\ walk[w].user = u

Counted == changes < MaxChanges /\ changes' = changes + 1

\* leaveServer, removeMember, banMember and the server's deletion.
LoseMembership(u) ==
    /\ isMember[u] /\ Counted
    /\ Starts("evict", u)
    /\ isMember' = [isMember EXCEPT ![u] = FALSE]
    /\ UNCHANGED <<mayView, link, joinsUser, rejoined>> /\ UNCHANGED roomSets

AcceptInvite(u) ==
    /\ ~isMember[u] /\ Counted
    /\ isMember' = [isMember EXCEPT ![u] = TRUE]
    /\ joinsUser' = joinsUser \cup {u}
    /\ rejoined' = IF Evicting(u) THEN rejoined \cup {u} ELSE rejoined
    /\ UNCHANGED <<mayView, link, walk>> /\ UNCHANGED roomSets

\* A socket that is still connecting is in the gateway as well.
Connected(s) == link[s] # "gone"

\* joinUserToServer reads the membership and joins what is connected.
JoinUserToServer(u) ==
    LET joining == {s \in RoomSocket : UserOfSocket[s] = u /\ Connected(s)} IN
    /\ u \in joinsUser
    /\ joinsUser' = joinsUser \ {u}
    /\ inServer' = IF isMember[u] THEN inServer \cup joining ELSE inServer
    /\ UNCHANGED <<isMember, mayView, link, inChannel, subscribing, walk, lateServer, lateChannel,
                   rejoined, changes>>

\* Roles or overwrites change: emitChannelPermissionsChanged.
ChangePermissions(u) ==
    /\ Counted
    /\ Starts("reconcile", NoWalkUser)
    /\ mayView' = [mayView EXCEPT ![u] = ~@]
    /\ UNCHANGED <<isMember, link, joinsUser, rejoined>> /\ UNCHANGED roomSets

\* The map of sockets is iterated live: one that connects meanwhile is visited.
Unvisited(w) == {s \in RoomSocket \ walk[w].seen : Connected(s)}

\* Plausible bug: only the room of the server is left.
LeavesServerOnly(s) == inChannel

LeavesChannelToo(s) == inChannel \ {s}

EvictVisits(w, s) ==
    /\ walk[w].kind = "evict" /\ s \in Unvisited(w)
    /\ walk' = [walk EXCEPT ![w].seen = @ \cup {s}]
    /\ IF UserOfSocket[s] = walk[w].user
       THEN /\ inServer' = inServer \ {s} /\ inChannel' = LeavesChannelToo(s)
            /\ lateServer' = lateServer \ {s} /\ lateChannel' = lateChannel \cap inChannel'
       ELSE UNCHANGED <<inServer, inChannel, lateServer, lateChannel>>
    /\ UNCHANGED <<isMember, mayView, link, subscribing, joinsUser, rejoined, changes>>

\* A socket that is not in the room is passed, one that is has its permission read.
ReconcileVisits(w, s) ==
    /\ walk[w].kind = "reconcile" /\ walk[w].at = NoWalkSocket /\ s \in Unvisited(w)
    /\ walk' = [walk EXCEPT ![w].seen = @ \cup {s},
           ![w].at = IF s \in inChannel /\ ~MayViewChannel(s) THEN s ELSE NoWalkSocket]
    /\ UNCHANGED <<isMember, mayView, link, joinsUser, rejoined, changes>> /\ UNCHANGED roomSets

ReconcileLeaves(w) ==
    /\ walk[w].at # NoWalkSocket
    /\ walk' = [walk EXCEPT ![w].at = NoWalkSocket]
    /\ inChannel' = inChannel \ {walk[w].at} /\ lateChannel' = lateChannel \ {walk[w].at}
    /\ UNCHANGED <<isMember, mayView, link, inServer, subscribing, joinsUser, lateServer,
                   rejoined, changes>>

WalkEnds(w) ==
    /\ walk[w].kind # "none" /\ walk[w].at = NoWalkSocket /\ Unvisited(w) = {}
    /\ walk' = [walk EXCEPT ![w] = NoWalk]
    /\ UNCHANGED <<isMember, mayView, link, joinsUser, rejoined, changes>> /\ UNCHANGED roomSets

ChannelRoomsNext ==
    \/ \E s \in RoomSocket :
           \/ Identify(s) \/ ReadMemberships(s) \/ JoinServerRooms(s) \/ Hangup(s)
           \/ SubscribeChecks(s) \/ SubscribeJoins(s) \/ Unsubscribe(s)
    \/ \E u \in RoomUser :
           LoseMembership(u) \/ AcceptInvite(u) \/ JoinUserToServer(u) \/ ChangePermissions(u)
    \/ \E w \in Walk :
           \/ \E s \in RoomSocket : EvictVisits(w, s) \/ ReconcileVisits(w, s)
           \/ ReconcileLeaves(w) \/ WalkEnds(w)

ChannelRoomsSpec == ChannelRoomsInit /\ [][ChannelRoomsNext]_roomVars

------------------------------------------------------------
(* Properties                                                              *)

WalksDone == \A w \in Walk : walk[w].kind = "none"

\* Once the walks are done, nobody hears a channel or a server it has lost, however
\* its sockets connected, subscribed and were passed meanwhile: save a socket whose
\* connection or subscription had passed its check before and joined after.
NobodyOverhears ==
    WalksDone =>
        /\ \A s \in inChannel \ lateChannel : MayViewChannel(s)
        /\ \A s \in inServer \ lateServer : MemberOf(s)

\* ... and every member that has not been readmitted in the middle of its own
\* eviction hears its server on each of its sockets.
MembersHearTheirServer ==
    WalksDone =>
        \A s \in RoomSocket :
            link[s] = "ready" /\ MemberOf(s) /\ UserOfSocket[s] \notin joinsUser \cup rejoined
                => s \in inServer
=============================================================================
