----------------------------- MODULE VoiceRooms -----------------------------
(***************************************************************************)
(* Voice membership: VoiceService's Redis keys, the voice handlers of      *)
(* WsGateway, its permission reconciliation and eviction, and the          *)
(* moderation calls of ServerService that reach into voice.                *)
(*                                                                         *)
(* A handler is a task: it runs to its next await in one step, and every   *)
(* Redis command or database read it awaits is a step of its own, at which *)
(* the other tasks may have moved. Broadcasts, and the screen-share keys   *)
(* the same handlers also clean up, are left out.                          *)
(***************************************************************************)
EXTENDS Naturals, FiniteSets

CONSTANTS
    User, Socket, Server, Channel,
    ServerOf,    \* the server a voice channel belongs to
    Task,        \* handlers in flight at once
    Owner,       \* the user a socket authenticated as
    Moderated,   \* <<server, user>> whom moderators mute, kick or overwrite
    Sends,       \* the <<packet, channel>> each socket may send
    Capacity,    \* MAX_USERS_PER_CHANNEL
    NoUser, NoSocket, NoServer, NoChannel

ASSUME VoiceAssumption ==
    /\ Owner \in [Socket -> User]
    /\ ServerOf \in [Channel -> Server]
    /\ Moderated \subseteq Server \X User
    /\ Sends \in [Socket -> SUBSET ({"join", "leave", "mute", "deafen"} \X Channel)]
    /\ Capacity \in Nat \ {0}
    /\ NoUser \notin User /\ NoSocket \notin Socket
    /\ NoServer \notin Server /\ NoChannel \notin Channel

VARIABLES
    state,         \* voice:{channel}:{user}, the JSON entry
    members,       \* voice:channel:{channel}:members
    perm,          \* what PermissionService answers: CONNECT, SPEAK
    muted,         \* <<server, user>> whose Member row has isMuted
    up,            \* connected sockets
    voiceChannel,  \* client.voiceChannel
    rooms,         \* voice rooms a socket is in
    task,          \* the handlers in flight
    \* history, read by properties only
    raced,         \* users for whom two handlers, or two sockets, met
    crowded        \* channels for which two joins met after their counts

redisVars == <<state, members>>
dbVars == <<perm, muted>>
socketVars == <<up, voiceChannel, rooms>>
vars == <<state, members, perm, muted, up, voiceChannel, rooms, task,
          raced, crowded>>

Bits == {"connect", "speak"}

NoEntry == [in |-> FALSE, isMuted |-> FALSE, isDeafened |-> FALSE]
Entry == [in : BOOLEAN, isMuted : BOOLEAN, isDeafened : BOOLEAN]

\* pc names the await a handler is suspended in: k and u are its socket and
\* user, s and c the server and channel it was called for, at the channel its
\* leave or update works on, val the flag it will write, got the entry and keys
\* the channels it read, seen the sockets its walk has visited.
TaskRecord ==
    [pc   : {"idle", "validate", "connect", "count", "canSpeak", "put", "add", "joined",
             "check", "muteSpeak", "muteMember", "get", "set",
             "del", "rem", "left", "dropped", "keys", "find", "loop", "perms", "sweep"},
     op   : {"none", "join", "leave", "mute", "deafen", "drop", "modMute",
             "permission", "kick", "sweep"},
     k    : Socket \cup {NoSocket},
     u    : User \cup {NoUser},
     s    : Server \cup {NoServer},
     c    : Channel \cup {NoChannel},
     at   : Channel \cup {NoChannel},
     val  : BOOLEAN,
     got  : Entry,
     keys : SUBSET Channel,
     seen : SUBSET Socket]

Idle == [pc |-> "idle", op |-> "none", k |-> NoSocket, u |-> NoUser,
         s |-> NoServer, c |-> NoChannel, at |-> NoChannel, val |-> FALSE,
         got |-> NoEntry, keys |-> {}, seen |-> {}]

VoiceTypeOK ==
    /\ state \in [Channel -> [User -> Entry]]
    /\ members \in [Channel -> SUBSET User]
    /\ perm \in [User -> [Channel -> SUBSET Bits]]
    /\ muted \subseteq Server \X User
    /\ up \subseteq Socket
    /\ voiceChannel \in [Socket -> Channel \cup {NoChannel}]
    /\ rooms \in [Socket -> SUBSET Channel]
    /\ task \in [Task -> TaskRecord]
    /\ raced \subseteq User
    /\ crowded \subseteq Channel

Init ==
    /\ state = [c \in Channel |-> [u \in User |-> NoEntry]]
    /\ members = [c \in Channel |-> {}]
    /\ perm = [u \in User |-> [c \in Channel |-> Bits]]
    /\ muted = {}
    /\ up = {}
    /\ voiceChannel = [k \in Socket |-> NoChannel]
    /\ rooms = [k \in Socket |-> {}]
    /\ task = [t \in Task |-> Idle]
    /\ raced = {}
    /\ crowded = {}

------------------------------------------------------------
(* History. A handler works on a user from the step that first looks at    *)
(* that user's socket or state until it is done with it.                   *)

Waiting == {"idle", "dropped", "keys", "loop", "sweep"}
WorksOn(tasks, t, u) == tasks[t].pc \notin Waiting /\ tasks[t].u = u

Collisions(tasks) ==
    {u \in User : \E a, b \in Task : a # b /\ WorksOn(tasks, a, u) /\ WorksOn(tasks, b, u)}

Busy(u) == \E t \in Task : WorksOn(task, t, u)

\* Task t goes on as `next`; `met` are users whom this step alone finds busy.
Proceed(t, next, met) ==
    /\ task' = [task EXCEPT ![t] = next]
    /\ raced' = raced \cup Collisions(task') \cup met

InVoiceElsewhere(k) ==
    \E o \in Socket \ {k} : Owner[o] = Owner[k] /\ voiceChannel[o] # NoChannel

\* What a handler called on socket k meets when it starts.
Siblings(k) == IF InVoiceElsewhere(k) THEN {Owner[k]} ELSE {}

Starts(t, op, k, c) == [Idle EXCEPT !.op = op, !.k = k, !.u = Owner[k], !.c = c]

------------------------------------------------------------
(* voice:join                                                              *)

ServerMuted(u, c) == <<ServerOf[c], u>> \in muted

\* handleVoiceJoin leaves the channel the socket is in before it validates.
Join(t, k, c) ==
    /\ task[t].pc = "idle"
    /\ k \in up /\ <<"join", c>> \in Sends[k]
    /\ LET q == Starts(t, "join", k, c) IN
       Proceed(t, IF voiceChannel[k] # NoChannel
                  THEN [q EXCEPT !.pc = "del", !.at = voiceChannel[k]]
                  ELSE [q EXCEPT !.pc = "validate"], Siblings(k))
    /\ UNCHANGED <<redisVars, dbVars, socketVars, crowded>>

\* validateJoin reads the Member row. Without one, or with a banned one, the user
\* has no permission, and the join is refused here or at the next await.
JoinMember(t) ==
    /\ task[t].pc = "validate"
    /\ LET q == task[t] IN
       \/ Proceed(t, [q EXCEPT !.pc = "connect", !.val = ServerMuted(q.u, q.c)], {})
       \/ perm[q.u][q.c] = {} /\ Proceed(t, Idle, {})
    /\ UNCHANGED <<redisVars, dbVars, socketVars, crowded>>

JoinConnect(t) ==
    /\ task[t].pc = "connect"
    /\ Proceed(t, IF "connect" \in perm[task[t].u][task[t].c]
                  THEN [task[t] EXCEPT !.pc = "count"] ELSE Idle, {})
    /\ UNCHANGED <<redisVars, dbVars, socketVars, crowded>>

\* Faulty variant: an off-by-one in the comparison.
FullAboveCapacity(c) == Cardinality(members[c]) > Capacity

ChannelFull(c) == Cardinality(members[c]) >= Capacity

Counted(t, c) ==
    /\ task[t].op = "join" /\ task[t].c = c
    /\ task[t].pc \in {"canSpeak", "put", "add"}

JoinCount(t) ==
    /\ task[t].pc = "count"
    /\ LET c == task[t].c IN
       IF ChannelFull(c)
       THEN Proceed(t, Idle, {}) /\ UNCHANGED crowded
       ELSE /\ Proceed(t, [task[t] EXCEPT !.pc = "canSpeak"], {})
            /\ crowded' = crowded \cup {d \in {c} : \E o \in Task : Counted(o, c)}
    /\ UNCHANGED <<redisVars, dbVars, socketVars>>

\* Faulty variant: only the server mute counts.
MutedByServerOnly(u, c, serverMuted) == serverMuted

\* isMuted: serverMuted || !canSpeak
JoinsMuted(u, c, serverMuted) == serverMuted \/ "speak" \notin perm[u][c]

JoinCanSpeak(t) ==
    /\ task[t].pc = "canSpeak"
    /\ Proceed(t, [task[t] EXCEPT !.pc = "put",
                     !.val = JoinsMuted(task[t].u, task[t].c, task[t].val)], {})
    /\ UNCHANGED <<redisVars, dbVars, socketVars, crowded>>

JoinPut(t) ==
    /\ task[t].pc = "put"
    /\ state' = [state EXCEPT ![task[t].c][task[t].u] =
                   [in |-> TRUE, isMuted |-> task[t].val, isDeafened |-> FALSE]]
    /\ Proceed(t, [task[t] EXCEPT !.pc = "add"], {})
    /\ UNCHANGED <<members, dbVars, socketVars, crowded>>

JoinAdd(t) ==
    /\ task[t].pc = "add"
    /\ members' = [members EXCEPT ![task[t].c] = @ \cup {task[t].u}]
    /\ Proceed(t, [task[t] EXCEPT !.pc = "joined"], {})
    /\ UNCHANGED <<state, dbVars, socketVars, crowded>>

JoinDone(t) ==
    /\ task[t].pc = "joined"
    /\ voiceChannel' = [voiceChannel EXCEPT ![task[t].k] = task[t].c]
    /\ rooms' = [rooms EXCEPT ![task[t].k] = @ \cup {task[t].c}]
    /\ Proceed(t, Idle, {})
    /\ UNCHANGED <<redisVars, dbVars, up, crowded>>

------------------------------------------------------------
(* VoiceService.leave, and what each of its callers does afterwards.       *)

\* handleVoiceLeave takes any channel id, whatever channel the socket is in.
Leave(t, k, c) ==
    /\ task[t].pc = "idle"
    /\ k \in up /\ <<"leave", c>> \in Sends[k]
    /\ Proceed(t, [Starts(t, "leave", k, c) EXCEPT !.pc = "del", !.at = c], Siblings(k))
    /\ UNCHANGED <<redisVars, dbVars, socketVars, crowded>>

LeaveDel(t) ==
    /\ task[t].pc = "del"
    /\ state' = [state EXCEPT ![task[t].at][task[t].u] = NoEntry]
    /\ Proceed(t, [task[t] EXCEPT !.pc = "rem"], {})
    /\ UNCHANGED <<members, dbVars, socketVars, crowded>>

LeaveRem(t) ==
    /\ task[t].pc = "rem"
    /\ members' = [members EXCEPT ![task[t].at] = @ \ {task[t].u}]
    /\ Proceed(t, [task[t] EXCEPT !.pc = "left"], {})
    /\ UNCHANGED <<state, dbVars, socketVars, crowded>>

\* The next socket of a reconciliation or an eviction.
NextSocket(q) ==
    [Idle EXCEPT !.pc = "loop", !.op = q.op, !.s = q.s, !.c = q.c,
                 !.u = IF q.op = "kick" THEN q.u ELSE NoUser,
                 !.seen = q.seen \cup {q.k}]

AfterLeave(q) ==
    CASE q.op = "join" -> [q EXCEPT !.pc = "validate", !.at = NoChannel]
      [] q.op \in {"permission", "kick"} -> NextSocket(q)
      [] OTHER -> Idle

\* Faulty variant: the Socket.IO room is not left.
StaysInRoom(q) == rooms

LeavesRoom(q) == [rooms EXCEPT ![q.k] = @ \ {q.at}]

\* voice:leave clears voiceChannel only if it still names the channel left;
\* join, disconnect and eviction clear it whatever it names by then.
LeaveDone(t) ==
    /\ task[t].pc = "left"
    /\ LET q == task[t] IN
       /\ IF q.op = "sweep"
          THEN UNCHANGED <<voiceChannel, rooms>>
          ELSE /\ rooms' = LeavesRoom(q)
               /\ voiceChannel' = IF q.op = "leave" /\ voiceChannel[q.k] # q.at
                                  THEN voiceChannel
                                  ELSE [voiceChannel EXCEPT ![q.k] = NoChannel]
       /\ Proceed(t, AfterLeave(q), {})
    /\ UNCHANGED <<redisVars, dbVars, up, crowded>>

------------------------------------------------------------
(* voice:mute, voice:deafen: check, then read-modify-write of the entry.   *)

SetFlag(t, op, k, c, val) ==
    /\ task[t].pc = "idle"
    /\ k \in up /\ <<op, c>> \in Sends[k]
    /\ voiceChannel[k] = c
    /\ Proceed(t, [Starts(t, op, k, c) EXCEPT !.pc = "check", !.at = c, !.val = val],
               Siblings(k))
    /\ UNCHANGED <<redisVars, dbVars, socketVars, crowded>>

FlagCheck(t) ==
    /\ task[t].pc = "check"
    /\ LET q == task[t] IN
       Proceed(t, CASE ~state[q.at][q.u].in -> Idle
                    [] state[q.at][q.u].in /\ q.op = "mute" /\ ~q.val ->
                         [q EXCEPT !.pc = "muteSpeak"]
                    [] OTHER -> [q EXCEPT !.pc = "get"], {})
    /\ UNCHANGED <<redisVars, dbVars, socketVars, crowded>>

\* Unmuting without SPEAK writes isMuted = true instead.
UnmuteCheckSpeak(t) ==
    /\ task[t].pc = "muteSpeak"
    /\ LET q == task[t] IN
       Proceed(t, IF "speak" \in perm[q.u][q.c]
                  THEN [q EXCEPT !.pc = "muteMember"]
                  ELSE [q EXCEPT !.pc = "get", !.val = TRUE], {})
    /\ UNCHANGED <<redisVars, dbVars, socketVars, crowded>>

\* Unmuting while server-muted writes isMuted = true instead.
UnmuteCheckMember(t) ==
    /\ task[t].pc = "muteMember"
    /\ Proceed(t, [task[t] EXCEPT !.pc = "get", !.val = ServerMuted(task[t].u, task[t].c)], {})
    /\ UNCHANGED <<redisVars, dbVars, socketVars, crowded>>

AfterUpdate(q) == IF q.op = "permission" THEN NextSocket(q) ELSE Idle

UpdateGet(t) ==
    /\ task[t].pc = "get"
    /\ LET q == task[t]
           e == state[q.at][q.u]
       IN Proceed(t, IF e.in THEN [q EXCEPT !.pc = "set", !.got = e] ELSE AfterUpdate(q), {})
    /\ UNCHANGED <<redisVars, dbVars, socketVars, crowded>>

Updated(q) ==
    IF q.op = "deafen" THEN [q.got EXCEPT !.isDeafened = q.val]
                       ELSE [q.got EXCEPT !.isMuted = q.val]

UpdateSet(t) ==
    /\ task[t].pc = "set"
    /\ state' = [state EXCEPT ![task[t].at][task[t].u] = Updated(task[t])]
    /\ Proceed(t, AfterUpdate(task[t]), {})
    /\ UNCHANGED <<members, dbVars, socketVars, crowded>>

------------------------------------------------------------
(* Connections.                                                            *)

\* A new socket; a name is reused once nothing refers to the old socket.
Connect(k) ==
    /\ k \notin up
    /\ \A t \in Task : task[t].k # k
    /\ up' = up \cup {k}
    /\ voiceChannel' = [voiceChannel EXCEPT ![k] = NoChannel]
    /\ rooms' = [rooms EXCEPT ![k] = {}]
    /\ task' = [t \in Task |-> [task[t] EXCEPT !.seen = @ \ {k}]]
    /\ UNCHANGED <<redisVars, dbVars, raced, crowded>>

\* The transport goes: Socket.IO empties the rooms and calls handleDisconnect,
\* which awaits its screen-share cleanup first.
Drop(t, k) ==
    /\ task[t].pc = "idle"
    /\ k \in up
    /\ up' = up \ {k}
    /\ rooms' = [rooms EXCEPT ![k] = {}]
    /\ Proceed(t, [Starts(t, "drop", k, NoChannel) EXCEPT !.pc = "dropped"], {})
    /\ UNCHANGED <<redisVars, dbVars, voiceChannel, crowded>>

\* Faulty variant: any channel the user has an entry in, whichever tab joined it.
ChannelOfUser(k) ==
    IF \E c \in Channel : state[c][Owner[k]].in
    THEN CHOOSE c \in Channel : state[c][Owner[k]].in
    ELSE NoChannel

\* Only the socket that joined voice leaves it.
ChannelToLeave(k) == voiceChannel[k]

DropLeaves(t) ==
    /\ task[t].pc = "dropped"
    /\ LET q == task[t]
           c == ChannelToLeave(q.k)
           joining == \E o \in Task \ {t} : task[o].k = q.k
       IN  Proceed(t, IF c # NoChannel THEN [q EXCEPT !.pc = "del", !.at = c] ELSE Idle,
                   IF joining THEN {q.u} ELSE {})
    /\ UNCHANGED <<redisVars, dbVars, socketVars, crowded>>

------------------------------------------------------------
(* Moderation.                                                             *)

\* muteMember: the Member row first, then the voice state, if there is one.
ModMute(t, s, u) ==
    /\ task[t].pc = "idle"
    /\ <<s, u>> \in Moderated
    /\ muted' = muted \cup {<<s, u>>}
    /\ Proceed(t, [Idle EXCEPT !.pc = "keys", !.op = "modMute", !.u = u], {})
    /\ UNCHANGED <<redisVars, perm, socketVars, crowded>>

\* getVoiceStateByUserId: any key of the user, of whatever server.
HasEntry(u) == {c \in Channel : state[c][u].in}

ModMuteKeys(t) ==
    /\ task[t].pc = "keys"
    /\ Proceed(t, [task[t] EXCEPT !.pc = "find", !.keys = HasEntry(task[t].u)],
               IF Busy(task[t].u) THEN {task[t].u} ELSE {})
    /\ UNCHANGED <<redisVars, dbVars, socketVars, crowded>>

\* One GET; a key that is gone by now is skipped.
ModMuteFind(t) ==
    /\ task[t].pc = "find"
    /\ LET q == task[t] IN
       \/ q.keys = {} /\ Proceed(t, Idle, {})
       \/ \E c \in q.keys :
            Proceed(t, IF state[c][q.u].in
                       THEN [q EXCEPT !.pc = "get", !.at = c, !.val = TRUE, !.keys = {}]
                       ELSE [q EXCEPT !.keys = @ \ {c}], {})
    /\ UNCHANGED <<redisVars, dbVars, socketVars, crowded>>

\* unmuteMember changes the Member row and leaves the voice state alone.
ModUnmute(s, u) ==
    /\ <<s, u>> \in muted
    /\ muted' = muted \ {<<s, u>>}
    /\ UNCHANGED <<redisVars, perm, socketVars, task, raced, crowded>>

\* What a user may do in one voice channel changes, either way (an overwrite, a
\* role, membership regained), then reconcileChannelPermissions walks the
\* connected sockets.
ChangePermission(t, u, c, bits) ==
    /\ task[t].pc = "idle"
    /\ <<ServerOf[c], u>> \in Moderated
    /\ bits # perm[u][c]
    /\ perm' = [perm EXCEPT ![u][c] = bits]
    /\ Proceed(t, [Idle EXCEPT !.pc = "loop", !.op = "permission", !.c = c], {})
    /\ UNCHANGED <<redisVars, muted, socketVars, crowded>>

\* removeMember deletes the Member row, and a mute with it; banMember keeps the
\* row. Either way no permission is left, and evictUserFromServer walks the
\* connected sockets of the user.
Kick(t, s, u, deletes) ==
    /\ task[t].pc = "idle"
    /\ <<s, u>> \in Moderated
    /\ perm' = [perm EXCEPT ![u] = [c \in Channel |-> IF ServerOf[c] = s THEN {} ELSE @[c]]]
    /\ muted' = IF deletes THEN muted \ {<<s, u>>} ELSE muted
    /\ Proceed(t, [Idle EXCEPT !.pc = "loop", !.op = "kick", !.s = s, !.u = u], {})
    /\ UNCHANGED <<redisVars, socketVars, crowded>>

\* The sockets a walk has still to visit: the namespace's map is read live, so
\* it includes those that connected meanwhile.
Ahead(q) == {k \in up \ q.seen : q.op = "kick" => Owner[k] = q.u}

InServer(c, s) == c # NoChannel /\ ServerOf[c] = s

\* The synchronous look at one socket.
Visit(t, k) ==
    /\ task[t].pc = "loop"
    /\ k \in Ahead(task[t])
    /\ LET q == [task[t] EXCEPT !.k = k, !.u = Owner[k], !.at = voiceChannel[k]] IN
       Proceed(t, CASE q.op = "kick" /\ InServer(q.at, q.s) -> [q EXCEPT !.pc = "del"]
                    [] q.op = "permission" /\ q.at = q.c -> [q EXCEPT !.pc = "perms"]
                    [] OTHER -> NextSocket(q),
               IF Busy(Owner[k]) THEN {Owner[k]} ELSE {})
    /\ UNCHANGED <<redisVars, dbVars, socketVars, crowded>>

\* Faulty variant: any of the bits is enough.
SomePermission(u, c) == perm[u][c] # {}

CanRemain(u, c) == "connect" \in perm[u][c]

\* Evict without CONNECT, force isMuted without SPEAK, otherwise go on.
VisitDecides(t) ==
    /\ task[t].pc = "perms"
    /\ LET q == task[t] IN
       Proceed(t, CASE ~CanRemain(q.u, q.at) -> [q EXCEPT !.pc = "del"]
                    [] CanRemain(q.u, q.at) /\ "speak" \notin perm[q.u][q.at] ->
                         [q EXCEPT !.pc = "get", !.val = TRUE]
                    [] OTHER -> NextSocket(q), {})
    /\ UNCHANGED <<redisVars, dbVars, socketVars, crowded>>

\* After the last socket; a kick goes on to VoiceService.handleDisconnect.
WalkEnds(t) ==
    /\ task[t].pc = "loop"
    /\ Ahead(task[t]) = {}
    /\ Proceed(t, IF task[t].op = "kick"
                  THEN [Idle EXCEPT !.pc = "sweep", !.op = "sweep",
                                !.s = task[t].s, !.u = task[t].u]
                  ELSE Idle, {})
    /\ UNCHANGED <<redisVars, dbVars, socketVars, crowded>>

\* handleDisconnect(userId) leaves the first channel whose key it finds, of
\* whatever server. An entry found here is one that no eviction accounts for.
Sweep(t) ==
    /\ task[t].pc = "sweep"
    /\ LET q == task[t] IN
       \/ HasEntry(q.u) = {} /\ Proceed(t, Idle, IF Busy(q.u) THEN {q.u} ELSE {})
       \/ \E c \in HasEntry(q.u) : Proceed(t, [q EXCEPT !.pc = "del", !.at = c], {q.u})
    /\ UNCHANGED <<redisVars, dbVars, socketVars, crowded>>

\* The API process restarts: sockets and handlers are gone, Redis is not.
Restart ==
    /\ up # {} \/ \E t \in Task : task[t] # Idle
    /\ up' = {}
    /\ voiceChannel' = [k \in Socket |-> NoChannel]
    /\ rooms' = [k \in Socket |-> {}]
    /\ task' = [t \in Task |-> Idle]
    /\ raced' = raced \cup {u \in User : HasEntry(u) # {} \/ \E c \in Channel : u \in members[c]}
    /\ UNCHANGED <<redisVars, dbVars, crowded>>

TaskStep(t) ==
    \/ JoinMember(t) \/ JoinConnect(t) \/ JoinCount(t) \/ JoinCanSpeak(t)
    \/ JoinPut(t) \/ JoinAdd(t) \/ JoinDone(t)
    \/ LeaveDel(t) \/ LeaveRem(t) \/ LeaveDone(t)
    \/ FlagCheck(t) \/ UnmuteCheckSpeak(t) \/ UnmuteCheckMember(t)
    \/ UpdateGet(t) \/ UpdateSet(t)
    \/ DropLeaves(t) \/ ModMuteKeys(t) \/ ModMuteFind(t)
    \/ \E k \in Socket : Visit(t, k)
    \/ VisitDecides(t) \/ WalkEnds(t) \/ Sweep(t)

Request(t) ==
    \/ \E k \in Socket, c \in Channel :
          \/ Join(t, k, c)
          \/ Leave(t, k, c)
          \/ \E op \in {"mute", "deafen"}, val \in BOOLEAN : SetFlag(t, op, k, c, val)
    \/ \E k \in Socket : Drop(t, k)
    \/ \E u \in User :
          \/ \E s \in Server :
                ModMute(t, s, u) \/ \E deletes \in BOOLEAN : Kick(t, s, u, deletes)
          \/ \E c \in Channel, bits \in SUBSET Bits : ChangePermission(t, u, c, bits)

Serve ==
    \/ \E t \in Task : Request(t) \/ TaskStep(t)
    \/ \E k \in Socket : Connect(k)
    \/ \E s \in Server, u \in User : ModUnmute(s, u)

Next == Serve \/ Restart

Spec == Init /\ [][Next]_vars

\* One lifetime of the API process, for what a restart is known to break.
SpecOneLife == Init /\ [][Serve]_vars

------------------------------------------------------------
(* Properties. A user is settled when no handler is in flight and none of  *)
(* its handlers ever met another one, another tab of its own in voice, or  *)
(* an API restart. Then nothing but a wrong handler could leave its state  *)
(* wrong, after any sequence of calls, disconnects, mutes and kicks.       *)

Quiet == \A t \in Task : task[t] = Idle
Settled(u) == Quiet /\ u \notin raced

InVoice(u, c) == \E k \in up : Owner[k] = u /\ voiceChannel[k] = c

\* A settled user is a member of a channel, and has an entry there, exactly when
\* one of its connected sockets is in it: no ghost stays in the occupancy, and a
\* tab that never joined voice takes nobody out of it (handleDisconnect).
SettledMembership ==
    \A u \in User : Settled(u) =>
        \A c \in Channel :
            /\ u \in members[c] <=> state[c][u].in
            /\ u \in members[c] <=> InVoice(u, c)

\* A settled user is in no channel that it may no longer connect to, whichever
\* of eviction, kick and its own join came last.
SettledPermission ==
    \A u \in User, c \in Channel :
        (Settled(u) /\ u \in members[c]) => "connect" \in perm[u][c]

\* A settled user whom the server or the channel silences is muted in voice.
SettledMute ==
    \A u \in User, c \in Channel :
        (Settled(u) /\ state[c][u].in /\ (ServerMuted(u, c) \/ "speak" \notin perm[u][c]))
            => state[c][u].isMuted

\* The sockets of a settled user receive voice events of the channel they are
\* in, and of no other.
SettledRooms ==
    \A k \in up : Settled(Owner[k]) => rooms[k] = {voiceChannel[k]} \ {NoChannel}

\* A channel exceeds its capacity only through joins that were both between
\* their count and their SADD.
CapacityUnlessJoinsMeet ==
    \A c \in Channel : Cardinality(members[c]) > Capacity => c \in crowded

\* The strengthening VoiceRoomsProofs uses: a handler in flight has a user, a join
\* and a reconciliation have a channel, an update has the channel it works on, a
\* disconnect and a walk that looks at a socket have that socket; unless two joins
\* met in a channel, one join at most is past its count there, and the place it
\* counted is still free.
JoinPc == {"validate", "connect", "count", "canSpeak", "put", "add", "joined"}
UpdatePc == {"check", "muteSpeak", "muteMember", "get", "perms"}

Shaped(q) ==
    /\ q.pc \notin {"idle", "loop"} => q.u \in User
    /\ q.op = "kick" => q.u \in User
    /\ q.op \in {"join", "permission"} => q.c \in Channel
    /\ q.pc \in JoinPc => q.op = "join"
    /\ q.pc \in UpdatePc => q.at \in Channel
    /\ q.pc \in {"dropped", "perms"} => q.k \in Socket
    /\ q.pc # "loop" /\ q.op \in {"permission", "kick"} => q.k \in Socket

PlaceKept ==
    \A c \in Channel : c \notin crowded =>
        /\ \A t, o \in Task : Counted(t, c) /\ Counted(o, c) => t = o
        /\ \A t \in Task : Counted(t, c) => Cardinality(members[c]) < Capacity

VoiceIInv ==
    /\ VoiceTypeOK
    /\ \A t \in Task : Shaped(task[t])
    /\ \A c \in Channel : IsFiniteSet(members[c])
    /\ PlaceKept
    /\ CapacityUnlessJoinsMeet

\* docs/product/f6-voice-ux.md: "API disconnect cleanup is authoritative for
\* ephemeral server membership". When all is quiet, a user without a connected
\* socket is in no channel.
AbsentUsersAreNotMembers ==
    Quiet => \A u \in User : (\A k \in up : Owner[k] # u) =>
                \A c \in Channel : u \notin members[c]

\* ws.gateway.ts: "server-muted users cannot unmute themselves". Once the call
\* that muted a user is over, no voice:mute handler unmutes the user's entry.
ServerMutedCannotUnmute ==
    [][\A t \in Task :
         LET q == task[t] IN
         (/\ q.op = "mute" /\ q.pc = "set" /\ task'[t] # q /\ state' # state
          /\ ServerMuted(q.u, q.at)
          /\ \A o \in Task : task[o].op # "modMute")
            => state'[q.at][q.u].isMuted]_vars

\* docs/product/permissions-model.md: "Membership removal and hierarchy are
\* server-scoped". The clean-up that ends a kick takes the user out of no channel
\* of another server that one of the user's sockets is in.
KickStaysInItsServer ==
    [][\A t \in Task :
         (/\ task[t].pc = "sweep" /\ task'[t].pc = "del"
          /\ InVoice(task[t].u, task'[t].at))
            => ServerOf[task'[t].at] = task[t].s]_vars
=============================================================================
