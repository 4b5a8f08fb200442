-------------------------- MODULE VoiceSettledProofs --------------------------
(***************************************************************************)
(* Proofs that a settled user is where its sockets are, may be there, and  *)
(* is muted if it must be (the Settled properties of VoiceRooms).          *)
(*                                                                         *)
(* WhereIInv says what the one handler that works on a user has still to   *)
(* do to its keys and sockets; RulesIInv, what is on its way to a user who *)
(* is in a channel against the rules. Each is kept by every action: the    *)
(* lemma XDoes says what action X does, XWhere that it keeps WhereIInv and *)
(* XRules that it keeps RulesIInv.                                         *)
(***************************************************************************)
EXTENDS VoiceRoomsProofs

\* n is q, suspended at pc, with another channel, flag, entry and keys.
Like(n, q, pc, at, val, got, keys) ==
    /\ n \in TaskRecord
    /\ n.pc = pc /\ n.op = q.op /\ n.k = q.k /\ n.u = q.u /\ n.s = q.s /\ n.c = q.c
    /\ n.at = at /\ n.val = val /\ n.got = got /\ n.keys = keys /\ n.seen = q.seen

\* The records that the handlers go on as.
LEMMA LikePc ==
    ASSUME NEW q \in TaskRecord, NEW pc \in Awaits
    PROVE  Like([q EXCEPT !.pc = pc], q, pc, q.at, q.val, q.got, q.keys)
  BY PcTyped DEF Moves, Like, TaskRecord

\* ... with another channel,
LEMMA LikeAt ==
    ASSUME NEW q \in TaskRecord, NEW pc \in Awaits, NEW at \in Channel \cup {NoChannel}
    PROVE  Like([q EXCEPT !.pc = pc, !.at = at], q, pc, at, q.val, q.got, q.keys)
  BY MovedAt DEF Moves, Like, TaskRecord

\* ... with another flag,
LEMMA LikeVal ==
    ASSUME NEW q \in TaskRecord, NEW pc \in Awaits, NEW val \in BOOLEAN
    PROVE  Like([q EXCEPT !.pc = pc, !.val = val], q, pc, q.at, val, q.got, q.keys)
  BY MovedVal DEF Moves, Like, TaskRecord

\* ... with the entry it read,
LEMMA LikeGot ==
    ASSUME NEW q \in TaskRecord, NEW pc \in Awaits, NEW got \in Entry
    PROVE  Like([q EXCEPT !.pc = pc, !.got = got], q, pc, q.at, q.val, got, q.keys)
  BY MovedGot DEF Moves, Like, TaskRecord

\* ... with the keys it read.
LEMMA LikeKeys ==
    ASSUME NEW q \in TaskRecord, NEW pc \in Awaits, NEW keys \in SUBSET Channel
    PROVE  Like([q EXCEPT !.pc = pc, !.keys = keys], q, pc, q.at, q.val, q.got, keys)
  BY MovedKeys, ZenonT(60) DEF Moves, Like, TaskRecord

\* ... with another channel and flag.
LEMMA LikeAtVal ==
    ASSUME NEW q \in TaskRecord, NEW pc \in Awaits, NEW at \in Channel \cup {NoChannel},
           NEW val \in BOOLEAN
    PROVE  Like([q EXCEPT !.pc = pc, !.at = at, !.val = val], q, pc, at, val, q.got, q.keys)
<1> DEFINE r == [q EXCEPT !.pc = pc, !.at = at]
<1>1. Like(r, q, pc, at, q.val, q.got, q.keys) BY LikeAt
<1>2. [q EXCEPT !.pc = pc, !.at = at, !.val = val] = [r EXCEPT !.pc = pc, !.val = val] BY DEF TaskRecord
<1> HIDE DEF r
<1>3. r \in TaskRecord BY <1>1 DEF Like
<1>4. Like([r EXCEPT !.pc = pc, !.val = val], r, pc, r.at, val, r.got, r.keys) BY <1>3, LikeVal
<1> QED BY <1>1, <1>2, <1>4 DEF Like

\* The fields of a free handler, ...
LEMMA IdleFields ==
    /\ Idle.pc = "idle" /\ Idle.op = "none" /\ Idle.k = NoSocket /\ Idle.u = NoUser
    /\ Idle.s = NoServer /\ Idle.c = NoChannel /\ Idle.at = NoChannel
    /\ Idle.val = FALSE /\ Idle.got = NoEntry /\ Idle.keys = {} /\ Idle.seen = {}
  BY DEF Idle

\* ... of a walk between two sockets, ...
LEMMA NextFields ==
    ASSUME NEW q
    PROVE  /\ NextSocket(q).pc = "loop" /\ NextSocket(q).op = q.op
           /\ NextSocket(q).k = NoSocket
           /\ NextSocket(q).u = IF q.op = "kick" THEN q.u ELSE NoUser
           /\ NextSocket(q).s = q.s /\ NextSocket(q).c = q.c
           /\ NextSocket(q).at = NoChannel /\ NextSocket(q).val = FALSE
           /\ NextSocket(q).got = NoEntry /\ NextSocket(q).keys = {}
           /\ NextSocket(q).seen = q.seen \cup {q.k}
  BY DEF NextSocket, Idle

\* ... and of a handler that a packet calls.
LEMMA StartFields ==
    ASSUME NEW t, NEW op, NEW k, NEW c
    PROVE  /\ Starts(t, op, k, c).pc = "idle" /\ Starts(t, op, k, c).op = op
           /\ Starts(t, op, k, c).k = k /\ Starts(t, op, k, c).u = Owner[k]
           /\ Starts(t, op, k, c).s = NoServer /\ Starts(t, op, k, c).c = c
           /\ Starts(t, op, k, c).at = NoChannel /\ Starts(t, op, k, c).val = FALSE
           /\ Starts(t, op, k, c).got = NoEntry /\ Starts(t, op, k, c).keys = {}
           /\ Starts(t, op, k, c).seen = {}
  BY DEF Starts, Idle

------------------------------------------------------------
(* Where a user is: its channel's keys and its sockets agree, but for what  *)
(* the one handler that works on it has still to do.                        *)

LeavePc == {"del", "rem", "left"}
FlagPc == {"check", "muteSpeak", "muteMember"}
StillPc == FlagPc \cup {"get", "set", "find", "perms"}

Mine(u) == {k \in Socket : Owner[k] = u}
Works(q, u) == q.pc \notin Waiting /\ q.u = u

\* A handler that a socket called or a walk looks at works for its user.
Placed(q) ==
    /\ q.pc = "idle" => q = Idle
    /\ q.pc \in {"keys", "find"} => q.op = "modMute"
    /\ q.pc = "dropped" => q.op = "drop"
    /\ q.k # NoSocket => q.k \in Socket /\ q.u = Owner[q.k]
                         /\ q.pc \notin {"idle", "keys", "find", "loop", "sweep"}

HasTab(u, c) == \E k \in Mine(u) : voiceChannel[k] = c
Agree(u, c) == (u \in members[c] <=> HasTab(u, c)) /\ (state[c][u].in <=> HasTab(u, c))
Agrees(u) == \A c \in Channel : Agree(u, c)

\* The handler of a disconnect, before it has cleared client.voiceChannel.
Dropping(q, k) == q.k = k /\ (q.pc = "dropped" \/ (q.op = "drop" /\ q.pc \in LeavePc))

OneTalks(u) ==
    \A k, o \in Mine(u) : voiceChannel[k] # NoChannel /\ voiceChannel[o] # NoChannel => k = o
DropsCome(u) ==
    \A k \in Mine(u) : k \notin up /\ voiceChannel[k] # NoChannel =>
        \E t \in Task : Dropping(task[t], k)
RoomsFit(u) == \A k \in Mine(u) : k \in up => rooms[k] = {voiceChannel[k]} \ {NoChannel}

\* What holds while a join is under way, ...
JoinPhase(u, q) ==
    /\ q.op = "join" => /\ q.k # NoSocket
                        /\ q.k \in up \/ \E o \in Task : task[o].k = q.k /\ task[o].pc = "dropped"
    /\ q.pc \in JoinPc =>
        /\ \A k \in Mine(u) : voiceChannel[k] = NoChannel
        /\ \A c \in Channel : u \in members[c] <=> (c = q.c /\ q.pc = "joined")
        /\ \A c \in Channel : state[c][u].in <=> (c = q.c /\ q.pc \in {"add", "joined"})

\* ... a leave, ...
LeavePhase(u, q) ==
    q.pc \in LeavePc =>
        /\ q.op \in {"join", "leave", "drop", "permission", "kick"}
        /\ q.k # NoSocket /\ q.at \in Channel
        /\ \A k \in Mine(u) : k # q.k => voiceChannel[k] = NoChannel
        /\ q.op # "leave" => voiceChannel[q.k] = q.at
        /\ \A c \in Channel : c # q.at => Agree(u, c)
        /\ q.pc = "del" => Agree(u, q.at)
        /\ q.pc # "del" => ~state[q.at][u].in
        /\ q.pc = "rem" => (u \in members[q.at] <=> voiceChannel[q.k] = q.at)
        /\ q.pc = "left" => u \notin members[q.at]

\* ... and a handler that changes who is where not at all.
StillPhase(u, q) ==
    /\ q.pc \in StillPc => Agrees(u)
    /\ q.pc \in FlagPc => q.op \in {"mute", "deafen"}
    /\ q.pc \in {"muteSpeak", "muteMember"} => q.op = "mute" /\ q.val = FALSE
    /\ q.pc \in {"get", "set"} => q.op \in {"mute", "deafen", "modMute", "permission"}
    /\ q.pc \in {"get", "set"} /\ q.op \in {"modMute", "permission"} => q.val = TRUE
    /\ q.pc = "set" => q.at \in Channel /\ q.got = state[q.at][u] /\ q.got.in
    /\ q.pc = "find" => q.op = "modMute" /\ q.k = NoSocket
    /\ q.pc = "perms" => q.op = "permission"
    /\ q.op \in {"mute", "deafen", "permission"} =>
           q.k # NoSocket /\ voiceChannel[q.k] = q.at /\ q.c = q.at

Phase(u, q) == JoinPhase(u, q) /\ LeavePhase(u, q) /\ StillPhase(u, q)

OneWorker(u) == \A t, o \in Task : Works(task[t], u) /\ Works(task[o], u) => t = o
Unworked(u) == \A t \in Task : ~Works(task[t], u)

Whereabouts(u) ==
    u \notin raced =>
        /\ OneWorker(u) /\ OneTalks(u) /\ DropsCome(u) /\ RoomsFit(u)
        /\ Unworked(u) => Agrees(u)
        /\ \A t \in Task : Works(task[t], u) => Phase(u, task[t])

AllPlaced == \A t \in Task : Placed(task[t])
WhereIInv == AllPlaced /\ \A u \in User : Whereabouts(u)

\* What is known before each step.
Base == VoiceIInv /\ WhereIInv

------------------------------------------------------------
(* Steps, and whom they do not concern.                                     *)

\* Task t goes on as n, the others stay.
Steps(t, n) == task'[t] = n /\ \A o \in Task : o # t => task'[o] = task[o]

\* A handler that is not working on u, nor was called by one of its sockets.
Off(q, u) == q.u # u \/ q.pc \in {"idle", "loop", "sweep"}

\* The step leaves u's keys and sockets alone.
SameKeys(u) ==
    /\ \A c \in Channel : state'[c][u] = state[c][u]
    /\ \A c \in Channel : u \in members'[c] <=> u \in members[c]
SameTabs(u) ==
    \A k \in Mine(u) : /\ voiceChannel'[k] = voiceChannel[k]
                       /\ k \in up' <=> k \in up
                       /\ rooms'[k] = rooms[k]

\* What TLC's collision counter says of a user that is not raced after the step.
LEMMA ProceedSteps ==
    ASSUME VoiceIInv, NEW t \in Task, NEW n, NEW met, Proceed(t, n, met)
    PROVE  /\ Steps(t, n)
           /\ \A u \in User : u \notin raced' =>
                  u \notin raced /\ u \notin met /\ OneWorker(u)'
<1>1. Steps(t, n) BY DEF Proceed, Steps, VoiceIInv, VoiceTypeOK
<1>2. ASSUME NEW u \in User, u \notin raced'
      PROVE  u \notin raced /\ u \notin met /\ OneWorker(u)'
 <2>1. u \notin Collisions(task') /\ u \notin raced /\ u \notin met BY <1>2 DEF Proceed
 <2>2. \A a, b \in Task : ~(a # b /\ WorksOn(task', a, u) /\ WorksOn(task', b, u)) BY <2>1 DEF Collisions
 <2>3. \A a \in Task : Works(task[a], u)' <=> WorksOn(task', a, u) BY DEF Works, WorksOn
 <2> QED BY <2>1, <2>2, <2>3 DEF OneWorker
<1> QED BY <1>1, <1>2

\* Placed handlers that are off a user have none of its sockets.
LEMMA OffTabs ==
    ASSUME NEW u \in User, NEW q, Placed(q), Off(q, u), NEW k \in Mine(u)
    PROVE  q.k # k /\ ~Works(q, u)
<1>1. k # NoSocket /\ Owner[k] = u BY VoiceAssumption DEF Mine
<1>2. q.k # k BY <1>1 DEF Placed, Off
<1> QED BY <1>2 DEF Works, Off, Waiting

\* A handler off a user does not work on it.
LEMMA OffWorks ==
    ASSUME NEW u, NEW q, Off(q, u)
    PROVE  ~Works(q, u)
  BY DEF Works, Off, Waiting

\* Agreement is a matter of the keys and the sockets' channels.
LEMMA SameAgree ==
    ASSUME NEW u \in User, SameKeys(u), \A k \in Mine(u) : voiceChannel'[k] = voiceChannel[k],
           NEW c \in Channel
    PROVE  Agree(u, c)' <=> Agree(u, c)
<1>1. HasTab(u, c)' <=> HasTab(u, c) BY DEF HasTab, Mine
<1> QED BY <1>1 DEF Agree, SameKeys

\* A phase survives a step that leaves its user's keys and its sockets' channels
\* alone, and of a join also that its socket is connected or its end announced.
LEMMA PhaseKept ==
    ASSUME NEW u \in User, NEW q, Phase(u, q), SameKeys(u),
           \A k \in Mine(u) : voiceChannel'[k] = voiceChannel[k],
           q.k = NoSocket \/ q.k \in Mine(u),
           q.op = "join" =>
               q.k \in up' \/ \E o \in Task : task'[o].k = q.k /\ task'[o].pc = "dropped"
    PROVE  Phase(u, q)'
<1>1. \A c \in Channel : Agree(u, c)' <=> Agree(u, c) BY SameAgree
<1>2. Agrees(u)' <=> Agrees(u) BY <1>1 DEF Agrees
<1>3. \A c \in Channel : state'[c][u] = state[c][u] /\ (u \in members'[c] <=> u \in members[c]) BY DEF SameKeys
<1>4. JoinPhase(u, q)'
 <2>1. JoinPhase(u, q) BY DEF Phase
 <2> QED BY <1>3, <2>1 DEF JoinPhase, Mine
<1>5. LeavePhase(u, q)'
 <2>1. LeavePhase(u, q) BY DEF Phase
 <2>2. q.k # NoSocket => voiceChannel'[q.k] = voiceChannel[q.k] OBVIOUS
 <2> QED BY <1>1, <1>3, <2>1, <2>2 DEF LeavePhase, Mine
<1>6. StillPhase(u, q)'
 <2>1. StillPhase(u, q) BY DEF Phase
 <2>2. q.k # NoSocket => voiceChannel'[q.k] = voiceChannel[q.k] OBVIOUS
 <2>3. q.pc = "set" => state'[q.at][u] = state[q.at][u] BY <1>3, <2>1 DEF StillPhase
 <2> QED BY <1>2, <2>1, <2>2, <2>3 DEF StillPhase
<1> QED BY <1>4, <1>5, <1>6 DEF Phase

\* ... as it does a step that leaves the user alone, if the disconnects that its
\* socket awaits stay.
LEMMA SamePhase ==
    ASSUME NEW u \in User, NEW q, Phase(u, q), SameKeys(u), SameTabs(u),
           q.k = NoSocket \/ q.k \in Mine(u),
           q.op = "join" => \A o \in Task :
               task[o].k = q.k /\ task[o].pc = "dropped" => task'[o] = task[o]
    PROVE  Phase(u, q)'
<1>1. q.op = "join" =>
          q.k \in up' \/ \E o \in Task : task'[o].k = q.k /\ task'[o].pc = "dropped"
  BY DEF Phase, JoinPhase, SameTabs
<1>2. \A k \in Mine(u) : voiceChannel'[k] = voiceChannel[k] BY DEF SameTabs
<1> QED BY <1>1, <1>2, PhaseKept

\* A disconnect has a socket.
LEMMA DroppedTab ==
    ASSUME VoiceIInv, NEW p \in Task, task[p].pc = "dropped"
    PROVE  task[p].k # NoSocket
  BY VoiceAssumption DEF VoiceIInv, Shaped

\* The socket of a placed handler that works on u is one of u's.
LEMMA WorkerTab ==
    ASSUME NEW u \in User, NEW q, Placed(q), Works(q, u)
    PROVE  q.k = NoSocket \/ q.k \in Mine(u)
  BY DEF Placed, Works, Mine

\* A step off u that leaves u's keys and sockets alone leaves u's whereabouts alone.
LEMMA OffWhere ==
    ASSUME Base, NEW u \in User, u \notin raced' => u \notin raced /\ OneWorker(u)',
           NEW t \in Task, NEW n, Steps(t, n), Off(task[t], u), Off(n, u),
           SameKeys(u), SameTabs(u)
    PROVE  Whereabouts(u)'
<1> SUFFICES ASSUME u \notin raced'
             PROVE  /\ OneWorker(u)' /\ OneTalks(u)' /\ DropsCome(u)' /\ RoomsFit(u)'
                    /\ Unworked(u)' => Agrees(u)'
                    /\ \A o \in Task : Works(task[o], u)' => Phase(u, task[o])'
  BY DEF Whereabouts
<1>1. /\ OneWorker(u)' /\ OneTalks(u) /\ DropsCome(u) /\ RoomsFit(u)
      /\ Unworked(u) => Agrees(u)
      /\ \A o \in Task : Works(task[o], u) => Phase(u, task[o])
  BY DEF Base, WhereIInv, Whereabouts
<1>2. \A k \in Mine(u) : /\ voiceChannel'[k] = voiceChannel[k]
                         /\ k \in up' <=> k \in up
                         /\ rooms'[k] = rooms[k]
  BY DEF SameTabs
<1>3. /\ ~Works(task[t], u) /\ ~Works(n, u) /\ task'[t] = n
      /\ \A k \in Mine(u) : task[t].k # k
      /\ \A o \in Task : o # t => task'[o] = task[o]
  BY OffTabs, OffWorks DEF Base, WhereIInv, AllPlaced, Steps
<1>4. OneTalks(u)' /\ RoomsFit(u)' BY <1>1, <1>2 DEF OneTalks, RoomsFit, Mine
<1>5. DropsCome(u)'
 <2> SUFFICES ASSUME NEW k \in Mine(u), k \notin up', voiceChannel'[k] # NoChannel
              PROVE  \E o \in Task : Dropping(task'[o], k)
   BY DEF DropsCome, Mine, Dropping
 <2>1. PICK o \in Task : Dropping(task[o], k) BY <1>1, <1>2 DEF DropsCome
 <2>2. o # t BY <1>3, <2>1 DEF Dropping
 <2> QED BY <1>3, <2>1, <2>2
<1>6. \A c \in Channel : Agree(u, c)' <=> Agree(u, c) BY <1>2, SameAgree
<1>7. \A o \in Task : Works(task[o], u)' <=> Works(task[o], u) BY <1>3 DEF Works
<1>8. Unworked(u)' => Agrees(u)' BY <1>1, <1>6, <1>7 DEF Unworked, Agrees
<1>9. ASSUME NEW o \in Task, Works(task[o], u)' PROVE Phase(u, task[o])'
 <2>1. o # t /\ task'[o] = task[o] /\ Works(task[o], u) BY <1>3, <1>7, <1>9 DEF Works
 <2>2. PICK q : q = task[o] OBVIOUS
 <2>3. q.k = NoSocket \/ q.k \in Mine(u) BY <2>1, <2>2, WorkerTab DEF Base, WhereIInv, AllPlaced
 <2>4. \A p \in Task : task[p].k = q.k /\ task[p].pc = "dropped" => task'[p] = task[p]
   BY <1>3, <2>3, DroppedTab DEF Base
 <2>5. Phase(u, q) BY <1>1, <2>1, <2>2
 <2>6. Phase(u, q)' BY <2>3, <2>4, <2>5, SamePhase
 <2> QED BY <2>1, <2>2, <2>6
<1> QED BY <1>1, <1>4, <1>5, <1>8, <1>9

\* The whereabouts of the user that the step's task works on before or after it.
LEMMA WorkerWhere ==
    ASSUME NEW u \in User, NEW t \in Task, NEW n, Steps(t, n),
           \A o \in Task : o # t => ~Works(task[o], u),
           OneWorker(u)', OneTalks(u)', DropsCome(u)', RoomsFit(u)',
           Works(n, u) => Phase(u, n)', ~Works(n, u) => Agrees(u)'
    PROVE  Whereabouts(u)'
<1>1. task'[t] = n /\ \A o \in Task : o # t => ~Works(task'[o], u) BY DEF Steps, Works
<1>2. Unworked(u)' => Agrees(u)' BY <1>1 DEF Unworked, Works
<1>3. ASSUME NEW o \in Task, Works(task[o], u)' PROVE Phase(u, task[o])'
 <2>1. o = t /\ Works(n, u) BY <1>1, <1>3 DEF Works
 <2>2. task'[o] = n BY <1>1, <2>1
 <2>3. Phase(u, n)' BY <2>1
 <2>4. JoinPhase(u, task[o])' BY <2>2, <2>3 DEF Phase, JoinPhase
 <2>5. LeavePhase(u, task[o])' BY <2>2, <2>3 DEF Phase, LeavePhase, Agree, HasTab
 <2>6. StillPhase(u, task[o])' BY <2>2, <2>3 DEF Phase, StillPhase
 <2> QED BY <2>4, <2>5, <2>6 DEF Phase
<1> QED BY <1>2, <1>3 DEF Whereabouts

\* A user whose worker t is, is nobody else's.
LEMMA Alone ==
    ASSUME Base, NEW u \in User, u \notin raced, NEW t \in Task, Works(task[t], u)
    PROVE  /\ \A o \in Task : o # t => ~Works(task[o], u)
           /\ OneTalks(u) /\ DropsCome(u) /\ RoomsFit(u) /\ Phase(u, task[t])
  BY DEF Base, WhereIInv, Whereabouts, OneWorker

\* A user whose worker t becomes had none.
LEMMA AloneAfter ==
    ASSUME Base, NEW u \in User, u \notin raced, OneWorker(u)', NEW t \in Task, NEW n,
           Steps(t, n), Works(n, u), ~Works(task[t], u)
    PROVE  /\ \A o \in Task : ~Works(task[o], u)
           /\ OneTalks(u) /\ DropsCome(u) /\ RoomsFit(u) /\ Agrees(u)
<1>1. \A o \in Task : o # t => ~Works(task[o], u) BY DEF OneWorker, Steps, Works
<1> QED BY <1>1 DEF Base, WhereIInv, Whereabouts, Unworked

\* ... when the step leaves its keys and sockets alone.
LEMMA TaskWhere ==
    ASSUME NEW u \in User, OneWorker(u)', NEW t \in Task, NEW n, Steps(t, n),
           OneTalks(u), DropsCome(u), RoomsFit(u), SameKeys(u), SameTabs(u),
           \A o \in Task : o # t => ~Works(task[o], u),
           \A k \in Mine(u) : Dropping(task[t], k) => Dropping(n, k) \/ voiceChannel[k] = NoChannel,
           n.k = NoSocket \/ n.k \in Mine(u),
           n.op = "join" => task[t].pc # "dropped",
           Works(n, u) => Phase(u, n), ~Works(n, u) => Agrees(u)
    PROVE  Whereabouts(u)'
<1>1. \A k \in Mine(u) : /\ voiceChannel'[k] = voiceChannel[k]
                         /\ k \in up' <=> k \in up
                         /\ rooms'[k] = rooms[k]
  BY DEF SameTabs
<1>2. OneTalks(u)' /\ RoomsFit(u)' BY <1>1 DEF OneTalks, RoomsFit, Mine
<1>3. DropsCome(u)'
 <2> SUFFICES ASSUME NEW k \in Mine(u), k \notin up', voiceChannel'[k] # NoChannel
              PROVE  \E o \in Task : Dropping(task'[o], k)
   BY DEF DropsCome, Mine, Dropping
 <2>1. PICK o \in Task : Dropping(task[o], k) BY <1>1 DEF DropsCome
 <2>2. CASE o = t
  <3>1. Dropping(n, k) BY <1>1, <2>1, <2>2
  <3> QED BY <3>1 DEF Steps
 <2>3. CASE o # t BY <2>1, <2>3 DEF Steps
 <2> QED BY <2>2, <2>3
<1>4. \A c \in Channel : Agree(u, c)' <=> Agree(u, c) BY <1>1, SameAgree
<1>5. Agrees(u)' <=> Agrees(u) BY <1>4 DEF Agrees
<1>6. n.op = "join" => \A o \in Task :
          task[o].k = n.k /\ task[o].pc = "dropped" => task'[o] = task[o]
  BY DEF Steps
<1>7. Phase(u, n) => Phase(u, n)' BY <1>6, SamePhase
<1> QED BY <1>2, <1>3, <1>5, <1>7, WorkerWhere

\* A step of one handler, which concerns the user v.
LEMMA StepWhere ==
    ASSUME Base, NEW t \in Task, NEW n, NEW met, Proceed(t, n, met), Placed(n),
           NEW v, Off(n, v) \/ n.u = v,
           \A u \in User : u # v => Off(task[t], u) /\ Off(n, u) /\ SameKeys(u) /\ SameTabs(u),
           (v \in User /\ v \notin raced') => Whereabouts(v)'
    PROVE  WhereIInv'
<1>1. /\ Steps(t, n)
      /\ \A u \in User : u \notin raced' =>
             u \notin raced /\ u \notin met /\ OneWorker(u)'
  BY ProceedSteps DEF Base
<1>2. AllPlaced' BY <1>1 DEF Steps, Base, WhereIInv, AllPlaced, Placed
<1>3. ASSUME NEW u \in User PROVE Whereabouts(u)'
 <2>1. CASE u = v BY <2>1 DEF Whereabouts
 <2>2. CASE u # v BY <1>1, <2>2, OffWhere
 <2> QED BY <2>1, <2>2
<1> QED BY <1>2, <1>3 DEF WhereIInv

\* A handler that goes on stays placed.
LEMMA PlacedLike ==
    ASSUME NEW q, Placed(q), NEW n, n.k = q.k, n.u = q.u,
           n.pc \notin {"idle", "keys", "find", "loop", "sweep", "dropped"}
    PROVE  Placed(n)
  BY DEF Placed

\* So is one that is free, or waits for its next socket.
LEMMA PlacedFree ==
    ASSUME NEW n, n.k = NoSocket, n.pc \in {"loop", "sweep"} \/ (n.pc = "idle" /\ n = Idle)
    PROVE  Placed(n)
  BY DEF Placed

\* What touches neither Redis nor a socket leaves every user where it is.
LEMMA OnlyTasks ==
    ASSUME UNCHANGED <<redisVars, socketVars>>, NEW u \in User
    PROVE  SameKeys(u) /\ SameTabs(u)
  BY DEF redisVars, socketVars, SameKeys, SameTabs

\* What is known of a task.
LEMMA TaskFacts ==
    ASSUME Base, NEW t \in Task
    PROVE  /\ task[t] \in TaskRecord /\ Shaped(task[t]) /\ Placed(task[t])
           /\ task[t].pc \notin {"idle", "loop"} => task[t].u \in User
           /\ task[t].val \in BOOLEAN /\ task[t].got \in Entry
           /\ task[t].keys \in SUBSET Channel
           /\ task[t].at \in Channel \cup {NoChannel}
<1>1. TasksOK BY DEF Base, VoiceIInv, TasksOK
<1> QED BY <1>1, TaskTyped DEF Base, WhereIInv, AllPlaced

\* A handler at work goes on or ends, and touches no key and no socket.
LEMMA WorkingStep ==
    ASSUME Base, NEW t \in Task, NEW q, q = task[t], NEW n, NEW met, Proceed(t, n, met),
           UNCHANGED <<redisVars, socketVars>>,
           q.pc \notin Waiting, Placed(n),
           n.u = q.u \/ n.pc \in {"idle", "loop", "sweep"},
           (q.u \notin raced /\ Phase(q.u, q)) =>
               q.op # "drop" /\ IF Works(n, q.u) THEN Phase(q.u, n) ELSE Agrees(q.u)
    PROVE  WhereIInv'
<1>1. q.u \in User /\ Placed(q) BY TaskFacts DEF Waiting
<1>2. /\ Steps(t, n)
      /\ \A u \in User : u \notin raced' =>
             u \notin raced /\ u \notin met /\ OneWorker(u)'
  BY ProceedSteps DEF Base
<1>3. \A u \in User : SameKeys(u) /\ SameTabs(u) BY OnlyTasks
<1>4. ASSUME q.u \notin raced' PROVE Whereabouts(q.u)'
 <2>1. q.u \notin raced /\ OneWorker(q.u)' /\ Works(task[t], q.u) BY <1>1, <1>2, <1>4 DEF Works
 <2>2. /\ \A o \in Task : o # t => ~Works(task[o], q.u)
       /\ OneTalks(q.u) /\ DropsCome(q.u) /\ RoomsFit(q.u) /\ Phase(q.u, task[t])
   BY <1>1, <2>1, Alone
 <2>3. \A k \in Mine(q.u) : ~Dropping(task[t], k) BY <2>1, <2>2 DEF Dropping, Waiting
 <2>4. n.k = NoSocket \/ n.k \in Mine(q.u) BY DEF Placed, Mine
 <2>5. task[t].pc # "dropped" BY DEF Waiting
 <2>6. /\ Works(n, q.u) => Phase(q.u, n)
       /\ ~Works(n, q.u) => Agrees(q.u)
   BY <2>1, <2>2
 <2> QED BY <1>1, <1>2, <1>3, <2>1, <2>2, <2>3, <2>4, <2>5, <2>6, TaskWhere
<1>5. \A u \in User : u # q.u => Off(task[t], u) /\ Off(n, u) BY DEF Off
<1>6. Off(n, q.u) \/ n.u = q.u BY DEF Off
<1> QED BY <1>3, <1>4, <1>5, <1>6, StepWhere

\* A handler begins to work on a user, and touches no key and no socket yet.
LEMMA StartingStep ==
    ASSUME Base, NEW t \in Task, NEW q, q = task[t], NEW n, NEW met, Proceed(t, n, met),
           UNCHANGED <<redisVars, socketVars>>,
           q.pc \in Waiting, n.pc \notin Waiting, n.u \in User, Placed(n),
           q.u = n.u \/ q.pc \in {"idle", "loop", "sweep"},
           q.pc = "dropped" => n.op # "join" /\ n.k = q.k /\ n.op = "drop" /\ n.pc \in LeavePc,
           (n.u \notin raced' /\ n.u \notin met /\ Agrees(n.u) /\ OneTalks(n.u)) => Phase(n.u, n)
    PROVE  WhereIInv'
<1>1. Placed(q) BY TaskFacts
<1>2. /\ Steps(t, n)
      /\ \A u \in User : u \notin raced' =>
             u \notin raced /\ u \notin met /\ OneWorker(u)'
  BY ProceedSteps DEF Base
<1>3. \A u \in User : SameKeys(u) /\ SameTabs(u) BY OnlyTasks
<1>4. ASSUME n.u \notin raced' PROVE Whereabouts(n.u)'
 <2>1. n.u \notin raced /\ n.u \notin met /\ OneWorker(n.u)' /\ Works(n, n.u) /\ ~Works(task[t], n.u)
   BY <1>2, <1>4 DEF Works
 <2>2. /\ \A o \in Task : ~Works(task[o], n.u)
       /\ OneTalks(n.u) /\ DropsCome(n.u) /\ RoomsFit(n.u) /\ Agrees(n.u)
   BY <1>2, <2>1, AloneAfter
 <2>3. \A k \in Mine(n.u) : Dropping(task[t], k) => Dropping(n, k) BY DEF Dropping, Waiting, LeavePc
 <2>4. n.k = NoSocket \/ n.k \in Mine(n.u) BY DEF Placed, Mine
 <2>5. n.op = "join" => task[t].pc # "dropped" OBVIOUS
 <2>6. Phase(n.u, n) BY <1>4, <2>1, <2>2
 <2> QED BY <1>2, <1>3, <2>1, <2>2, <2>3, <2>4, <2>5, <2>6, TaskWhere
<1>5. \A u \in User : u # n.u => Off(task[t], u) /\ Off(n, u) BY DEF Off
<1> QED BY <1>3, <1>4, <1>5, StepWhere

\* A handler that works on nobody goes on working on nobody.
LEMMA FreeStep ==
    ASSUME Base, NEW t \in Task, NEW n, NEW met, Proceed(t, n, met),
           UNCHANGED <<redisVars, socketVars>>, Placed(n),
           task[t].pc \in {"idle", "loop", "sweep"}, n.pc \in {"idle", "loop", "sweep"}
    PROVE  WhereIInv'
<1>1. \A u \in User : Off(task[t], u) /\ Off(n, u) BY DEF Off
<1>2. \A u \in User : SameKeys(u) /\ SameTabs(u) BY OnlyTasks
<1>3. Off(n, NoUser) BY DEF Off
<1> QED BY <1>1, <1>2, <1>3, VoiceAssumption, StepWhere

------------------------------------------------------------
(* Joins.                                                                   *)

\* A join that has not written yet goes on, ...
LEMMA JoinGoesOn ==
    ASSUME NEW u \in User, NEW q, Phase(u, q), q.op = "join",
           q.pc \in {"validate", "connect", "count", "canSpeak"},
           NEW n, n.op = q.op, n.k = q.k, n.c = q.c, n.pc \in {"connect", "count", "canSpeak", "put"}
    PROVE  Phase(u, n)
<1>1. JoinPhase(u, n) BY DEF Phase, JoinPhase, JoinPc
<1>2. LeavePhase(u, n) BY DEF LeavePhase, LeavePc
<1>3. StillPhase(u, n) BY DEF StillPhase, StillPc, FlagPc
<1> QED BY <1>1, <1>2, <1>3 DEF Phase

\* ... or leaves its user out of voice.
LEMMA JoinGivesUp ==
    ASSUME NEW u \in User, NEW q, Phase(u, q),
           q.pc \in {"validate", "connect", "count", "canSpeak", "put"}
    PROVE  Agrees(u)
<1>1. /\ \A k \in Mine(u) : voiceChannel[k] = NoChannel
      /\ \A c \in Channel : u \notin members[c] /\ ~state[c][u].in
  BY DEF Phase, JoinPhase, JoinPc
<1>2. \A c \in Channel : ~HasTab(u, c) BY <1>1, VoiceAssumption DEF HasTab
<1> QED BY <1>1, <1>2 DEF Agrees, Agree


\* A join learns whether the server mutes its user, ...
LEMMA JoinMemberDoes ==
    ASSUME Base, NEW t \in Task, JoinMember(t), NEW q, q = task[t]
    PROVE  /\ q.pc = "validate" /\ q.op = "join" /\ q.u \in User /\ Placed(q)
           /\ UNCHANGED <<redisVars, dbVars, socketVars>>
           /\ \E n : /\ Proceed(t, n, {})
                     /\ \/ Like(n, q, "connect", q.at, ServerMuted(q.u, q.c), q.got, q.keys)
                        \/ n = Idle
<1>1. /\ q.pc = "validate" /\ q \in TaskRecord /\ Placed(q) /\ q.u \in User /\ q.op = "join"
  BY TaskFacts DEF JoinMember, Shaped, JoinPc
<1> DEFINE b == ServerMuted(q.u, q.c)
<1>2. b \in BOOLEAN BY DEF ServerMuted
<1>3. Like([q EXCEPT !.pc = "connect", !.val = b], q, "connect", q.at, b, q.got, q.keys)
 <2> HIDE DEF b
 <2> QED BY <1>1, <1>2, LikeVal DEF Awaits
<1>4. Proceed(t, [q EXCEPT !.pc = "connect", !.val = b], {}) \/ Proceed(t, Idle, {}) BY DEF JoinMember
<1> QED BY <1>1, <1>3, <1>4 DEF JoinMember

\* ... and ends if the user may not connect.
LEMMA JoinConnectDoes ==
    ASSUME Base, NEW t \in Task, JoinConnect(t), NEW q, q = task[t]
    PROVE  /\ q.pc = "connect" /\ q.op = "join" /\ q.u \in User /\ Placed(q)
           /\ UNCHANGED <<redisVars, dbVars, socketVars>>
           /\ \E n : /\ Proceed(t, n, {})
                     /\ \/ /\ "connect" \in perm[q.u][q.c]
                           /\ Like(n, q, "count", q.at, q.val, q.got, q.keys)
                        \/ n = Idle
<1>1. /\ q.pc = "connect" /\ q \in TaskRecord /\ Placed(q) /\ q.u \in User /\ q.op = "join"
  BY TaskFacts DEF JoinConnect, Shaped, JoinPc
<1>2. Like([q EXCEPT !.pc = "count"], q, "count", q.at, q.val, q.got, q.keys) BY <1>1, LikePc DEF Awaits
<1>3. CASE "connect" \in perm[q.u][q.c] BY <1>1, <1>2, <1>3 DEF JoinConnect
<1>4. CASE "connect" \notin perm[q.u][q.c] BY <1>1, <1>4 DEF JoinConnect
<1> QED BY <1>3, <1>4

\* A full channel takes no more.
LEMMA JoinCountDoes ==
    ASSUME Base, NEW t \in Task, JoinCount(t), NEW q, q = task[t]
    PROVE  /\ q.pc = "count" /\ q.op = "join" /\ q.u \in User /\ Placed(q)
           /\ UNCHANGED <<redisVars, dbVars, socketVars>>
           /\ \E n : /\ Proceed(t, n, {})
                     /\ \/ Like(n, q, "canSpeak", q.at, q.val, q.got, q.keys)
                        \/ n = Idle
<1>1. /\ q.pc = "count" /\ q \in TaskRecord /\ Placed(q) /\ q.u \in User /\ q.op = "join"
  BY TaskFacts DEF JoinCount, Shaped, JoinPc
<1>2. Like([q EXCEPT !.pc = "canSpeak"], q, "canSpeak", q.at, q.val, q.got, q.keys) BY <1>1, LikePc DEF Awaits
<1>3. CASE ChannelFull(q.c) BY <1>1, <1>3 DEF JoinCount
<1>4. CASE ~ChannelFull(q.c) BY <1>1, <1>2, <1>4 DEF JoinCount
<1> QED BY <1>3, <1>4

\* The flag it will write.
LEMMA JoinCanSpeakDoes ==
    ASSUME Base, NEW t \in Task, JoinCanSpeak(t), NEW q, q = task[t]
    PROVE  /\ q.pc = "canSpeak" /\ q.op = "join" /\ q.u \in User /\ Placed(q)
           /\ UNCHANGED <<redisVars, dbVars, socketVars>>
           /\ \E n : /\ Proceed(t, n, {})
                     /\ Like(n, q, "put", q.at, JoinsMuted(q.u, q.c, q.val), q.got, q.keys)
<1>1. /\ q.pc = "canSpeak" /\ q \in TaskRecord /\ Placed(q) /\ q.u \in User /\ q.op = "join"
  BY TaskFacts DEF JoinCanSpeak, Shaped, JoinPc
<1> DEFINE b == JoinsMuted(q.u, q.c, q.val)
<1>2. b \in BOOLEAN BY TaskFacts DEF JoinsMuted
<1>3. Like([q EXCEPT !.pc = "put", !.val = b], q, "put", q.at, b, q.got, q.keys)
 <2> HIDE DEF b
 <2> QED BY <1>1, <1>2, LikeVal DEF Awaits
<1> QED BY <1>1, <1>3 DEF JoinCanSpeak

\* The steps of a join before it writes.
LEMMA JoinStepWhere ==
    ASSUME Base, NEW t \in Task, NEW q, q = task[t], q.op = "join",
           q.pc \in {"validate", "connect", "count", "canSpeak"},
           NEW n, Proceed(t, n, {}), UNCHANGED <<redisVars, socketVars>>,
           \/ n.op = q.op /\ n.k = q.k /\ n.u = q.u /\ n.c = q.c
              /\ n.pc \in {"connect", "count", "canSpeak", "put"}
           \/ n = Idle
    PROVE  WhereIInv'
<1>1. Placed(q) /\ q.u \in User BY TaskFacts
<1>2. CASE n = Idle
 <2>1. n.pc = "idle" /\ n.k = NoSocket BY <1>2, IdleFields
 <2>2. Placed(n) /\ ~Works(n, q.u) BY <1>2, <2>1, PlacedFree DEF Works, Waiting
 <2>3. Phase(q.u, q) => Agrees(q.u) BY <1>1, JoinGivesUp
 <2> QED BY <1>1, <2>1, <2>2, <2>3, WorkingStep DEF Waiting
<1>3. CASE n.op = q.op /\ n.k = q.k /\ n.u = q.u /\ n.c = q.c
           /\ n.pc \in {"connect", "count", "canSpeak", "put"}
 <2>1. Placed(n) BY <1>1, <1>3, PlacedLike
 <2>2. Phase(q.u, q) => Phase(q.u, n) BY <1>1, <1>3, JoinGoesOn
 <2>3. Works(n, q.u) BY <1>3 DEF Works, Waiting
 <2> QED BY <1>1, <1>3, <2>1, <2>2, <2>3, WorkingStep DEF Waiting
<1> QED BY <1>2, <1>3

\* validateJoin refuses, or finds the user nowhere else.
LEMMA JoinMemberWhere ==
    ASSUME Base, NEW t \in Task, JoinMember(t)
    PROVE  WhereIInv'
<1>1. PICK q : q = task[t] OBVIOUS
<1>2. /\ q.pc = "validate" /\ q.op = "join" /\ Placed(q) /\ q.u \in User
      /\ UNCHANGED <<redisVars, socketVars>>
  BY <1>1, JoinMemberDoes
<1>3. PICK n : /\ Proceed(t, n, {})
               /\ \/ n.op = q.op /\ n.k = q.k /\ n.u = q.u /\ n.c = q.c /\ n.pc = "connect"
                  \/ n = Idle
  BY <1>1, JoinMemberDoes DEF Like
<1> QED BY <1>1, <1>2, <1>3, JoinStepWhere

\* ... at either of its awaits.
LEMMA JoinConnectWhere ==
    ASSUME Base, NEW t \in Task, JoinConnect(t)
    PROVE  WhereIInv'
<1>1. PICK q : q = task[t] OBVIOUS
<1>2. /\ q.pc = "connect" /\ q.op = "join" /\ Placed(q) /\ q.u \in User
      /\ UNCHANGED <<redisVars, socketVars>>
  BY <1>1, JoinConnectDoes
<1>3. PICK n : /\ Proceed(t, n, {})
               /\ \/ n.op = q.op /\ n.k = q.k /\ n.u = q.u /\ n.c = q.c /\ n.pc = "count"
                  \/ n = Idle
  BY <1>1, JoinConnectDoes DEF Like
<1> QED BY <1>1, <1>2, <1>3, JoinStepWhere

\* The count moves nobody.
LEMMA JoinCountWhere ==
    ASSUME Base, NEW t \in Task, JoinCount(t)
    PROVE  WhereIInv'
<1>1. PICK q : q = task[t] OBVIOUS
<1>2. /\ q.pc = "count" /\ q.op = "join" /\ Placed(q) /\ q.u \in User
      /\ UNCHANGED <<redisVars, socketVars>>
  BY <1>1, JoinCountDoes
<1>3. PICK n : /\ Proceed(t, n, {})
               /\ \/ n.op = q.op /\ n.k = q.k /\ n.u = q.u /\ n.c = q.c /\ n.pc = "canSpeak"
                  \/ n = Idle
  BY <1>1, JoinCountDoes DEF Like
<1> QED BY <1>1, <1>2, <1>3, JoinStepWhere

\* Nor does the SPEAK check.
LEMMA JoinCanSpeakWhere ==
    ASSUME Base, NEW t \in Task, JoinCanSpeak(t)
    PROVE  WhereIInv'
<1>1. PICK q : q = task[t] OBVIOUS
<1>2. /\ q.pc = "canSpeak" /\ q.op = "join" /\ Placed(q) /\ q.u \in User
      /\ UNCHANGED <<redisVars, socketVars>>
  BY <1>1, JoinCanSpeakDoes
<1>3. PICK n : /\ Proceed(t, n, {})
               /\ n.op = q.op /\ n.k = q.k /\ n.u = q.u /\ n.c = q.c /\ n.pc = "put"
  BY <1>1, JoinCanSpeakDoes DEF Like
<1> QED BY <1>1, <1>2, <1>3, JoinStepWhere

\* The entry of a join.
LEMMA JoinPutDoes ==
    ASSUME Base, NEW t \in Task, JoinPut(t), NEW q, q = task[t]
    PROVE  /\ q.pc = "put" /\ q.op = "join" /\ q.u \in User /\ q.c \in Channel /\ Placed(q)
           /\ UNCHANGED <<members, dbVars, socketVars>>
           /\ \A c \in Channel, u \in User :
                  state'[c][u] = IF c = q.c /\ u = q.u
                                 THEN [in |-> TRUE, isMuted |-> q.val, isDeafened |-> FALSE]
                                 ELSE state[c][u]
           /\ \E n : Proceed(t, n, {}) /\ Like(n, q, "add", q.at, q.val, q.got, q.keys)
<1>1. /\ q.pc = "put" /\ q \in TaskRecord /\ Placed(q) /\ q.u \in User
      /\ q.op = "join" /\ q.c \in Channel
  BY TaskFacts DEF JoinPut, Shaped, JoinPc
<1>2. Like([q EXCEPT !.pc = "add"], q, "add", q.at, q.val, q.got, q.keys) BY <1>1, LikePc DEF Awaits
<1>3. \A c \in Channel, u \in User :
          state'[c][u] = IF c = q.c /\ u = q.u
                         THEN [in |-> TRUE, isMuted |-> q.val, isDeafened |-> FALSE]
                         ELSE state[c][u]
  BY <1>1 DEF JoinPut, Base, VoiceIInv, VoiceTypeOK
<1> QED BY <1>1, <1>2, <1>3 DEF JoinPut

\* The member of a join.
LEMMA JoinAddDoes ==
    ASSUME Base, NEW t \in Task, JoinAdd(t), NEW q, q = task[t]
    PROVE  /\ q.pc = "add" /\ q.op = "join" /\ q.u \in User /\ q.c \in Channel /\ Placed(q)
           /\ UNCHANGED <<state, dbVars, socketVars>>
           /\ \A c \in Channel, u \in User :
                  u \in members'[c] <=> u \in members[c] \/ (c = q.c /\ u = q.u)
           /\ \E n : Proceed(t, n, {}) /\ Like(n, q, "joined", q.at, q.val, q.got, q.keys)
<1>1. /\ q.pc = "add" /\ q \in TaskRecord /\ Placed(q) /\ q.u \in User
      /\ q.op = "join" /\ q.c \in Channel
  BY TaskFacts DEF JoinAdd, Shaped, JoinPc
<1>2. Like([q EXCEPT !.pc = "joined"], q, "joined", q.at, q.val, q.got, q.keys) BY <1>1, LikePc DEF Awaits
<1>3. \A c \in Channel, u \in User :
          u \in members'[c] <=> u \in members[c] \/ (c = q.c /\ u = q.u)
  BY <1>1 DEF JoinAdd, Base, VoiceIInv, VoiceTypeOK
<1> QED BY <1>1, <1>2, <1>3 DEF JoinAdd

\* The socket of a join.
LEMMA JoinDoneDoes ==
    ASSUME Base, NEW t \in Task, JoinDone(t), NEW q, q = task[t]
    PROVE  /\ q.pc = "joined" /\ q.op = "join" /\ q.u \in User /\ q.c \in Channel /\ Placed(q)
           /\ UNCHANGED <<redisVars, dbVars, up>>
           /\ \A k \in Socket : voiceChannel'[k] = IF k = q.k THEN q.c ELSE voiceChannel[k]
           /\ \A k \in Socket : rooms'[k] = IF k = q.k THEN rooms[k] \cup {q.c} ELSE rooms[k]
           /\ Proceed(t, Idle, {})
<1>1. /\ q.pc = "joined" /\ q \in TaskRecord /\ Placed(q) /\ q.u \in User
      /\ q.op = "join" /\ q.c \in Channel
  BY TaskFacts DEF JoinDone, Shaped, JoinPc
<1>2. /\ \A k \in Socket : voiceChannel'[k] = IF k = q.k THEN q.c ELSE voiceChannel[k]
      /\ \A k \in Socket : rooms'[k] = IF k = q.k THEN rooms[k] \cup {q.c} ELSE rooms[k]
  BY <1>1 DEF JoinDone, Base, VoiceIInv, VoiceTypeOK
<1> QED BY <1>1, <1>2 DEF JoinDone

\* A step that leaves the sockets alone leaves what is true of them.
LEMMA KeepTabs ==
    ASSUME NEW u \in User, OneTalks(u), DropsCome(u), RoomsFit(u), UNCHANGED socketVars,
           NEW t \in Task, NEW n, Steps(t, n),
           \A k \in Mine(u) : Dropping(task[t], k) => Dropping(n, k)
    PROVE  OneTalks(u)' /\ DropsCome(u)' /\ RoomsFit(u)'
<1>1. up' = up /\ voiceChannel' = voiceChannel /\ rooms' = rooms BY DEF socketVars
<1>2. OneTalks(u)' /\ RoomsFit(u)' BY <1>1 DEF OneTalks, RoomsFit, Mine
<1>3. DropsCome(u)'
 <2> SUFFICES ASSUME NEW k \in Mine(u), k \notin up', voiceChannel'[k] # NoChannel
              PROVE  \E o \in Task : Dropping(task'[o], k)
   BY DEF DropsCome, Mine, Dropping
 <2>1. PICK o \in Task : Dropping(task[o], k) BY <1>1 DEF DropsCome
 <2> QED BY <2>1 DEF Steps
<1> QED BY <1>2, <1>3

\* A worker that writes keys or its socket's channel: only its user is concerned.
LEMMA WritingStep ==
    ASSUME Base, NEW t \in Task, NEW q, q = task[t], NEW n, NEW met, Proceed(t, n, met),
           q.pc \notin Waiting, Placed(n),
           n.u = q.u \/ n.pc \in {"idle", "loop", "sweep"},
           \A u \in User : u # q.u => SameKeys(u) /\ SameTabs(u),
           (/\ q.u \notin raced /\ Phase(q.u, q) /\ Steps(t, n)
            /\ OneTalks(q.u) /\ DropsCome(q.u) /\ RoomsFit(q.u))
           => /\ OneTalks(q.u)' /\ DropsCome(q.u)' /\ RoomsFit(q.u)'
              /\ Works(n, q.u) => Phase(q.u, n)'
              /\ ~Works(n, q.u) => Agrees(q.u)'
    PROVE  WhereIInv'
<1>1. q.u \in User BY TaskFacts DEF Waiting
<1>2. /\ Steps(t, n)
      /\ \A u \in User : u \notin raced' =>
             u \notin raced /\ u \notin met /\ OneWorker(u)'
  BY ProceedSteps DEF Base
<1>3. ASSUME q.u \notin raced' PROVE Whereabouts(q.u)'
 <2>1. q.u \notin raced /\ OneWorker(q.u)' /\ Works(task[t], q.u) BY <1>1, <1>2, <1>3 DEF Works
 <2>2. /\ \A o \in Task : o # t => ~Works(task[o], q.u)
       /\ OneTalks(q.u) /\ DropsCome(q.u) /\ RoomsFit(q.u) /\ Phase(q.u, task[t])
   BY <1>1, <2>1, Alone
 <2> QED BY <1>1, <1>2, <2>1, <2>2, WorkerWhere
<1>4. \A u \in User : u # q.u => Off(task[t], u) /\ Off(n, u) BY DEF Off
<1>5. Off(n, q.u) \/ n.u = q.u BY DEF Off
<1> QED BY <1>3, <1>4, <1>5, StepWhere

\* The entry is the first thing a join writes, ...
LEMMA JoinPutWhere ==
    ASSUME Base, NEW t \in Task, JoinPut(t)
    PROVE  WhereIInv'
<1>1. PICK q : q = task[t] OBVIOUS
<1>2. /\ q.pc = "put" /\ q.op = "join" /\ q.u \in User /\ q.c \in Channel /\ Placed(q)
      /\ UNCHANGED <<members, socketVars>>
      /\ \A c \in Channel, u \in User :
             state'[c][u] = IF c = q.c /\ u = q.u
                            THEN [in |-> TRUE, isMuted |-> q.val, isDeafened |-> FALSE]
                            ELSE state[c][u]
  BY <1>1, JoinPutDoes
<1>n. PICK n : Proceed(t, n, {}) /\ Like(n, q, "add", q.at, q.val, q.got, q.keys)
  BY <1>1, JoinPutDoes
<1>3. n.op = q.op /\ n.k = q.k /\ n.u = q.u /\ n.c = q.c /\ n.pc = "add" BY <1>n DEF Like
<1>4. \A u \in User : SameTabs(u) /\ (u # q.u => SameKeys(u)) BY <1>2 DEF socketVars, SameKeys, SameTabs
<1>5. Placed(n) BY <1>2, <1>3, PlacedLike
<1>6. ASSUME Steps(t, n), Phase(q.u, q) PROVE Phase(q.u, n)'
 <2>1. /\ q.k # NoSocket
       /\ q.k \in up \/ \E o \in Task : task[o].k = q.k /\ task[o].pc = "dropped"
       /\ \A k \in Mine(q.u) : voiceChannel[k] = NoChannel
       /\ \A c \in Channel : q.u \notin members[c] /\ ~state[c][q.u].in
   BY <1>2, <1>6 DEF Phase, JoinPhase, JoinPc
 <2>2. q.k \in up' \/ \E o \in Task : task'[o].k = q.k /\ task'[o].pc = "dropped"
   BY <1>1, <1>2, <1>6, <2>1 DEF socketVars, Steps
 <2>3. \A c \in Channel : q.u \notin members'[c] /\ (state'[c][q.u].in <=> c = q.c) BY <1>2, <2>1
 <2>4. \A k \in Mine(q.u) : voiceChannel'[k] = NoChannel BY <1>2, <2>1 DEF socketVars
 <2>5. JoinPhase(q.u, n)' BY <1>2, <1>3, <2>1, <2>2, <2>3, <2>4 DEF JoinPhase, Mine
 <2>6. LeavePhase(q.u, n)' /\ StillPhase(q.u, n)'
   BY <1>2, <1>3 DEF LeavePhase, LeavePc, StillPhase, StillPc, FlagPc
 <2> QED BY <2>5, <2>6 DEF Phase
<1>7. Works(n, q.u) /\ q.pc \notin Waiting /\ \A k : ~Dropping(q, k) BY <1>2, <1>3 DEF Works, Waiting, Dropping
<1> QED BY <1>1, <1>2, <1>n, <1>3, <1>4, <1>5, <1>6, <1>7, KeepTabs, WritingStep

\* ... the membership the second, ...
LEMMA JoinAddWhere ==
    ASSUME Base, NEW t \in Task, JoinAdd(t)
    PROVE  WhereIInv'
<1>1. PICK q : q = task[t] OBVIOUS
<1>2. /\ q.pc = "add" /\ q.op = "join" /\ q.u \in User /\ q.c \in Channel /\ Placed(q)
      /\ UNCHANGED <<state, socketVars>>
      /\ \A c \in Channel, u \in User :
             u \in members'[c] <=> u \in members[c] \/ (c = q.c /\ u = q.u)
  BY <1>1, JoinAddDoes
<1>n. PICK n : Proceed(t, n, {}) /\ Like(n, q, "joined", q.at, q.val, q.got, q.keys)
  BY <1>1, JoinAddDoes
<1>3. n.op = q.op /\ n.k = q.k /\ n.u = q.u /\ n.c = q.c /\ n.pc = "joined" BY <1>n DEF Like
<1>4. \A u \in User : SameTabs(u) /\ (u # q.u => SameKeys(u)) BY <1>2 DEF socketVars, SameKeys, SameTabs
<1>5. Placed(n) BY <1>2, <1>3, PlacedLike
<1>6. ASSUME Steps(t, n), Phase(q.u, q) PROVE Phase(q.u, n)'
 <2>1. /\ q.k # NoSocket
       /\ q.k \in up \/ \E o \in Task : task[o].k = q.k /\ task[o].pc = "dropped"
       /\ \A k \in Mine(q.u) : voiceChannel[k] = NoChannel
       /\ \A c \in Channel : q.u \notin members[c] /\ (state[c][q.u].in <=> c = q.c)
   BY <1>2, <1>6 DEF Phase, JoinPhase, JoinPc
 <2>2. q.k \in up' \/ \E o \in Task : task'[o].k = q.k /\ task'[o].pc = "dropped"
   BY <1>1, <1>2, <1>6, <2>1 DEF socketVars, Steps
 <2>3. \A c \in Channel : (q.u \in members'[c] <=> c = q.c) /\ (state'[c][q.u].in <=> c = q.c) BY <1>2, <2>1
 <2>4. \A k \in Mine(q.u) : voiceChannel'[k] = NoChannel BY <1>2, <2>1 DEF socketVars
 <2>5. JoinPhase(q.u, n)' BY <1>2, <1>3, <2>1, <2>2, <2>3, <2>4 DEF JoinPhase, Mine
 <2>6. LeavePhase(q.u, n)' /\ StillPhase(q.u, n)'
   BY <1>2, <1>3 DEF LeavePhase, LeavePc, StillPhase, StillPc, FlagPc
 <2> QED BY <2>5, <2>6 DEF Phase
<1>7. Works(n, q.u) /\ q.pc \notin Waiting /\ \A k : ~Dropping(q, k) BY <1>2, <1>3 DEF Works, Waiting, Dropping
<1> QED BY <1>1, <1>2, <1>n, <1>3, <1>4, <1>5, <1>6, <1>7, KeepTabs, WritingStep

\* A handler's socket is none of another user's.
LEMMA OthersTab ==
    ASSUME NEW q, Placed(q), NEW u, u # q.u, NEW k \in Mine(u)
    PROVE  k # q.k /\ k \in Socket
  BY VoiceAssumption DEF Placed, Mine

\* ... and the socket's channel ends it: keys and socket agree again.
LEMMA JoinDoneWhere ==
    ASSUME Base, NEW t \in Task, JoinDone(t)
    PROVE  WhereIInv'
<1>1. PICK q : q = task[t] OBVIOUS
<1>2. /\ q.pc = "joined" /\ q.op = "join" /\ q.u \in User /\ q.c \in Channel /\ Placed(q)
      /\ UNCHANGED <<redisVars, up>>
      /\ \A k \in Socket : voiceChannel'[k] = IF k = q.k THEN q.c ELSE voiceChannel[k]
      /\ \A k \in Socket : rooms'[k] = IF k = q.k THEN rooms[k] \cup {q.c} ELSE rooms[k]
      /\ Proceed(t, Idle, {})
  BY <1>1, JoinDoneDoes
<1>3. Idle.pc = "idle" /\ Placed(Idle) /\ ~Works(Idle, q.u) /\ q.pc \notin Waiting
  BY <1>2, IdleFields, PlacedFree DEF Works, Waiting
<1>4. \A u \in User : u # q.u => SameKeys(u) /\ SameTabs(u) BY <1>2, OthersTab DEF redisVars, SameKeys, SameTabs
<1>5. ASSUME Steps(t, Idle), Phase(q.u, q), OneTalks(q.u), DropsCome(q.u), RoomsFit(q.u)
      PROVE  OneTalks(q.u)' /\ DropsCome(q.u)' /\ RoomsFit(q.u)' /\ Agrees(q.u)'
 <2>1. /\ q.k \in Mine(q.u)
       /\ q.k \in up \/ \E o \in Task : task[o].k = q.k /\ task[o].pc = "dropped"
       /\ \A k \in Mine(q.u) : voiceChannel[k] = NoChannel
       /\ \A c \in Channel : (q.u \in members[c] <=> c = q.c) /\ (state[c][q.u].in <=> c = q.c)
   BY <1>2, <1>5 DEF Phase, JoinPhase, JoinPc, Placed, Mine
 <2>2. \A k \in Mine(q.u) : voiceChannel'[k] = IF k = q.k THEN q.c ELSE NoChannel BY <1>2, <2>1 DEF Mine
 <2>3. OneTalks(q.u)' BY <2>2 DEF OneTalks, Mine
 <2>4. DropsCome(q.u)'
  <3> SUFFICES ASSUME NEW k \in Mine(q.u), k \notin up', voiceChannel'[k] # NoChannel
               PROVE  \E o \in Task : Dropping(task'[o], k)
    BY DEF DropsCome, Mine, Dropping
  <3>1. k = q.k /\ k \notin up BY <1>2, <2>2
  <3>2. PICK o \in Task : task[o].k = k /\ task[o].pc = "dropped" BY <2>1, <3>1
  <3>3. o # t BY <1>1, <1>2, <3>2
  <3> QED BY <1>5, <3>2, <3>3 DEF Steps, Dropping
 <2>5. RoomsFit(q.u)'
  <3> SUFFICES ASSUME NEW k \in Mine(q.u), k \in up
               PROVE  rooms'[k] = {voiceChannel'[k]} \ {NoChannel}
    BY <1>2 DEF RoomsFit, Mine
  <3>1. rooms[k] = {} BY <1>5, <2>1 DEF RoomsFit
  <3>2. q.c \in Channel /\ q.c # NoChannel BY <1>2, VoiceAssumption
  <3> QED BY <1>2, <2>2, <3>1, <3>2 DEF Mine
 <2>6. \A c \in Channel : HasTab(q.u, c)' <=> c = q.c BY <1>2, <2>1, <2>2, VoiceAssumption DEF HasTab, Mine
 <2>7. Agrees(q.u)' BY <1>2, <2>1, <2>6 DEF Agrees, Agree, redisVars
 <2> QED BY <2>3, <2>4, <2>5, <2>7
<1> QED BY <1>1, <1>2, <1>3, <1>4, <1>5, WritingStep

------------------------------------------------------------
(* Leaves.                                                                  *)

\* What LeaveDel does, in terms of the handler it goes on as.
LEMMA LeaveDelDoes ==
    ASSUME Base, NEW t \in Task, LeaveDel(t), NEW q, q = task[t]
    PROVE  /\ q.pc = "del" /\ q.u \in User /\ Placed(q)
           /\ UNCHANGED <<members, dbVars, socketVars>>
           /\ \A c \in Channel, u \in User :
                  state'[c][u] = IF c = q.at /\ u = q.u THEN NoEntry ELSE state[c][u]
           /\ \E n : Proceed(t, n, {}) /\ Like(n, q, "rem", q.at, q.val, q.got, q.keys)
<1>1. q.pc = "del" /\ q \in TaskRecord /\ Placed(q) /\ q.u \in User BY TaskFacts DEF LeaveDel
<1>2. Like([q EXCEPT !.pc = "rem"], q, "rem", q.at, q.val, q.got, q.keys) BY <1>1, LikePc DEF Awaits
<1>3. \A c \in Channel, u \in User :
          state'[c][u] = IF c = q.at /\ u = q.u THEN NoEntry ELSE state[c][u]
  BY <1>1 DEF LeaveDel, Base, VoiceIInv, VoiceTypeOK
<1> QED BY <1>1, <1>2, <1>3 DEF LeaveDel

\* What LeaveRem does, in terms of the handler it goes on as.
LEMMA LeaveRemDoes ==
    ASSUME Base, NEW t \in Task, LeaveRem(t), NEW q, q = task[t]
    PROVE  /\ q.pc = "rem" /\ q.u \in User /\ Placed(q)
           /\ UNCHANGED <<state, dbVars, socketVars>>
           /\ \A c \in Channel, u \in User :
                  u \in members'[c] <=> u \in members[c] /\ ~(c = q.at /\ u = q.u)
           /\ \E n : Proceed(t, n, {}) /\ Like(n, q, "left", q.at, q.val, q.got, q.keys)
<1>1. q.pc = "rem" /\ q \in TaskRecord /\ Placed(q) /\ q.u \in User BY TaskFacts DEF LeaveRem
<1>2. Like([q EXCEPT !.pc = "left"], q, "left", q.at, q.val, q.got, q.keys) BY <1>1, LikePc DEF Awaits
<1>3. \A c \in Channel, u \in User :
          u \in members'[c] <=> u \in members[c] /\ ~(c = q.at /\ u = q.u)
  BY <1>1 DEF LeaveRem, Base, VoiceIInv, VoiceTypeOK
<1> QED BY <1>1, <1>2, <1>3 DEF LeaveRem

\* What LeaveDone does, in terms of the handler it goes on as.
LEMMA LeaveDoneDoes ==
    ASSUME Base, NEW t \in Task, LeaveDone(t), NEW q, q = task[t]
    PROVE  /\ q.pc = "left" /\ q.u \in User /\ Placed(q)
           /\ UNCHANGED <<redisVars, dbVars, up>>
           /\ q.op # "sweep" =>
              /\ \A k \in Socket : rooms'[k] = IF k = q.k THEN rooms[k] \ {q.at} ELSE rooms[k]
              /\ \A k \in Socket :
                     voiceChannel'[k] = IF k = q.k /\ (q.op = "leave" => voiceChannel[k] = q.at)
                                        THEN NoChannel ELSE voiceChannel[k]
           /\ q.op = "sweep" => UNCHANGED <<rooms, voiceChannel>>
           /\ \E n : /\ Proceed(t, n, {})
                     /\ \/ q.op = "join"
                           /\ Like(n, q, "validate", NoChannel, q.val, q.got, q.keys)
                        \/ q.op \in {"permission", "kick"} /\ n = NextSocket(q)
                        \/ q.op \notin {"join", "permission", "kick"} /\ n = Idle
<1>1. q.pc = "left" /\ q \in TaskRecord /\ Placed(q) /\ q.u \in User BY TaskFacts DEF LeaveDone
<1>2. Like([q EXCEPT !.pc = "validate", !.at = NoChannel], q, "validate", NoChannel, q.val, q.got, q.keys)
  BY <1>1, LikeAt DEF Awaits
<1>3. /\ Proceed(t, AfterLeave(q), {}) /\ UNCHANGED <<redisVars, dbVars, up>>
      /\ q.op = "sweep" => UNCHANGED <<rooms, voiceChannel>>
      /\ q.op # "sweep" =>
             /\ rooms' = [rooms EXCEPT ![q.k] = @ \ {q.at}]
             /\ voiceChannel' = IF q.op = "leave" /\ voiceChannel[q.k] # q.at
                                THEN voiceChannel
                                ELSE [voiceChannel EXCEPT ![q.k] = NoChannel]
  BY <1>1 DEF LeaveDone, LeavesRoom
<1>4. q.op # "sweep" =>
          /\ \A k \in Socket : rooms'[k] = IF k = q.k THEN rooms[k] \ {q.at} ELSE rooms[k]
          /\ \A k \in Socket :
                 voiceChannel'[k] = IF k = q.k /\ (q.op = "leave" => voiceChannel[k] = q.at)
                                    THEN NoChannel ELSE voiceChannel[k]
  BY <1>3 DEF Base, VoiceIInv, VoiceTypeOK
<1>5. \/ q.op = "join" /\ AfterLeave(q) = [q EXCEPT !.pc = "validate", !.at = NoChannel]
      \/ q.op \in {"permission", "kick"} /\ AfterLeave(q) = NextSocket(q)
      \/ q.op \notin {"join", "permission", "kick"} /\ AfterLeave(q) = Idle
  BY DEF AfterLeave
<1> QED BY <1>1, <1>2, <1>3, <1>4, <1>5

\* A leave goes on, ...
LEMMA LeaveGoesOn ==
    ASSUME NEW q, Placed(q), q.pc \in LeavePc, NEW n, n.op = q.op, n.k = q.k, n.u = q.u,
           n.pc \in LeavePc
    PROVE  Placed(n) /\ Works(n, q.u) /\ q.pc \notin Waiting /\ \A k : Dropping(q, k) => Dropping(n, k)
<1>1. Placed(n) BY PlacedLike DEF LeavePc
<1> QED BY <1>1 DEF Works, Waiting, LeavePc, Dropping

\* A leave takes the entry first, ...
LEMMA LeaveDelWhere ==
    ASSUME Base, NEW t \in Task, LeaveDel(t)
    PROVE  WhereIInv'
<1>1. PICK q : q = task[t] OBVIOUS
<1>2. /\ q.pc = "del" /\ q.u \in User /\ Placed(q)
      /\ UNCHANGED <<members, socketVars>>
      /\ \A c \in Channel, u \in User :
             state'[c][u] = IF c = q.at /\ u = q.u THEN NoEntry ELSE state[c][u]
  BY <1>1, LeaveDelDoes
<1>n. PICK n : Proceed(t, n, {}) /\ Like(n, q, "rem", q.at, q.val, q.got, q.keys)
  BY <1>1, LeaveDelDoes
<1>3. n.op = q.op /\ n.k = q.k /\ n.u = q.u /\ n.at = q.at /\ n.c = q.c /\ n.pc = "rem" BY <1>n DEF Like
<1>4. \A u \in User : SameTabs(u) /\ (u # q.u => SameKeys(u)) BY <1>2 DEF socketVars, SameKeys, SameTabs
<1>5. Placed(n) /\ Works(n, q.u) /\ q.pc \notin Waiting /\ \A k : Dropping(q, k) => Dropping(n, k)
  BY <1>2, <1>3, LeaveGoesOn DEF LeavePc
<1>6. ASSUME Steps(t, n), Phase(q.u, q) PROVE Phase(q.u, n)'
 <2>1. /\ q.op \in {"join", "leave", "drop", "permission", "kick"}
       /\ q.k # NoSocket /\ q.at \in Channel
       /\ \A k \in Mine(q.u) : k # q.k => voiceChannel[k] = NoChannel
       /\ q.op # "leave" => voiceChannel[q.k] = q.at
       /\ \A c \in Channel : c # q.at => Agree(q.u, c)
       /\ Agree(q.u, q.at)
   BY <1>2, <1>6 DEF Phase, LeavePhase, LeavePc
 <2>2. voiceChannel' = voiceChannel /\ up' = up /\ members' = members BY <1>2 DEF socketVars
 <2>3. \A c \in Channel : HasTab(q.u, c)' <=> HasTab(q.u, c) BY <2>2 DEF HasTab, Mine
 <2>4. \A c \in Channel : c # q.at => Agree(q.u, c)' BY <1>2, <2>1, <2>2, <2>3 DEF Agree
 <2>5. ~state'[q.at][q.u].in BY <1>2, <2>1 DEF NoEntry
 <2>6. q.u \in members'[q.at] <=> voiceChannel'[q.k] = q.at
  <3>1. HasTab(q.u, q.at) <=> voiceChannel[q.k] = q.at BY <1>2, <2>1, VoiceAssumption DEF HasTab, Placed, Mine
  <3> QED BY <2>1, <2>2, <3>1 DEF Agree
 <2>7. LeavePhase(q.u, n)' BY <1>3, <2>1, <2>2, <2>4, <2>5, <2>6 DEF LeavePhase, Mine
 <2>8. JoinPhase(q.u, n)'
  <3>1. q.op = "join" => q.k \in up \/ \E o \in Task : task[o].k = q.k /\ task[o].pc = "dropped"
    BY <1>6 DEF Phase, JoinPhase
  <3>2. q.op = "join" => q.k \in up' \/ \E o \in Task : task'[o].k = q.k /\ task'[o].pc = "dropped"
    BY <1>1, <1>2, <1>6, <2>2, <3>1 DEF Steps
  <3> QED BY <1>3, <2>1, <3>2 DEF JoinPhase, JoinPc
 <2>9. StillPhase(q.u, n)'
  <3>1. q.op \in {"mute", "deafen", "permission"} =>
            q.k # NoSocket /\ voiceChannel'[q.k] = q.at /\ q.c = q.at
    BY <1>6, <2>2 DEF Phase, StillPhase
  <3> QED BY <1>3, <3>1 DEF StillPhase, StillPc, FlagPc
 <2> QED BY <2>7, <2>8, <2>9 DEF Phase
<1> QED BY <1>1, <1>2, <1>n, <1>3, <1>4, <1>5, <1>6, KeepTabs, WritingStep

\* ... then the membership, ...
LEMMA LeaveRemWhere ==
    ASSUME Base, NEW t \in Task, LeaveRem(t)
    PROVE  WhereIInv'
<1>1. PICK q : q = task[t] OBVIOUS
<1>2. /\ q.pc = "rem" /\ q.u \in User /\ Placed(q)
      /\ UNCHANGED <<state, socketVars>>
      /\ \A c \in Channel, u \in User :
             u \in members'[c] <=> u \in members[c] /\ ~(c = q.at /\ u = q.u)
  BY <1>1, LeaveRemDoes
<1>n. PICK n : Proceed(t, n, {}) /\ Like(n, q, "left", q.at, q.val, q.got, q.keys)
  BY <1>1, LeaveRemDoes
<1>3. n.op = q.op /\ n.k = q.k /\ n.u = q.u /\ n.at = q.at /\ n.c = q.c /\ n.pc = "left" BY <1>n DEF Like
<1>4. \A u \in User : SameTabs(u) /\ (u # q.u => SameKeys(u)) BY <1>2 DEF socketVars, SameKeys, SameTabs
<1>5. Placed(n) /\ Works(n, q.u) /\ q.pc \notin Waiting /\ \A k : Dropping(q, k) => Dropping(n, k)
  BY <1>2, <1>3, LeaveGoesOn DEF LeavePc
<1>6. ASSUME Steps(t, n), Phase(q.u, q) PROVE Phase(q.u, n)'
 <2>1. /\ q.op \in {"join", "leave", "drop", "permission", "kick"}
       /\ q.k # NoSocket /\ q.at \in Channel
       /\ \A k \in Mine(q.u) : k # q.k => voiceChannel[k] = NoChannel
       /\ q.op # "leave" => voiceChannel[q.k] = q.at
       /\ \A c \in Channel : c # q.at => Agree(q.u, c)
       /\ ~state[q.at][q.u].in
   BY <1>2, <1>6 DEF Phase, LeavePhase, LeavePc
 <2>2. voiceChannel' = voiceChannel /\ up' = up /\ state' = state BY <1>2 DEF socketVars
 <2>3. \A c \in Channel : HasTab(q.u, c)' <=> HasTab(q.u, c) BY <2>2 DEF HasTab, Mine
 <2>4. \A c \in Channel : c # q.at => Agree(q.u, c)' BY <1>2, <2>1, <2>2, <2>3 DEF Agree
 <2>5. ~state'[q.at][q.u].in /\ q.u \notin members'[q.at] BY <1>2, <2>1, <2>2
 <2>7. LeavePhase(q.u, n)' BY <1>3, <2>1, <2>2, <2>4, <2>5 DEF LeavePhase, Mine
 <2>8. JoinPhase(q.u, n)'
  <3>1. q.op = "join" => q.k \in up \/ \E o \in Task : task[o].k = q.k /\ task[o].pc = "dropped"
    BY <1>6 DEF Phase, JoinPhase
  <3>2. q.op = "join" => q.k \in up' \/ \E o \in Task : task'[o].k = q.k /\ task'[o].pc = "dropped"
    BY <1>1, <1>2, <1>6, <2>2, <3>1 DEF Steps
  <3> QED BY <1>3, <2>1, <3>2 DEF JoinPhase, JoinPc
 <2>9. StillPhase(q.u, n)'
  <3>1. q.op \in {"mute", "deafen", "permission"} =>
            q.k # NoSocket /\ voiceChannel'[q.k] = q.at /\ q.c = q.at
    BY <1>6, <2>2 DEF Phase, StillPhase
  <3> QED BY <1>3, <3>1 DEF StillPhase, StillPc, FlagPc
 <2> QED BY <2>7, <2>8, <2>9 DEF Phase
<1> QED BY <1>1, <1>2, <1>n, <1>3, <1>4, <1>5, <1>6, KeepTabs, WritingStep

\* ... and clears the socket's channel last.
LEMMA LeaveDoneWhere ==
    ASSUME Base, NEW t \in Task, LeaveDone(t)
    PROVE  WhereIInv'
<1>1. PICK q : q = task[t] OBVIOUS
<1>2. /\ q.pc = "left" /\ q.u \in User /\ Placed(q) /\ UNCHANGED <<redisVars, up>>
      /\ q.op # "sweep" =>
         /\ \A k \in Socket : rooms'[k] = IF k = q.k THEN rooms[k] \ {q.at} ELSE rooms[k]
         /\ \A k \in Socket :
                voiceChannel'[k] = IF k = q.k /\ (q.op = "leave" => voiceChannel[k] = q.at)
                                   THEN NoChannel ELSE voiceChannel[k]
      /\ q.op = "sweep" => UNCHANGED <<rooms, voiceChannel>>
  BY <1>1, LeaveDoneDoes
<1>n. PICK n : /\ Proceed(t, n, {})
               /\ \/ q.op = "join"
                     /\ Like(n, q, "validate", NoChannel, q.val, q.got, q.keys)
                  \/ q.op \in {"permission", "kick"} /\ n = NextSocket(q)
                  \/ q.op \notin {"join", "permission", "kick"} /\ n = Idle
  BY <1>1, LeaveDoneDoes
<1>3. \/ q.op = "join" /\ n.op = q.op /\ n.k = q.k /\ n.u = q.u /\ n.pc = "validate"
      \/ q.op # "join" /\ n.k = NoSocket /\ (n.pc = "loop" \/ (n.pc = "idle" /\ n = Idle))
  BY <1>n, NextFields, IdleFields DEF Like
<1>4. \A u \in User : u # q.u => SameKeys(u) /\ SameTabs(u)
  BY <1>2, OthersTab, ZenonT(60) DEF redisVars, SameKeys, SameTabs
<1>5. Placed(n) /\ q.pc \notin Waiting BY <1>2, <1>3, PlacedLike, PlacedFree DEF Waiting
<1>6. n.u = q.u \/ n.pc \in {"idle", "loop", "sweep"} BY <1>3
<1>7. ASSUME Steps(t, n), Phase(q.u, q), OneTalks(q.u), DropsCome(q.u), RoomsFit(q.u)
      PROVE  /\ OneTalks(q.u)' /\ DropsCome(q.u)' /\ RoomsFit(q.u)'
             /\ Works(n, q.u) => Phase(q.u, n)'
             /\ ~Works(n, q.u) => Agrees(q.u)'
 <2>1. /\ q.op \in {"join", "leave", "drop", "permission", "kick"}
       /\ q.k # NoSocket /\ q.at \in Channel
       /\ \A k \in Mine(q.u) : k # q.k => voiceChannel[k] = NoChannel
       /\ q.op # "leave" => voiceChannel[q.k] = q.at
       /\ \A c \in Channel : c # q.at => Agree(q.u, c)
       /\ ~state[q.at][q.u].in /\ q.u \notin members[q.at]
   BY <1>2, <1>7 DEF Phase, LeavePhase, LeavePc
 <2>2. q.k \in Mine(q.u) /\ Mine(q.u) \subseteq Socket /\ q.at # NoChannel
   BY <1>2, <2>1, VoiceAssumption DEF Placed, Mine
 <2>3. /\ \A k \in Mine(q.u) : k # q.k => voiceChannel'[k] = NoChannel
       /\ voiceChannel'[q.k] = IF voiceChannel[q.k] = q.at THEN NoChannel ELSE voiceChannel[q.k]
       /\ voiceChannel[q.k] # q.at => q.op = "leave"
   BY <1>2, <2>1, <2>2
 <2>4. OneTalks(q.u)' BY <2>3 DEF OneTalks, Mine
 <2>5. DropsCome(q.u)'
  <3> SUFFICES ASSUME NEW k \in Mine(q.u), k \notin up', voiceChannel'[k] # NoChannel
               PROVE  \E o \in Task : Dropping(task'[o], k)
    BY DEF DropsCome, Mine, Dropping
  <3>1. k = q.k /\ q.op = "leave" /\ k \notin up /\ voiceChannel[k] # NoChannel BY <1>2, <2>3
  <3>2. PICK o \in Task : Dropping(task[o], k) BY <1>7, <3>1 DEF DropsCome
  <3>3. o # t BY <1>1, <1>2, <3>1, <3>2 DEF Dropping
  <3> QED BY <1>7, <3>2, <3>3 DEF Steps
 <2>6. RoomsFit(q.u)'
  <3> SUFFICES ASSUME NEW k \in Mine(q.u), k \in up
               PROVE  rooms'[k] = {voiceChannel'[k]} \ {NoChannel}
    BY <1>2 DEF RoomsFit, Mine
  <3>1. rooms[k] = {voiceChannel[k]} \ {NoChannel} BY <1>7 DEF RoomsFit
  <3>2. CASE k = q.k BY <1>2, <2>1, <2>2, <2>3, <3>1, <3>2
  <3>3. CASE k # q.k BY <1>2, <2>1, <2>2, <2>3, <3>1, <3>3
  <3> QED BY <3>2, <3>3
 <2>7. Agrees(q.u)'
  <3>1. \A c \in Channel : c # q.at => (HasTab(q.u, c)' <=> HasTab(q.u, c))
    BY <2>1, <2>2, <2>3, VoiceAssumption DEF HasTab, Mine
  <3>2. ~HasTab(q.u, q.at)' BY <2>2, <2>3, VoiceAssumption DEF HasTab, Mine
  <3> QED BY <1>2, <2>1, <3>1, <3>2 DEF Agrees, Agree, redisVars
 <2>8. ASSUME Works(n, q.u) PROVE Phase(q.u, n)'
  <3>1. q.op = "join" /\ n.op = q.op /\ n.k = q.k /\ n.u = q.u /\ n.pc = "validate"
    BY <1>3, <2>8 DEF Works, Waiting
  <3>2. \A k \in Mine(q.u) : voiceChannel'[k] = NoChannel BY <2>1, <2>3, <3>1
  <3>3. \A c \in Channel : q.u \notin members'[c] /\ ~state'[c][q.u].in
    BY <2>7, <3>2, VoiceAssumption DEF Agrees, Agree, HasTab, Mine
  <3>4. q.k \in up' \/ \E o \in Task : task'[o].k = q.k /\ task'[o].pc = "dropped"
    BY <1>1, <1>2, <1>7, <3>1 DEF Phase, JoinPhase, Steps
  <3>5. JoinPhase(q.u, n)' BY <2>1, <3>1, <3>2, <3>3, <3>4 DEF JoinPhase, Mine
  <3>6. LeavePhase(q.u, n)' /\ StillPhase(q.u, n)' BY <3>1 DEF LeavePhase, LeavePc, StillPhase, StillPc, FlagPc
  <3> QED BY <3>5, <3>6 DEF Phase
 <2> QED BY <2>4, <2>5, <2>6, <2>7, <2>8
<1> QED BY <1>1, <1>n, <1>4, <1>5, <1>6, <1>7, WritingStep

------------------------------------------------------------
(* Updates.                                                                 *)

\* What FlagCheck does, in terms of the handler it goes on as.
LEMMA FlagCheckDoes ==
    ASSUME Base, NEW t \in Task, FlagCheck(t), NEW q, q = task[t]
    PROVE  /\ q.pc = "check" /\ q.u \in User /\ Placed(q)
           /\ UNCHANGED <<redisVars, dbVars, socketVars>>
           /\ \E n : /\ Proceed(t, n, {})
                     /\ \/ n = Idle
                        \/ /\ q.op = "mute" /\ q.val = FALSE
                           /\ Like(n, q, "muteSpeak", q.at, q.val, q.got, q.keys)
                        \/ /\ q.op # "mute" \/ q.val = TRUE
                           /\ Like(n, q, "get", q.at, q.val, q.got, q.keys)
<1>1. q.pc = "check" /\ q \in TaskRecord /\ Placed(q) /\ q.u \in User /\ q.val \in BOOLEAN
  BY TaskFacts DEF FlagCheck
<1>2. /\ Like([q EXCEPT !.pc = "muteSpeak"], q, "muteSpeak", q.at, q.val, q.got, q.keys)
      /\ Like([q EXCEPT !.pc = "get"], q, "get", q.at, q.val, q.got, q.keys)
  BY <1>1, LikePc DEF Awaits
<1>3. UNCHANGED <<redisVars, dbVars, socketVars>> BY DEF FlagCheck
<1>4. CASE ~state[q.at][q.u].in
 <2>1. Proceed(t, Idle, {}) BY <1>1, <1>4 DEF FlagCheck
 <2> QED BY <1>1, <1>3, <2>1
<1>5. CASE state[q.at][q.u].in /\ q.op = "mute" /\ q.val = FALSE BY <1>1, <1>2, <1>3, <1>5 DEF FlagCheck
<1>6. CASE state[q.at][q.u].in /\ ~(q.op = "mute" /\ q.val = FALSE)
 <2>1. q.op # "mute" \/ q.val = TRUE BY <1>1, <1>6
 <2>2. Proceed(t, [q EXCEPT !.pc = "get"], {}) BY <1>1, <1>6, <2>1 DEF FlagCheck
 <2> QED BY <1>1, <1>2, <1>3, <2>1, <2>2
<1> QED BY <1>4, <1>5, <1>6

\* What UnmuteCheckSpeak does, in terms of the handler it goes on as.
LEMMA UnmuteCheckSpeakDoes ==
    ASSUME Base, NEW t \in Task, UnmuteCheckSpeak(t), NEW q, q = task[t]
    PROVE  /\ q.pc = "muteSpeak" /\ q.u \in User /\ Placed(q)
           /\ UNCHANGED <<redisVars, dbVars, socketVars>>
           /\ \E n : /\ Proceed(t, n, {})
                     /\ \/ /\ "speak" \in perm[q.u][q.c]
                           /\ Like(n, q, "muteMember", q.at, q.val, q.got, q.keys)
                        \/ Like(n, q, "get", q.at, TRUE, q.got, q.keys)
<1>1. q.pc = "muteSpeak" /\ q \in TaskRecord /\ Placed(q) /\ q.u \in User BY TaskFacts DEF UnmuteCheckSpeak
<1>2. /\ Like([q EXCEPT !.pc = "muteMember"], q, "muteMember", q.at, q.val, q.got, q.keys)
      /\ Like([q EXCEPT !.pc = "get", !.val = TRUE], q, "get", q.at, TRUE, q.got, q.keys)
  BY <1>1, LikePc, LikeVal DEF Awaits
<1>3. CASE "speak" \in perm[q.u][q.c] BY <1>1, <1>2, <1>3 DEF UnmuteCheckSpeak
<1>4. CASE "speak" \notin perm[q.u][q.c] BY <1>1, <1>2, <1>4 DEF UnmuteCheckSpeak
<1> QED BY <1>3, <1>4

\* What UnmuteCheckMember does, in terms of the handler it goes on as.
LEMMA UnmuteCheckMemberDoes ==
    ASSUME Base, NEW t \in Task, UnmuteCheckMember(t), NEW q, q = task[t]
    PROVE  /\ q.pc = "muteMember" /\ q.u \in User /\ Placed(q)
           /\ UNCHANGED <<redisVars, dbVars, socketVars>>
           /\ \E n : /\ Proceed(t, n, {})
                     /\ Like(n, q, "get", q.at, ServerMuted(q.u, q.c), q.got, q.keys)
<1>1. q.pc = "muteMember" /\ q \in TaskRecord /\ Placed(q) /\ q.u \in User BY TaskFacts DEF UnmuteCheckMember
<1> DEFINE b == ServerMuted(q.u, q.c)
<1>2. b \in BOOLEAN BY DEF ServerMuted
<1>3. Like([q EXCEPT !.pc = "get", !.val = b], q, "get", q.at, b, q.got, q.keys)
 <2> HIDE DEF b
 <2> QED BY <1>1, <1>2, LikeVal DEF Awaits
<1> QED BY <1>1, <1>3 DEF UnmuteCheckMember

\* The handlers that write an entry end, or their walk goes on.
Finishes(q, n) == IF q.op = "permission" THEN n = NextSocket(q) ELSE n = Idle

\* What UpdateGet does, in terms of the handler it goes on as.
LEMMA UpdateGetDoes ==
    ASSUME Base, NEW t \in Task, UpdateGet(t), NEW q, q = task[t]
    PROVE  /\ q.pc = "get" /\ q.u \in User /\ q.at \in Channel /\ Placed(q)
           /\ UNCHANGED <<redisVars, dbVars, socketVars>>
           /\ \E n : /\ Proceed(t, n, {})
                     /\ \/ /\ state[q.at][q.u].in
                           /\ Like(n, q, "set", q.at, q.val, state[q.at][q.u], q.keys)
                        \/ ~state[q.at][q.u].in /\ Finishes(q, n)
<1>1. q.pc = "get" /\ q \in TaskRecord /\ Placed(q) /\ q.u \in User /\ q.at \in Channel
  BY TaskFacts DEF UpdateGet, Shaped, UpdatePc
<1> DEFINE e == state[q.at][q.u]
<1>2. e \in Entry BY <1>1 DEF Base, VoiceIInv, VoiceTypeOK
<1>3. Like([q EXCEPT !.pc = "set", !.got = e], q, "set", q.at, q.val, e, q.keys)
 <2> HIDE DEF e
 <2> QED BY <1>1, <1>2, LikeGot DEF Awaits
<1>4. CASE e.in BY <1>1, <1>3, <1>4 DEF UpdateGet
<1>5. CASE ~e.in BY <1>1, <1>5 DEF UpdateGet, AfterUpdate, Finishes
<1> QED BY <1>4, <1>5

\* What UpdateSet does, in terms of the handler it goes on as.
LEMMA UpdateSetDoes ==
    ASSUME Base, NEW t \in Task, UpdateSet(t), NEW q, q = task[t]
    PROVE  /\ q.pc = "set" /\ q.u \in User /\ Placed(q) /\ q.got \in Entry /\ q.val \in BOOLEAN
           /\ UNCHANGED <<members, dbVars, socketVars>>
           /\ \A c \in Channel, u \in User :
                  state'[c][u] = IF c = q.at /\ u = q.u THEN Updated(q) ELSE state[c][u]
           /\ Updated(q).in = q.got.in
           /\ Updated(q).isMuted = IF q.op = "deafen" THEN q.got.isMuted ELSE q.val
           /\ \E n : Proceed(t, n, {}) /\ Finishes(q, n)
<1>1. /\ q.pc = "set" /\ q \in TaskRecord /\ Placed(q) /\ q.u \in User
      /\ q.got \in Entry /\ q.val \in BOOLEAN
  BY TaskFacts DEF UpdateSet
<1>2. /\ Updated(q).in = q.got.in
      /\ Updated(q).isMuted = IF q.op = "deafen" THEN q.got.isMuted ELSE q.val
  BY <1>1 DEF Updated, Entry
<1>3. \A c \in Channel, u \in User :
          state'[c][u] = IF c = q.at /\ u = q.u THEN Updated(q) ELSE state[c][u]
  BY <1>1 DEF UpdateSet, Base, VoiceIInv, VoiceTypeOK
<1> QED BY <1>1, <1>2, <1>3 DEF UpdateSet, AfterUpdate, Finishes

\* Within these steps nobody's sockets change channel, and no flag's op changes.
LEMMA FlagGoesOn ==
    ASSUME NEW u \in User, NEW q, Phase(u, q), q.u = u, q.pc \in FlagPc,
           NEW n, n.op = q.op, n.k = q.k, n.c = q.c, n.at = q.at,
           n.pc \in {"muteSpeak", "muteMember", "get"},
           n.pc # "get" => q.op = "mute" /\ n.val = FALSE
    PROVE  Phase(u, n)
<1>1. /\ Agrees(u) /\ q.op \in {"mute", "deafen"}
      /\ q.k # NoSocket /\ voiceChannel[q.k] = q.at /\ q.c = q.at
  BY DEF Phase, StillPhase, StillPc
<1>2. JoinPhase(u, n) /\ LeavePhase(u, n) BY <1>1 DEF JoinPhase, JoinPc, LeavePhase, LeavePc
<1>3. StillPhase(u, n) BY <1>1 DEF StillPhase, StillPc, FlagPc
<1> QED BY <1>2, <1>3 DEF Phase

\* The steps of a mute or a deafen before it reads the entry.
LEMMA FlagStepWhere ==
    ASSUME Base, NEW t \in Task, NEW q, q = task[t], q.pc \in FlagPc,
           NEW n, Proceed(t, n, {}), UNCHANGED <<redisVars, socketVars>>,
           \/ n = Idle
           \/ /\ n.op = q.op /\ n.k = q.k /\ n.u = q.u /\ n.c = q.c /\ n.at = q.at
              /\ n.pc \in {"muteSpeak", "muteMember", "get"}
              /\ Phase(q.u, q) /\ n.pc # "get" => q.op = "mute" /\ n.val = FALSE
    PROVE  WhereIInv'
<1>1. Placed(q) /\ q.u \in User /\ q.pc \notin Waiting /\ q.pc \in StillPc
  BY TaskFacts DEF FlagPc, Waiting, StillPc
<1>2. Phase(q.u, q) => Agrees(q.u) /\ q.op # "drop" BY <1>1 DEF Phase, StillPhase
<1>3. CASE n = Idle
 <2>1. n.pc = "idle" /\ n.k = NoSocket BY <1>3, IdleFields
 <2>2. Placed(n) /\ ~Works(n, q.u) BY <1>3, <2>1, PlacedFree DEF Works, Waiting
 <2> QED BY <1>1, <1>2, <2>1, <2>2, WorkingStep
<1>4. CASE n # Idle
 <2>1. /\ n.op = q.op /\ n.k = q.k /\ n.u = q.u /\ n.c = q.c /\ n.at = q.at
       /\ n.pc \in {"muteSpeak", "muteMember", "get"}
       /\ Phase(q.u, q) /\ n.pc # "get" => q.op = "mute" /\ n.val = FALSE
   BY <1>4
 <2>2. Placed(n) /\ Works(n, q.u) BY <1>1, <2>1, PlacedLike DEF Works, Waiting
 <2>3. Phase(q.u, q) => Phase(q.u, n) BY <1>1, <2>1, FlagGoesOn
 <2> QED BY <1>1, <1>2, <2>1, <2>2, <2>3, WorkingStep
<1> QED BY <1>3, <1>4

\* A flag is looked at where the user is, ...
LEMMA FlagCheckWhere ==
    ASSUME Base, NEW t \in Task, FlagCheck(t)
    PROVE  WhereIInv'
<1>1. PICK q : q = task[t] OBVIOUS
<1>2. q.pc = "check" /\ q.u \in User /\ Placed(q) /\ UNCHANGED <<redisVars, socketVars>> BY <1>1, FlagCheckDoes
<1>n. PICK n : /\ Proceed(t, n, {})
               /\ \/ n = Idle
                  \/ /\ q.op = "mute" /\ q.val = FALSE
                     /\ Like(n, q, "muteSpeak", q.at, q.val, q.got, q.keys)
                  \/ Like(n, q, "get", q.at, q.val, q.got, q.keys)
  BY <1>1, FlagCheckDoes
<1>3. \/ n = Idle /\ n.pc = "idle" /\ n.k = NoSocket
      \/ /\ n.op = q.op /\ n.k = q.k /\ n.u = q.u /\ n.c = q.c /\ n.at = q.at
         /\ n.pc \in {"muteSpeak", "get"} /\ (n.pc # "get" => q.op = "mute" /\ n.val = FALSE)
  BY <1>n, IdleFields DEF Like
<1> QED BY <1>1, <1>2, <1>n, <1>3, FlagStepWhere DEF FlagPc

\* ... twice more if it unmutes, ...
LEMMA UnmuteCheckSpeakWhere ==
    ASSUME Base, NEW t \in Task, UnmuteCheckSpeak(t)
    PROVE  WhereIInv'
<1>1. PICK q : q = task[t] OBVIOUS
<1>2. q.pc = "muteSpeak" /\ q.u \in User /\ Placed(q) /\ UNCHANGED <<redisVars, socketVars>>
  BY <1>1, UnmuteCheckSpeakDoes
<1>n. PICK n : /\ Proceed(t, n, {})
               /\ \/ Like(n, q, "muteMember", q.at, q.val, q.got, q.keys)
                  \/ Like(n, q, "get", q.at, TRUE, q.got, q.keys)
  BY <1>1, UnmuteCheckSpeakDoes
<1>3. /\ n.op = q.op /\ n.k = q.k /\ n.u = q.u /\ n.c = q.c /\ n.at = q.at
      /\ n.pc \in {"muteMember", "get"} /\ (n.pc # "get" => n.val = q.val)
  BY <1>n DEF Like
<1>4. Phase(q.u, q) => q.op = "mute" /\ q.val = FALSE BY <1>2 DEF Phase, StillPhase
<1> QED BY <1>1, <1>2, <1>n, <1>3, <1>4, FlagStepWhere DEF FlagPc

\* ... for SPEAK and for the server mute, ...
LEMMA UnmuteCheckMemberWhere ==
    ASSUME Base, NEW t \in Task, UnmuteCheckMember(t)
    PROVE  WhereIInv'
<1>1. PICK q : q = task[t] OBVIOUS
<1>2. q.pc = "muteMember" /\ q.u \in User /\ Placed(q) /\ UNCHANGED <<redisVars, socketVars>>
  BY <1>1, UnmuteCheckMemberDoes
<1>n. PICK n : Proceed(t, n, {}) /\ Like(n, q, "get", q.at, ServerMuted(q.u, q.c), q.got, q.keys)
  BY <1>1, UnmuteCheckMemberDoes
<1>3. /\ n.op = q.op /\ n.k = q.k /\ n.u = q.u /\ n.c = q.c /\ n.at = q.at /\ n.pc = "get" BY <1>n DEF Like
<1> QED BY <1>1, <1>2, <1>n, <1>3, FlagStepWhere DEF FlagPc

\* After an update its handler works on nobody.
LEMMA FinishFields ==
    ASSUME NEW q, NEW n, Finishes(q, n)
    PROVE  /\ n.k = NoSocket /\ n.pc \in {"idle", "loop"} /\ Placed(n)
           /\ \A u : ~Works(n, u)
<1>1. n.k = NoSocket /\ (n.pc = "loop" \/ (n.pc = "idle" /\ n = Idle))
 <2>1. CASE n = NextSocket(q) BY <2>1, NextFields
 <2>2. CASE n = Idle BY <2>2, IdleFields
 <2> QED BY <2>1, <2>2 DEF Finishes
<1> QED BY <1>1, PlacedFree DEF Works, Waiting

\* ... read, ...
LEMMA UpdateGetWhere ==
    ASSUME Base, NEW t \in Task, UpdateGet(t)
    PROVE  WhereIInv'
<1>1. PICK q : q = task[t] OBVIOUS
<1>2. /\ q.pc = "get" /\ q.u \in User /\ q.at \in Channel /\ Placed(q)
      /\ UNCHANGED <<redisVars, socketVars>>
  BY <1>1, UpdateGetDoes
<1>3. PICK n : /\ Proceed(t, n, {})
               /\ \/ /\ state[q.at][q.u].in
                     /\ Like(n, q, "set", q.at, q.val, state[q.at][q.u], q.keys)
                  \/ ~state[q.at][q.u].in /\ Finishes(q, n)
  BY <1>1, UpdateGetDoes
<1>4. q.pc \notin Waiting /\ q.pc \in StillPc BY <1>2 DEF Waiting, StillPc
<1>5. Phase(q.u, q) => /\ Agrees(q.u) /\ q.op \in {"mute", "deafen", "modMute", "permission"}
                       /\ q.op \in {"modMute", "permission"} => q.val = TRUE
                       /\ q.op \in {"mute", "deafen", "permission"} =>
                              q.k # NoSocket /\ voiceChannel[q.k] = q.at /\ q.c = q.at
  BY <1>2, <1>4 DEF Phase, StillPhase
<1>7. CASE Finishes(q, n)
 <2>1. n.pc \in {"idle", "loop"} /\ Placed(n) /\ ~Works(n, q.u) BY <1>7, FinishFields
 <2> QED BY <1>1, <1>2, <1>3, <1>4, <1>5, <2>1, WorkingStep
<1>8. CASE state[q.at][q.u].in /\ Like(n, q, "set", q.at, q.val, state[q.at][q.u], q.keys)
 <2>1. /\ n.op = q.op /\ n.k = q.k /\ n.u = q.u /\ n.c = q.c /\ n.at = q.at /\ n.pc = "set"
       /\ n.val = q.val /\ n.got = state[q.at][q.u]
   BY <1>8 DEF Like
 <2>2. Placed(n) /\ Works(n, q.u) BY <1>2, <2>1, PlacedLike DEF Works, Waiting
 <2>3. ASSUME Phase(q.u, q) PROVE Phase(q.u, n)
  <3>1. JoinPhase(q.u, n) /\ LeavePhase(q.u, n) BY <1>5, <2>1, <2>3 DEF JoinPhase, JoinPc, LeavePhase, LeavePc
  <3>2. StillPhase(q.u, n) BY <1>2, <1>5, <1>8, <2>1, <2>3 DEF StillPhase, StillPc, FlagPc
  <3> QED BY <3>1, <3>2 DEF Phase
 <2> QED BY <1>1, <1>2, <1>3, <1>4, <1>5, <2>1, <2>2, <2>3, WorkingStep
<1> QED BY <1>3, <1>7, <1>8

\* ... and written to an entry that is still there.
LEMMA UpdateSetWhere ==
    ASSUME Base, NEW t \in Task, UpdateSet(t)
    PROVE  WhereIInv'
<1>1. PICK q : q = task[t] OBVIOUS
<1>2. /\ q.pc = "set" /\ q.u \in User /\ Placed(q)
      /\ UNCHANGED <<members, socketVars>>
      /\ \A c \in Channel, u \in User :
             state'[c][u] = IF c = q.at /\ u = q.u THEN Updated(q) ELSE state[c][u]
      /\ Updated(q).in = q.got.in
  BY <1>1, UpdateSetDoes
<1>3. PICK n : Proceed(t, n, {}) /\ Finishes(q, n) BY <1>1, UpdateSetDoes
<1>4. /\ Placed(n) /\ n.pc \in {"idle", "loop"} /\ ~Works(n, q.u)
      /\ q.pc \notin Waiting /\ q.pc \in StillPc
  BY <1>2, <1>3, FinishFields DEF Waiting, StillPc
<1>5. \A u \in User : SameTabs(u) /\ (u # q.u => SameKeys(u)) BY <1>2 DEF socketVars, SameKeys, SameTabs
<1>6. ASSUME Phase(q.u, q) PROVE Agrees(q.u)' /\ \A k : ~Dropping(q, k)
 <2>1. Agrees(q.u) /\ q.got = state[q.at][q.u] /\ q.op # "drop" BY <1>2, <1>4, <1>6 DEF Phase, StillPhase
 <2>2. \A c \in Channel : state'[c][q.u].in <=> state[c][q.u].in BY <1>2, <2>1
 <2>3. \A c \in Channel : HasTab(q.u, c)' <=> HasTab(q.u, c) BY <1>2 DEF socketVars, HasTab, Mine
 <2> QED BY <1>2, <2>1, <2>2, <2>3 DEF Agrees, Agree, Dropping
<1> QED BY <1>1, <1>2, <1>3, <1>4, <1>5, <1>6, KeepTabs, WritingStep

------------------------------------------------------------
(* Moderation.                                                              *)

\* What ModMuteKeys does, in terms of the handler it goes on as.
LEMMA ModMuteKeysDoes ==
    ASSUME Base, NEW t \in Task, ModMuteKeys(t), NEW q, q = task[t]
    PROVE  /\ q.pc = "keys" /\ q.op = "modMute" /\ q.k = NoSocket /\ q.u \in User /\ Placed(q)
           /\ UNCHANGED <<redisVars, dbVars, socketVars>>
           /\ \E n : /\ Proceed(t, n, IF Busy(q.u) THEN {q.u} ELSE {})
                     /\ Like(n, q, "find", q.at, q.val, q.got, HasEntry(q.u))
<1>1. q.pc = "keys" /\ q \in TaskRecord /\ Placed(q) /\ q.u \in User BY TaskFacts DEF ModMuteKeys
<1>2. q.op = "modMute" /\ q.k = NoSocket BY <1>1 DEF Placed
<1> DEFINE h == HasEntry(q.u)
<1>3. h \in SUBSET Channel BY DEF HasEntry
<1>4. Like([q EXCEPT !.pc = "find", !.keys = h], q, "find", q.at, q.val, q.got, h)
 <2> HIDE DEF h
 <2> QED BY <1>1, <1>3, LikeKeys DEF Awaits
<1> QED BY <1>1, <1>2, <1>4 DEF ModMuteKeys

\* What ModMuteFind does, in terms of the handler it goes on as.
LEMMA ModMuteFindDoes ==
    ASSUME Base, NEW t \in Task, ModMuteFind(t), NEW q, q = task[t]
    PROVE  /\ q.pc = "find" /\ q.op = "modMute" /\ q.k = NoSocket /\ q.u \in User /\ Placed(q)
           /\ UNCHANGED <<redisVars, dbVars, socketVars>>
           /\ \E n : /\ Proceed(t, n, {})
                     /\ \/ q.keys = {} /\ n = Idle
                        \/ \E c \in q.keys \cap Channel :
                              \/ /\ state[c][q.u].in
                                 /\ Like(n, q, "get", c, TRUE, q.got, {})
                              \/ /\ ~state[c][q.u].in
                                 /\ Like(n, q, "find", q.at, q.val, q.got, q.keys \ {c})
<1>1. /\ q.pc = "find" /\ q \in TaskRecord /\ Placed(q) /\ q.u \in User
      /\ q.keys \in SUBSET Channel
  BY TaskFacts DEF ModMuteFind
<1>2. q.op = "modMute" /\ q.k = NoSocket BY <1>1 DEF Placed
<1>3. UNCHANGED <<redisVars, dbVars, socketVars>> BY DEF ModMuteFind
<1>4. CASE q.keys = {} /\ Proceed(t, Idle, {}) BY <1>1, <1>2, <1>3, <1>4
<1>5. CASE \E c \in q.keys :
               Proceed(t, IF state[c][q.u].in
                          THEN [q EXCEPT !.pc = "get", !.at = c, !.val = TRUE, !.keys = {}]
                          ELSE [q EXCEPT !.keys = @ \ {c}], {})
 <2>1. PICK c \in q.keys :
              Proceed(t, IF state[c][q.u].in
                         THEN [q EXCEPT !.pc = "get", !.at = c, !.val = TRUE, !.keys = {}]
                         ELSE [q EXCEPT !.keys = @ \ {c}], {})
   BY <1>5
 <2>2. c \in Channel BY <1>1
 <2> DEFINE g == [q EXCEPT !.pc = "get", !.at = c, !.val = TRUE, !.keys = {}]
            f == [q EXCEPT !.keys = @ \ {c}]
 <2>3. Like(g, q, "get", c, TRUE, q.got, {})
  <3> DEFINE r == [q EXCEPT !.pc = "get", !.at = c, !.val = TRUE]
  <3>1. Like(r, q, "get", c, TRUE, q.got, q.keys) BY <1>1, <2>2, LikeAtVal DEF Awaits
  <3>2. g = [r EXCEPT !.pc = "get", !.keys = {}] BY <1>1 DEF TaskRecord
  <3> HIDE DEF r, g
  <3>3. r \in TaskRecord BY <3>1 DEF Like
  <3>4. Like([r EXCEPT !.pc = "get", !.keys = {}], r, "get", r.at, r.val, r.got, {})
    BY <3>3, LikeKeys DEF Awaits
  <3> QED BY <3>1, <3>2, <3>4 DEF Like
 <2>4. Like(f, q, "find", q.at, q.val, q.got, q.keys \ {c})
  <3>1. q.keys \ {c} \in SUBSET Channel BY <1>1
  <3>2. f = [q EXCEPT !.pc = "find", !.keys = q.keys \ {c}] BY <1>1 DEF TaskRecord
  <3> QED BY <1>1, <3>1, <3>2, LikeKeys DEF Awaits
 <2> HIDE DEF f, g
 <2>5. CASE state[c][q.u].in
  <3>1. Proceed(t, g, {}) BY <2>1, <2>5 DEF g
  <3> QED BY <1>1, <1>2, <1>3, <2>2, <2>3, <2>5, <3>1
 <2>6. CASE ~state[c][q.u].in
  <3>1. Proceed(t, f, {}) BY <2>1, <2>6 DEF f
  <3> QED BY <1>1, <1>2, <1>3, <2>2, <2>4, <2>6, <3>1
 <2> QED BY <2>5, <2>6
<1> QED BY <1>1, <1>4, <1>5 DEF ModMuteFind

\* A moderator's mute finds the entry, or none.
LEMMA ModMuteFindWhere ==
    ASSUME Base, NEW t \in Task, ModMuteFind(t)
    PROVE  WhereIInv'
<1>1. PICK q : q = task[t] OBVIOUS
<1>2. /\ q.pc = "find" /\ q.op = "modMute" /\ q.k = NoSocket /\ q.u \in User /\ Placed(q)
      /\ UNCHANGED <<redisVars, socketVars>>
  BY <1>1, ModMuteFindDoes
<1>n. PICK n : /\ Proceed(t, n, {})
               /\ \/ q.keys = {} /\ n = Idle
                  \/ \E c \in q.keys \cap Channel :
                        \/ /\ state[c][q.u].in
                           /\ Like(n, q, "get", c, TRUE, q.got, {})
                        \/ /\ ~state[c][q.u].in
                           /\ Like(n, q, "find", q.at, q.val, q.got, q.keys \ {c})
  BY <1>1, ModMuteFindDoes
<1>3. \/ n = Idle /\ n.pc = "idle" /\ n.k = NoSocket
      \/ /\ n.op = "modMute" /\ n.k = NoSocket /\ n.u = q.u
         /\ n.pc = "find" \/ (n.pc = "get" /\ n.val = TRUE)
  BY <1>2, <1>n, IdleFields DEF Like
<1>4. Placed(n) /\ q.pc \notin Waiting /\ q.pc \in StillPc
      /\ (n.u = q.u \/ n.pc \in {"idle", "loop", "sweep"})
  BY <1>2, <1>3 DEF Placed, Waiting, StillPc
<1>5. ASSUME Phase(q.u, q) PROVE Agrees(q.u) /\ (Works(n, q.u) => Phase(q.u, n))
 <2>1. Agrees(q.u) BY <1>4, <1>5 DEF Phase, StillPhase
 <2>2. Works(n, q.u) => JoinPhase(q.u, n) /\ LeavePhase(q.u, n) /\ StillPhase(q.u, n)
   BY <1>3, <2>1 DEF Works, Waiting, JoinPhase, JoinPc, LeavePhase, LeavePc, StillPhase, StillPc, FlagPc
 <2> QED BY <2>1, <2>2 DEF Phase
<1> QED BY <1>1, <1>2, <1>n, <1>4, <1>5, WorkingStep

\* What VisitDecides does, in terms of the handler it goes on as.
LEMMA VisitDecidesDoes ==
    ASSUME Base, NEW t \in Task, VisitDecides(t), NEW q, q = task[t]
    PROVE  /\ q.pc = "perms" /\ q.u \in User /\ Placed(q) /\ q.at \in Channel
           /\ UNCHANGED <<redisVars, dbVars, socketVars>>
           /\ \E n : /\ Proceed(t, n, {})
                     /\ \/ Like(n, q, "del", q.at, q.val, q.got, q.keys)
                        \/ /\ "connect" \in perm[q.u][q.at]
                           /\ Like(n, q, "get", q.at, TRUE, q.got, q.keys)
                        \/ /\ Bits \subseteq perm[q.u][q.at]
                           /\ n = NextSocket(q)
<1>1. q.pc = "perms" /\ q \in TaskRecord /\ Placed(q) /\ q.u \in User /\ q.at \in Channel
  BY TaskFacts DEF VisitDecides, Shaped, UpdatePc
<1>2. /\ Like([q EXCEPT !.pc = "del"], q, "del", q.at, q.val, q.got, q.keys)
      /\ Like([q EXCEPT !.pc = "get", !.val = TRUE], q, "get", q.at, TRUE, q.got, q.keys)
  BY <1>1, LikePc, LikeVal DEF Awaits
<1>3. UNCHANGED <<redisVars, dbVars, socketVars>> BY DEF VisitDecides
<1>4. CASE "connect" \notin perm[q.u][q.at]
 <2>1. Proceed(t, [q EXCEPT !.pc = "del"], {}) BY <1>1, <1>4 DEF VisitDecides, CanRemain
 <2> QED BY <1>1, <1>2, <1>3, <2>1
<1>5. CASE "connect" \in perm[q.u][q.at] /\ "speak" \notin perm[q.u][q.at]
 <2>1. Proceed(t, [q EXCEPT !.pc = "get", !.val = TRUE], {}) BY <1>1, <1>5 DEF VisitDecides, CanRemain
 <2> QED BY <1>1, <1>2, <1>3, <1>5, <2>1
<1>6. CASE "connect" \in perm[q.u][q.at] /\ "speak" \in perm[q.u][q.at]
 <2>1. Proceed(t, NextSocket(q), {}) BY <1>1, <1>6 DEF VisitDecides, CanRemain
 <2>2. Bits \subseteq perm[q.u][q.at] BY <1>6 DEF Bits
 <2> QED BY <1>1, <1>2, <1>3, <2>1, <2>2
<1> QED BY <1>4, <1>5, <1>6

\* While a walk looks at a socket in voice, no other socket of its user is.
LEMMA TalkerAlone ==
    ASSUME Base, NEW u \in User, u \notin raced, NEW q, Placed(q), q.u = u, q.k # NoSocket,
           voiceChannel[q.k] \in Channel
    PROVE  q.k \in Mine(u) /\ \A k \in Mine(u) : k # q.k => voiceChannel[k] = NoChannel
<1>1. OneTalks(u) BY DEF Base, WhereIInv, Whereabouts
<1>2. q.k \in Mine(u) /\ voiceChannel[q.k] # NoChannel BY VoiceAssumption DEF Placed, Mine
<1> QED BY <1>1, <1>2 DEF OneTalks

\* What a walk decides about a socket in its channel.
LEMMA VisitDecidesWhere ==
    ASSUME Base, NEW t \in Task, VisitDecides(t)
    PROVE  WhereIInv'
<1>1. PICK q : q = task[t] OBVIOUS
<1>2. /\ q.pc = "perms" /\ q.u \in User /\ Placed(q) /\ q.at \in Channel
      /\ UNCHANGED <<redisVars, socketVars>>
  BY <1>1, VisitDecidesDoes
<1>n. PICK n : /\ Proceed(t, n, {})
               /\ \/ Like(n, q, "del", q.at, q.val, q.got, q.keys)
                  \/ Like(n, q, "get", q.at, TRUE, q.got, q.keys)
                  \/ n = NextSocket(q)
  BY <1>1, VisitDecidesDoes
<1>3. \/ n.pc = "loop" /\ n.k = NoSocket
      \/ /\ n.op = q.op /\ n.k = q.k /\ n.u = q.u /\ n.c = q.c /\ n.at = q.at
         /\ n.pc = "del" \/ (n.pc = "get" /\ n.val = TRUE)
 <2>1. CASE n = NextSocket(q) BY <2>1, NextFields
 <2> QED BY <1>n, <2>1 DEF Like
<1>4. Placed(n) /\ q.pc \notin Waiting /\ q.pc \in StillPc
      /\ (n.u = q.u \/ n.pc \in {"idle", "loop", "sweep"})
  BY <1>2, <1>3, PlacedLike, PlacedFree DEF Waiting, StillPc
<1>5. ASSUME q.u \notin raced, Phase(q.u, q)
      PROVE  q.op # "drop" /\ Agrees(q.u) /\ (Works(n, q.u) => Phase(q.u, n))
 <2>1. /\ Agrees(q.u) /\ q.op = "permission"
       /\ q.k # NoSocket /\ voiceChannel[q.k] = q.at /\ q.c = q.at
   BY <1>2, <1>4, <1>5 DEF Phase, StillPhase
 <2>2. \A k \in Mine(q.u) : k # q.k => voiceChannel[k] = NoChannel BY <1>1, <1>2, <1>4, <1>5, <2>1, TalkerAlone
 <2>3. Works(n, q.u) => JoinPhase(q.u, n) BY <1>3, <2>1 DEF Works, Waiting, JoinPhase, JoinPc
 <2>4. Works(n, q.u) => LeavePhase(q.u, n)
   BY <1>2, <1>3, <2>1, <2>2 DEF Works, Waiting, LeavePhase, LeavePc, Agrees
 <2>5. Works(n, q.u) => StillPhase(q.u, n) BY <1>3, <2>1 DEF Works, Waiting, StillPhase, StillPc, FlagPc
 <2> QED BY <2>1, <2>3, <2>4, <2>5 DEF Phase
<1> QED BY <1>1, <1>2, <1>n, <1>4, <1>5, WorkingStep

\* A moderator's mute looks for the keys of a user nobody works on.
LEMMA ModMuteKeysWhere ==
    ASSUME Base, NEW t \in Task, ModMuteKeys(t)
    PROVE  WhereIInv'
<1>1. PICK q : q = task[t] OBVIOUS
<1>2. /\ q.pc = "keys" /\ q.op = "modMute" /\ q.k = NoSocket /\ q.u \in User /\ Placed(q)
      /\ UNCHANGED <<redisVars, socketVars>>
  BY <1>1, ModMuteKeysDoes
<1>n. PICK n : /\ Proceed(t, n, IF Busy(q.u) THEN {q.u} ELSE {})
               /\ Like(n, q, "find", q.at, q.val, q.got, HasEntry(q.u))
  BY <1>1, ModMuteKeysDoes
<1>3. n.op = "modMute" /\ n.k = NoSocket /\ n.u = q.u /\ n.pc = "find" BY <1>2, <1>n DEF Like
<1>4. Placed(n) /\ q.pc \in Waiting /\ n.pc \notin Waiting /\ q.pc # "dropped" BY <1>2, <1>3 DEF Placed, Waiting
<1>5. Agrees(n.u) => Phase(n.u, n)
  BY <1>3 DEF Phase, JoinPhase, JoinPc, LeavePhase, LeavePc, StillPhase, StillPc, FlagPc
<1> QED BY <1>1, <1>2, <1>n, <1>3, <1>4, <1>5, StartingStep

\* What a walk makes of a socket it looks at.
VisitsAs(n, q, k) ==
    /\ n \in TaskRecord /\ n.op = q.op /\ n.k = k /\ n.u = Owner[k]
    /\ n.s = q.s /\ n.c = q.c /\ n.at = voiceChannel[k] /\ n.seen = q.seen
\* ... and what of the sockets behind it.
WalksOn(n, q, k) ==
    /\ n.pc = "loop" /\ n.op = q.op /\ n.k = NoSocket /\ n.s = q.s /\ n.c = q.c
    /\ q.op = "kick" => n.u = q.u
    /\ n.seen = q.seen \cup {k}
Evicts(q, k) == q.op = "kick" /\ InServer(voiceChannel[k], q.s)
Reconciles(q, k) == q.op = "permission" /\ voiceChannel[k] = q.c

\* What Visit does, in terms of the handler it goes on as.
LEMMA VisitDoes ==
    ASSUME Base, NEW t \in Task, NEW k \in Socket, Visit(t, k), NEW q, q = task[t]
    PROVE  /\ q.pc = "loop" /\ q.k = NoSocket /\ Placed(q) /\ Shaped(q)
           /\ k \in up /\ k \notin q.seen /\ (q.op = "kick" => Owner[k] = q.u)
           /\ UNCHANGED <<redisVars, dbVars, socketVars>>
           /\ \E n : /\ Proceed(t, n, IF Busy(Owner[k]) THEN {Owner[k]} ELSE {})
                     /\ \/ Evicts(q, k) /\ VisitsAs(n, q, k) /\ n.pc = "del"
                        \/ Reconciles(q, k) /\ VisitsAs(n, q, k) /\ n.pc = "perms"
                        \/ ~Evicts(q, k) /\ ~Reconciles(q, k) /\ WalksOn(n, q, k)
<1>1. q.pc = "loop" /\ q \in TaskRecord /\ Placed(q) /\ Shaped(q) /\ q.k = NoSocket
  BY TaskFacts DEF Visit, Placed
<1>2. k \in up /\ k \notin q.seen /\ (q.op = "kick" => Owner[k] = q.u) BY DEF Visit, Ahead
<1> DEFINE r == [q EXCEPT !.k = k, !.u = Owner[k], !.at = voiceChannel[k]]
           met == IF Busy(Owner[k]) THEN {Owner[k]} ELSE {}
<1>3. /\ r \in TaskRecord /\ r.pc = "loop" /\ r.op = q.op /\ r.k = k /\ r.u = Owner[k]
      /\ r.s = q.s /\ r.c = q.c /\ r.at = voiceChannel[k] /\ r.seen = q.seen
 <2>1. Owner[k] \in User /\ voiceChannel[k] \in Channel \cup {NoChannel}
   BY VoiceAssumption DEF Base, VoiceIInv, VoiceTypeOK
 <2> QED BY <1>1, <2>1, ZenonT(60) DEF TaskRecord
<1>4. /\ Proceed(t, CASE r.op = "kick" /\ InServer(r.at, r.s) -> [r EXCEPT !.pc = "del"]
                       [] r.op = "permission" /\ r.at = r.c -> [r EXCEPT !.pc = "perms"]
                       [] OTHER -> NextSocket(r), met)
      /\ UNCHANGED <<redisVars, dbVars, socketVars>>
  BY DEF Visit
<1> HIDE DEF r, met
<1>5. /\ Like([r EXCEPT !.pc = "del"], r, "del", r.at, r.val, r.got, r.keys)
      /\ Like([r EXCEPT !.pc = "perms"], r, "perms", r.at, r.val, r.got, r.keys)
  BY <1>3, LikePc DEF Awaits
<1>6. CASE Evicts(q, k)
 <2>1. Proceed(t, [r EXCEPT !.pc = "del"], met) BY <1>3, <1>4, <1>6 DEF Evicts
 <2>2. VisitsAs([r EXCEPT !.pc = "del"], q, k) /\ [r EXCEPT !.pc = "del"].pc = "del"
   BY <1>3, <1>5 DEF Like, VisitsAs
 <2> QED BY <1>1, <1>2, <1>4, <1>6, <2>1, <2>2 DEF met
<1>7. CASE Reconciles(q, k)
 <2>1. Proceed(t, [r EXCEPT !.pc = "perms"], met) BY <1>3, <1>4, <1>7 DEF Reconciles
 <2>2. VisitsAs([r EXCEPT !.pc = "perms"], q, k) /\ [r EXCEPT !.pc = "perms"].pc = "perms"
   BY <1>3, <1>5 DEF Like, VisitsAs
 <2> QED BY <1>1, <1>2, <1>4, <1>7, <2>1, <2>2 DEF met
<1>8. CASE ~Evicts(q, k) /\ ~Reconciles(q, k)
 <2>1. Proceed(t, NextSocket(r), met) BY <1>3, <1>4, <1>8 DEF Evicts, Reconciles
 <2>2. WalksOn(NextSocket(r), q, k)
  <3>1. PICK n : n = NextSocket(r) OBVIOUS
  <3>2. /\ n.pc = "loop" /\ n.op = r.op /\ n.k = NoSocket /\ n.s = r.s /\ n.c = r.c
        /\ r.op = "kick" => n.u = r.u
        /\ n.seen = r.seen \cup {r.k}
    BY <3>1, NextFields
  <3>3. WalksOn(n, q, k) BY <1>2, <1>3, <3>2 DEF WalksOn
  <3> QED BY <3>1, <3>3
 <2> QED BY <1>1, <1>2, <1>4, <1>8, <2>1, <2>2 DEF met
<1> QED BY <1>6, <1>7, <1>8

\* A walk looks at a socket whose user nobody works on.
LEMMA VisitWhere ==
    ASSUME Base, NEW t \in Task, NEW k \in Socket, Visit(t, k)
    PROVE  WhereIInv'
<1>1. PICK q : q = task[t] OBVIOUS
<1>2. /\ q.pc = "loop" /\ q.k = NoSocket /\ Placed(q) /\ Shaped(q) /\ k \in up
      /\ UNCHANGED <<redisVars, socketVars>>
  BY <1>1, VisitDoes
<1>n. PICK n : /\ Proceed(t, n, IF Busy(Owner[k]) THEN {Owner[k]} ELSE {})
               /\ \/ Evicts(q, k) /\ VisitsAs(n, q, k) /\ n.pc = "del"
                  \/ Reconciles(q, k) /\ VisitsAs(n, q, k) /\ n.pc = "perms"
                  \/ ~Evicts(q, k) /\ ~Reconciles(q, k) /\ WalksOn(n, q, k)
  BY <1>1, VisitDoes
<1>3. CASE WalksOn(n, q, k)
 <2>1. Placed(n) /\ n.pc = "loop" BY <1>3, PlacedFree DEF WalksOn
 <2> QED BY <1>1, <1>2, <1>n, <2>1, FreeStep
<1>4. CASE VisitsAs(n, q, k) /\ (\/ Evicts(q, k) /\ n.pc = "del"
                                 \/ Reconciles(q, k) /\ n.pc = "perms")
 <2>1. /\ n.op = q.op /\ n.k = k /\ n.u = Owner[k] /\ n.c = q.c /\ n.at = voiceChannel[k]
       /\ n.u \in User /\ n.k # NoSocket /\ n.pc \in {"del", "perms"}
       /\ n.at \in Channel /\ n.op \in {"kick", "permission"}
   BY <1>2, <1>4, VoiceAssumption
      DEF VisitsAs, Evicts, Reconciles, InServer, Shaped, Base, VoiceIInv, VoiceTypeOK
 <2>2. Placed(n) /\ q.pc \in Waiting /\ n.pc \notin Waiting BY <1>2, <2>1 DEF Placed, Waiting
 <2>3. ASSUME Agrees(n.u), OneTalks(n.u) PROVE Phase(n.u, n)
  <3>1. \A o \in Mine(n.u) : o # n.k => voiceChannel[o] = NoChannel
    BY <2>1, <2>3, VoiceAssumption DEF OneTalks, Mine
  <3>2. JoinPhase(n.u, n) BY <2>1 DEF JoinPhase, JoinPc
  <3>3. LeavePhase(n.u, n) BY <2>1, <2>3, <3>1 DEF LeavePhase, LeavePc, Agrees
  <3>4. n.op = "permission" => n.c = n.at BY <1>4, <2>1 DEF Evicts, Reconciles
  <3>5. n.pc = "perms" => n.op = "permission" BY <1>4, <2>1 DEF Reconciles
  <3>6. StillPhase(n.u, n) BY <2>1, <2>3, <3>4, <3>5 DEF StillPhase, StillPc, FlagPc
  <3> QED BY <3>2, <3>3, <3>6 DEF Phase
 <2> QED BY <1>1, <1>2, <1>n, <2>1, <2>2, <2>3, StartingStep
<1> QED BY <1>n, <1>3, <1>4

\* A step after which its handler still works on nobody, though it may concern v:
\* the other handlers, and what awaits a disconnect, are as before.
LEMMA AsideStep ==
    ASSUME Base, NEW t \in Task, NEW q, q = task[t], NEW n, NEW met, Proceed(t, n, met),
           UNCHANGED <<redisVars, voiceChannel>>, Placed(n), NEW v \in User,
           q.pc \in Waiting, n.pc \in Waiting, q.u = v \/ q.pc \in {"idle", "loop", "sweep"},
           n.u = v \/ n.pc \in {"idle", "loop", "sweep"},
           \A u \in User : u # v => SameTabs(u),
           (v \notin raced /\ v \notin met /\ Steps(t, n) /\ DropsCome(v) /\ RoomsFit(v)) =>
               /\ DropsCome(v)' /\ RoomsFit(v)'
               /\ \A o \in Task : (o # t /\ task[o].op = "join" /\ task[o].k \in Mine(v)) =>
                      \/ task[o].k \in up /\ task[o].k \in up'
                      \/ \E p \in Task : task'[p].k = task[o].k /\ task'[p].pc = "dropped"
                      \/ /\ task[o].k \notin up
                         /\ \A p \in Task : task[p].k = task[o].k /\ task[p].pc = "dropped"
                                               => task'[p] = task[p]
    PROVE  WhereIInv'
<1>1. /\ Steps(t, n)
      /\ \A u \in User : u \notin raced' =>
             u \notin raced /\ u \notin met /\ OneWorker(u)'
  BY ProceedSteps DEF Base
<1>2. \A u \in User : SameKeys(u) BY DEF redisVars, SameKeys
<1>3. ASSUME v \notin raced' PROVE Whereabouts(v)'
 <2>1. v \notin raced /\ v \notin met /\ OneWorker(v)' BY <1>1, <1>3
 <2>2. /\ OneTalks(v) /\ DropsCome(v) /\ RoomsFit(v)
       /\ Unworked(v) => Agrees(v)
       /\ \A o \in Task : Works(task[o], v) => Phase(v, task[o])
   BY <2>1 DEF Base, WhereIInv, Whereabouts
 <2>3. /\ DropsCome(v)' /\ RoomsFit(v)'
       /\ \A o \in Task : (o # t /\ task[o].op = "join" /\ task[o].k \in Mine(v)) =>
              \/ task[o].k \in up /\ task[o].k \in up'
              \/ \E p \in Task : task'[p].k = task[o].k /\ task'[p].pc = "dropped"
              \/ /\ task[o].k \notin up
                 /\ \A p \in Task : task[p].k = task[o].k /\ task[p].pc = "dropped"
                                       => task'[p] = task[p]
   BY <1>1, <2>1, <2>2
 <2>4. OneTalks(v)' BY <2>2 DEF OneTalks, Mine
 <2>5. \A c \in Channel : Agree(v, c)' <=> Agree(v, c) BY <1>2, SameAgree
 <2>6. /\ ~Works(task[t], v) /\ ~Works(n, v) /\ task'[t] = n
       /\ \A o \in Task : o # t => task'[o] = task[o]
   BY <1>1 DEF Works, Steps
 <2>7. \A o \in Task : Works(task[o], v)' <=> Works(task[o], v) BY <2>6 DEF Works
 <2>8. Unworked(v)' => Agrees(v)' BY <2>2, <2>5, <2>7 DEF Unworked, Agrees
 <2>9. ASSUME NEW o \in Task, Works(task[o], v)' PROVE Phase(v, task[o])'
  <3>1. o # t /\ task'[o] = task[o] /\ Works(task[o], v) BY <2>6, <2>7, <2>9 DEF Works
  <3>2. PICK r : r = task[o] OBVIOUS
  <3>3. r.k = NoSocket \/ r.k \in Mine(v) BY <3>1, <3>2, WorkerTab DEF Base, WhereIInv, AllPlaced
  <3>4. Phase(v, r) BY <2>2, <3>1, <3>2
  <3>5. r.op = "join" =>
            r.k \in up' \/ \E p \in Task : task'[p].k = r.k /\ task'[p].pc = "dropped"
   <4> SUFFICES ASSUME r.op = "join"
                PROVE  r.k \in up' \/ \E p \in Task : task'[p].k = r.k /\ task'[p].pc = "dropped"
     OBVIOUS
   <4>1. r.k # NoSocket
         /\ (r.k \in up \/ \E p \in Task : task[p].k = r.k /\ task[p].pc = "dropped")
     BY <3>4 DEF Phase, JoinPhase
   <4>2. \/ r.k \in up'
         \/ \E p \in Task : task'[p].k = r.k /\ task'[p].pc = "dropped"
         \/ /\ r.k \notin up
            /\ \A p \in Task : task[p].k = r.k /\ task[p].pc = "dropped" => task'[p] = task[p]
     BY <2>3, <3>1, <3>2, <3>3, <4>1
   <4> QED BY <4>1, <4>2
  <3>6. \A k \in Mine(v) : voiceChannel'[k] = voiceChannel[k] OBVIOUS
  <3>7. Phase(v, r)' BY <1>2, <3>3, <3>4, <3>5, <3>6, PhaseKept
  <3> QED BY <3>1, <3>2, <3>7
 <2> QED BY <2>1, <2>3, <2>4, <2>8, <2>9 DEF Whereabouts
<1>4. \A u \in User : u # v => Off(task[t], u) /\ Off(n, u) BY DEF Off
<1>5. Off(n, v) \/ n.u = v BY DEF Off
<1> QED BY <1>2, <1>3, <1>4, <1>5, StepWhere

\* What DropLeaves does, in terms of the handler it goes on as.
LEMMA DropLeavesDoes ==
    ASSUME Base, NEW t \in Task, DropLeaves(t), NEW q, q = task[t]
    PROVE  /\ q.pc = "dropped" /\ q.op = "drop" /\ q.u \in User /\ Placed(q)
           /\ q.k \in Socket /\ q.u = Owner[q.k]
           /\ UNCHANGED <<redisVars, dbVars, socketVars>>
           /\ \E n : /\ Proceed(t, n, IF \E o \in Task \ {t} : task[o].k = q.k THEN {q.u} ELSE {})
                     /\ \/ /\ voiceChannel[q.k] \in Channel
                           /\ Like(n, q, "del", voiceChannel[q.k], q.val, q.got, q.keys)
                        \/ /\ voiceChannel[q.k] = NoChannel
                           /\ n = Idle
<1>1. q.pc = "dropped" /\ q \in TaskRecord /\ Placed(q) /\ q.u \in User /\ q.k \in Socket
  BY TaskFacts DEF DropLeaves, Shaped
<1>2. q.op = "drop" /\ q.u = Owner[q.k] BY <1>1, VoiceAssumption DEF Placed
<1> DEFINE c == voiceChannel[q.k]
           met == IF \E o \in Task \ {t} : task[o].k = q.k THEN {q.u} ELSE {}
<1>3. c \in Channel \cup {NoChannel} BY <1>1 DEF Base, VoiceIInv, VoiceTypeOK
<1>4. Like([q EXCEPT !.pc = "del", !.at = c], q, "del", c, q.val, q.got, q.keys)
 <2> HIDE DEF c
 <2> QED BY <1>1, <1>3, LikeAt DEF Awaits
<1>5. /\ Proceed(t, IF c # NoChannel THEN [q EXCEPT !.pc = "del", !.at = c] ELSE Idle, met)
      /\ UNCHANGED <<redisVars, dbVars, socketVars>>
  BY DEF DropLeaves, ChannelToLeave
<1> HIDE DEF met
<1>6. CASE c # NoChannel
 <2>1. Proceed(t, [q EXCEPT !.pc = "del", !.at = c], met) BY <1>5, <1>6
 <2> QED BY <1>1, <1>2, <1>3, <1>4, <1>5, <1>6, <2>1 DEF met
<1>7. CASE c = NoChannel
 <2>1. Proceed(t, Idle, met) BY <1>5, <1>7
 <2> QED BY <1>1, <1>2, <1>5, <1>7, <2>1 DEF met
<1> QED BY <1>6, <1>7

\* A disconnect goes on to the leave of the channel its socket is in.
LEMMA DropLeavesWhere ==
    ASSUME Base, NEW t \in Task, DropLeaves(t)
    PROVE  WhereIInv'
<1>1. PICK q : q = task[t] OBVIOUS
<1>2. /\ q.pc = "dropped" /\ q.op = "drop" /\ q.u \in User /\ Placed(q)
      /\ q.k \in Socket /\ q.u = Owner[q.k] /\ UNCHANGED <<redisVars, socketVars>>
  BY <1>1, DropLeavesDoes
<1>n. PICK n : /\ Proceed(t, n, IF \E o \in Task \ {t} : task[o].k = q.k THEN {q.u} ELSE {})
               /\ \/ /\ voiceChannel[q.k] \in Channel
                     /\ Like(n, q, "del", voiceChannel[q.k], q.val, q.got, q.keys)
                  \/ /\ voiceChannel[q.k] = NoChannel
                     /\ n = Idle
  BY <1>1, DropLeavesDoes
<1>3. CASE /\ voiceChannel[q.k] \in Channel
           /\ Like(n, q, "del", voiceChannel[q.k], q.val, q.got, q.keys)
 <2>1. /\ n.op = "drop" /\ n.k = q.k /\ n.u = q.u /\ n.pc = "del" /\ n.at = voiceChannel[q.k]
       /\ n.k # NoSocket
   BY <1>2, <1>3, VoiceAssumption DEF Like
 <2>2. Placed(n) /\ q.pc \in Waiting /\ n.pc \notin Waiting /\ n.pc \in LeavePc
   BY <1>2, <2>1, PlacedLike DEF Waiting, LeavePc
 <2>3. ASSUME Agrees(n.u), OneTalks(n.u) PROVE Phase(n.u, n)
  <3>1. \A o \in Mine(n.u) : o # n.k => voiceChannel[o] = NoChannel
    BY <1>2, <1>3, <2>1, <2>3, VoiceAssumption DEF OneTalks, Mine
  <3>2. JoinPhase(n.u, n) BY <2>1 DEF JoinPhase, JoinPc
  <3>3. LeavePhase(n.u, n) BY <1>3, <2>1, <2>3, <3>1 DEF LeavePhase, LeavePc, Agrees
  <3>4. StillPhase(n.u, n) BY <2>1 DEF StillPhase, StillPc, FlagPc
  <3> QED BY <3>2, <3>3, <3>4 DEF Phase
 <2> QED BY <1>1, <1>2, <1>n, <2>1, <2>2, <2>3, StartingStep
<1>4. CASE voiceChannel[q.k] = NoChannel /\ n = Idle
 <2>1. Placed(n) /\ n.pc = "idle" /\ q.pc \in Waiting /\ n.pc \in Waiting
   BY <1>2, <1>4, IdleFields, PlacedFree DEF Waiting
 <2>2. \A u \in User : SameTabs(u) BY <1>2, OnlyTasks
 <2>3. up' = up /\ voiceChannel' = voiceChannel /\ rooms' = rooms BY <1>2 DEF socketVars
 <2>4. ASSUME q.u \notin (IF \E o \in Task \ {t} : task[o].k = q.k THEN {q.u} ELSE {}),
              Steps(t, n), DropsCome(q.u), RoomsFit(q.u)
       PROVE  /\ DropsCome(q.u)' /\ RoomsFit(q.u)'
              /\ \A o \in Task : (o # t /\ task[o].op = "join" /\ task[o].k \in Mine(q.u)) =>
                     \/ task[o].k \in up /\ task[o].k \in up'
                     \/ /\ task[o].k \notin up
                        /\ \A p \in Task : task[p].k = task[o].k /\ task[p].pc = "dropped"
                                              => task'[p] = task[p]
  <3>1. \A o \in Task : o # t => task[o].k # q.k BY <2>4
  <3>2. RoomsFit(q.u)' BY <2>3, <2>4 DEF RoomsFit, Mine
  <3>3. DropsCome(q.u)'
   <4> SUFFICES ASSUME NEW k \in Mine(q.u), k \notin up', voiceChannel'[k] # NoChannel
                PROVE  \E o \in Task : Dropping(task'[o], k)
     BY DEF DropsCome, Mine, Dropping
   <4>1. PICK o \in Task : Dropping(task[o], k) BY <2>3, <2>4 DEF DropsCome
   <4>2. o # t BY <1>1, <1>4, <2>3, <4>1 DEF Dropping
   <4> QED BY <2>4, <4>1, <4>2 DEF Steps
  <3>4. \A o \in Task : o # t =>
            \A p \in Task : task[p].k = task[o].k => task'[p] = task[p]
    BY <1>1, <2>4, <3>1 DEF Steps
  <3> QED BY <2>3, <3>2, <3>3, <3>4
 <2> QED BY <1>1, <1>2, <1>n, <2>1, <2>2, <2>3, <2>4, AsideStep
<1> QED BY <1>n, <1>3, <1>4

\* A walk that has seen every socket, ...
LEMMA WalkEndsWhere ==
    ASSUME Base, NEW t \in Task, WalkEnds(t)
    PROVE  WhereIInv'
<1> DEFINE w == [Idle EXCEPT !.pc = "sweep", !.op = "sweep", !.s = task[t].s, !.u = task[t].u]
           n == IF task[t].op = "kick" THEN w ELSE Idle
<1>1. /\ task[t].pc = "loop" /\ Proceed(t, n, {})
      /\ UNCHANGED <<redisVars, socketVars>>
  BY DEF WalkEnds
<1>2. w.pc = "sweep" /\ w.k = NoSocket BY DEF Idle
<1> HIDE DEF w
<1>3. n.k = NoSocket /\ (n.pc = "sweep" \/ (n.pc = "idle" /\ n = Idle)) BY <1>2, IdleFields
<1> HIDE DEF n
<1>4. Placed(n) BY <1>3, PlacedFree
<1> QED BY <1>1, <1>3, <1>4, FreeStep

\* ... and the clean-up by user that ends a kick: what it finds it may only leave.
LEMMA SweepWhere ==
    ASSUME Base, NEW t \in Task, Sweep(t)
    PROVE  WhereIInv'
<1>1. PICK q : q = task[t] OBVIOUS
<1>2. /\ q.pc = "sweep" /\ q \in TaskRecord /\ Placed(q) /\ q.u \in User
      /\ UNCHANGED <<redisVars, socketVars>>
  BY <1>1, TaskFacts DEF Sweep
<1>3. q.k = NoSocket BY <1>2 DEF Placed
<1>4. CASE HasEntry(q.u) = {} /\ Proceed(t, Idle, IF Busy(q.u) THEN {q.u} ELSE {})
 <2>1. Placed(Idle) /\ Idle.pc = "idle" BY IdleFields, PlacedFree
 <2> QED BY <1>1, <1>2, <1>4, <2>1, FreeStep
<1>5. CASE \E c \in HasEntry(q.u) : Proceed(t, [q EXCEPT !.pc = "del", !.at = c], {q.u})
 <2>1. PICK c \in HasEntry(q.u) : Proceed(t, [q EXCEPT !.pc = "del", !.at = c], {q.u}) BY <1>5
 <2>2. c \in Channel BY DEF HasEntry
 <2>3. Like([q EXCEPT !.pc = "del", !.at = c], q, "del", c, q.val, q.got, q.keys)
   BY <1>2, <2>2, LikeAt DEF Awaits
 <2>4. PICK n : /\ Proceed(t, n, {q.u})
                /\ Like(n, q, "del", c, q.val, q.got, q.keys)
   BY <2>1, <2>3
 <2>5. n.pc = "del" /\ n.k = NoSocket /\ n.u = q.u BY <1>3, <2>4 DEF Like
 <2>6. Placed(n) BY <2>5 DEF Placed
 <2>7. \A u \in User : SameKeys(u) /\ SameTabs(u) BY <1>2, OnlyTasks
 <2>8. \A u \in User : u # q.u => Off(task[t], u) /\ Off(n, u) BY <1>1, <2>5 DEF Off
 <2>9. q.u \in raced' BY <2>4 DEF Proceed
 <2> QED BY <2>4, <2>5, <2>6, <2>7, <2>8, <2>9, StepWhere
<1> QED BY <1>1, <1>4, <1>5 DEF Sweep

------------------------------------------------------------
(* Requests.                                                                *)

\* A handler that a socket called: n is its record once it is under way.
LEMMA RequestFields ==
    ASSUME Base, NEW t \in Task, task[t].pc = "idle", NEW k \in Socket,
           NEW c, NEW op, NEW pc, NEW at, NEW val \in BOOLEAN,
           NEW n, Like(n, Starts(t, op, k, c), pc, at, val, NoEntry, {}),
           pc \notin {"idle", "keys", "find", "loop", "sweep"},
           pc = "dropped" => op = "drop"
    PROVE  /\ n.pc = pc /\ n.op = op /\ n.k = k /\ n.u = Owner[k] /\ n.c = c /\ n.at = at
           /\ n.val = val
           /\ n.u \in User /\ n.k # NoSocket /\ k \in Mine(n.u) /\ Placed(n)
           /\ task[t] = Idle /\ task[t].k = NoSocket
<1>1. /\ n.pc = pc /\ n.op = op /\ n.k = k /\ n.u = Owner[k] /\ n.c = c /\ n.at = at
      /\ n.val = val
 <2>1. PICK q : q = Starts(t, op, k, c) OBVIOUS
 <2>2. q.op = op /\ q.k = k /\ q.u = Owner[k] /\ q.c = c BY <2>1 DEF Starts, Idle
 <2>3. Like(n, q, pc, at, val, NoEntry, {}) BY <2>1
 <2> QED BY <2>2, <2>3 DEF Like
<1>2. n.u \in User /\ n.k # NoSocket /\ k \in Mine(n.u) BY <1>1, VoiceAssumption DEF Mine
<1>3. Placed(n) BY <1>1, <1>2 DEF Placed
<1>4. task[t] = Idle BY TaskFacts DEF Placed
<1> QED BY <1>1, <1>2, <1>3, <1>4, IdleFields

\* Where no other tab of the user is in voice, ...
LEMMA NoSibling ==
    ASSUME NEW k \in Socket, NEW u, u = Owner[k], u \notin Siblings(k)
    PROVE  \A o \in Mine(u) : o # k => voiceChannel[o] = NoChannel
  BY DEF Siblings, InVoiceElsewhere, Mine

\* A join starts with the leave of the channel its socket is in.
LEMMA JoinWhere ==
    ASSUME Base, NEW t \in Task, NEW k \in Socket, NEW c \in Channel, Join(t, k, c)
    PROVE  WhereIInv'
<1> DEFINE q == Starts(t, "join", k, c)
<1>1. q \in TaskRecord BY StartsTyped
<1>2. q.got = NoEntry /\ q.keys = {} /\ q.at = NoChannel BY DEF Starts, Idle
<1>b. PICK b \in BOOLEAN : b = q.val
  BY <1>1 DEF TaskRecord
<1>3. /\ task[t].pc = "idle" /\ k \in up /\ UNCHANGED <<redisVars, socketVars>>
      /\ Proceed(t, IF voiceChannel[k] # NoChannel
                    THEN [q EXCEPT !.pc = "del", !.at = voiceChannel[k]]
                    ELSE [q EXCEPT !.pc = "validate"], Siblings(k))
  BY DEF Join
<1>0. task[t].pc = "idle" BY <1>3
<1>4. voiceChannel[k] \in Channel \cup {NoChannel} BY DEF Base, VoiceIInv, VoiceTypeOK
<1>5. Mine(Owner[k]) \subseteq Socket BY DEF Mine
<1>6. PICK n : /\ Proceed(t, n, Siblings(k))
               /\ \/ /\ voiceChannel[k] \in Channel
                     /\ Like(n, q, "del", voiceChannel[k], b, NoEntry, {})
                  \/ /\ voiceChannel[k] = NoChannel
                     /\ Like(n, q, "validate", NoChannel, b, NoEntry, {})
 <2> HIDE DEF q
 <2>1. /\ Like([q EXCEPT !.pc = "del", !.at = voiceChannel[k]], q, "del", voiceChannel[k],
               b, NoEntry, {})
       /\ Like([q EXCEPT !.pc = "validate"], q, "validate", NoChannel, b, NoEntry, {})
   BY <1>1, <1>2, <1>b, <1>4, LikeAt, LikePc DEF Awaits
 <2>2. CASE voiceChannel[k] # NoChannel BY <1>3, <1>4, <2>1, <2>2
 <2>3. CASE voiceChannel[k] = NoChannel BY <1>3, <2>1, <2>3
 <2> QED BY <2>2, <2>3
<1>7. \/ /\ voiceChannel[k] \in Channel /\ n.pc = "del" /\ n.at = voiceChannel[k]
      \/ /\ voiceChannel[k] = NoChannel /\ n.pc = "validate"
  BY <1>6 DEF Like
<1>8. /\ n.op = "join" /\ n.k = k /\ n.u = Owner[k] /\ n.c = c
      /\ n.u \in User /\ n.k # NoSocket /\ k \in Mine(n.u) /\ Placed(n)
      /\ task[t] = Idle /\ task[t].k = NoSocket
 <2>1. CASE Like(n, q, "del", voiceChannel[k], b, NoEntry, {}) BY <1>0, <1>4, <2>1, RequestFields
 <2>2. CASE Like(n, q, "validate", NoChannel, b, NoEntry, {}) BY <1>0, <2>2, RequestFields
 <2> QED BY <1>6, <2>1, <2>2
<1>9. ASSUME n.u \notin Siblings(k), Agrees(n.u) PROVE Phase(n.u, n)
 <2>1. \A o \in Mine(n.u) : o # k => voiceChannel[o] = NoChannel BY <1>8, <1>9, NoSibling
 <2>2. CASE n.pc = "del"
  <3>1. JoinPhase(n.u, n) BY <1>3, <1>8, <2>2 DEF JoinPhase, JoinPc
  <3>2. LeavePhase(n.u, n) BY <1>7, <1>8, <1>9, <2>1, <2>2 DEF LeavePhase, LeavePc, Agrees
  <3>3. StillPhase(n.u, n) BY <1>8, <2>2 DEF StillPhase, StillPc, FlagPc
  <3> QED BY <3>1, <3>2, <3>3 DEF Phase
 <2>3. CASE n.pc = "validate"
  <3>1. \A o \in Mine(n.u) : voiceChannel[o] = NoChannel BY <1>7, <2>1, <2>3
  <3>2. \A d \in Channel : n.u \notin members[d] /\ ~state[d][n.u].in
    BY <1>9, <3>1, VoiceAssumption DEF Agrees, Agree, HasTab
  <3>3. JoinPhase(n.u, n) BY <1>3, <1>8, <2>3, <3>1, <3>2 DEF JoinPhase, JoinPc
  <3>4. LeavePhase(n.u, n) /\ StillPhase(n.u, n)
    BY <1>8, <2>3 DEF LeavePhase, LeavePc, StillPhase, StillPc, FlagPc
  <3> QED BY <3>3, <3>4 DEF Phase
 <2> QED BY <1>7, <2>2, <2>3
<1>10. "idle" \in Waiting /\ n.pc \notin Waiting BY <1>7 DEF Waiting
<1> QED BY <1>3, <1>6, <1>8, <1>9, <1>10, StartingStep

\* A leave may name any channel.
LEMMA LeaveWhere ==
    ASSUME Base, NEW t \in Task, NEW k \in Socket, NEW c \in Channel, Leave(t, k, c)
    PROVE  WhereIInv'
<1> DEFINE q == Starts(t, "leave", k, c)
<1>1. q \in TaskRecord BY StartsTyped
<1>2. q.got = NoEntry /\ q.keys = {} /\ q.at = NoChannel BY DEF Starts, Idle
<1>b. PICK b \in BOOLEAN : b = q.val
  BY <1>1 DEF TaskRecord
<1>3. /\ task[t].pc = "idle" /\ UNCHANGED <<redisVars, socketVars>>
      /\ Proceed(t, [q EXCEPT !.pc = "del", !.at = c], Siblings(k))
  BY DEF Leave
<1>4. PICK n : /\ Proceed(t, n, Siblings(k))
               /\ Like(n, q, "del", c, b, NoEntry, {})
 <2> HIDE DEF q
 <2>1. Like([q EXCEPT !.pc = "del", !.at = c], q, "del", c, b, NoEntry, {})
   BY <1>1, <1>2, <1>b, LikeAt DEF Awaits
 <2> QED BY <1>3, <2>1
<1>5. /\ n.op = "leave" /\ n.k = k /\ n.u = Owner[k] /\ n.pc = "del" /\ n.at = c
      /\ n.u \in User /\ n.k # NoSocket /\ k \in Mine(n.u) /\ Placed(n)
      /\ task[t] = Idle /\ task[t].k = NoSocket
  BY <1>3, <1>4, RequestFields
<1>6. ASSUME n.u \notin Siblings(k), Agrees(n.u) PROVE Phase(n.u, n)
 <2>1. \A o \in Mine(n.u) : o # k => voiceChannel[o] = NoChannel BY <1>5, <1>6, NoSibling
 <2>2. LeavePhase(n.u, n) BY <1>5, <1>6, <2>1 DEF LeavePhase, LeavePc, Agrees
 <2>3. JoinPhase(n.u, n) /\ StillPhase(n.u, n) BY <1>5 DEF JoinPhase, JoinPc, StillPhase, StillPc, FlagPc
 <2> QED BY <2>2, <2>3 DEF Phase
<1>7. "idle" \in Waiting /\ n.pc \notin Waiting BY <1>5 DEF Waiting
<1> QED BY <1>3, <1>4, <1>5, <1>6, <1>7, StartingStep

\* A flag is set only in the channel the socket is in.
LEMMA SetFlagWhere ==
    ASSUME Base, NEW t \in Task, NEW op \in {"mute", "deafen"}, NEW k \in Socket,
           NEW c \in Channel, NEW val \in BOOLEAN, SetFlag(t, op, k, c, val)
    PROVE  WhereIInv'
<1> DEFINE q == Starts(t, op, k, c)
<1>1. q \in TaskRecord BY StartsTyped
<1>2. q.got = NoEntry /\ q.keys = {} /\ q.at = NoChannel BY DEF Starts, Idle
<1>3. /\ task[t].pc = "idle" /\ voiceChannel[k] = c /\ UNCHANGED <<redisVars, socketVars>>
      /\ Proceed(t, [q EXCEPT !.pc = "check", !.at = c, !.val = val], Siblings(k))
  BY DEF SetFlag
<1>4. PICK n : /\ Proceed(t, n, Siblings(k))
               /\ Like(n, q, "check", c, val, NoEntry, {})
 <2> HIDE DEF q
 <2>1. Like([q EXCEPT !.pc = "check", !.at = c, !.val = val], q, "check", c, val, NoEntry, {})
   BY <1>1, <1>2, LikeAtVal DEF Awaits
 <2> QED BY <1>3, <2>1
<1>5. /\ n.op = op /\ n.k = k /\ n.u = Owner[k] /\ n.pc = "check" /\ n.at = c /\ n.c = c
      /\ n.u \in User /\ n.k # NoSocket /\ k \in Mine(n.u) /\ Placed(n)
      /\ task[t] = Idle /\ task[t].k = NoSocket
  BY <1>3, <1>4, RequestFields
<1>6. ASSUME Agrees(n.u) PROVE Phase(n.u, n)
 <2>1. StillPhase(n.u, n) BY <1>3, <1>5, <1>6 DEF StillPhase, FlagPc, StillPc
 <2>2. JoinPhase(n.u, n) /\ LeavePhase(n.u, n) BY <1>5 DEF JoinPhase, JoinPc, LeavePhase, LeavePc
 <2> QED BY <2>1, <2>2 DEF Phase
<1>7. "idle" \in Waiting /\ n.pc \notin Waiting BY <1>5 DEF Waiting
<1> QED BY <1>3, <1>4, <1>5, <1>6, <1>7, StartingStep

\* A socket that goes announces its end.
LEMMA DropWhere ==
    ASSUME Base, NEW t \in Task, NEW k \in Socket, Drop(t, k)
    PROVE  WhereIInv'
<1> DEFINE q == Starts(t, "drop", k, NoChannel)
<1>1. q \in TaskRecord BY StartsTyped
<1>2. q.got = NoEntry /\ q.keys = {} /\ q.at = NoChannel BY DEF Starts, Idle
<1>b. PICK b \in BOOLEAN : b = q.val
  BY <1>1 DEF TaskRecord
<1>3. /\ task[t].pc = "idle" /\ UNCHANGED <<redisVars, voiceChannel>>
      /\ up' = up \ {k} /\ rooms' = [rooms EXCEPT ![k] = {}]
      /\ Proceed(t, [q EXCEPT !.pc = "dropped"], {})
  BY DEF Drop
<1>4. PICK n : /\ Proceed(t, n, {})
               /\ Like(n, q, "dropped", NoChannel, b, NoEntry, {})
 <2> HIDE DEF q
 <2>1. Like([q EXCEPT !.pc = "dropped"], q, "dropped", NoChannel, b, NoEntry, {})
   BY <1>1, <1>2, <1>b, LikePc DEF Awaits
 <2> QED BY <1>3, <2>1
<1>5. /\ n.op = "drop" /\ n.k = k /\ n.u = Owner[k] /\ n.pc = "dropped"
      /\ n.u \in User /\ k \in Mine(n.u) /\ Placed(n)
      /\ task[t] = Idle /\ task[t].k = NoSocket
  BY <1>3, <1>4, RequestFields
<1>6. \A o \in Socket : o # k => rooms'[o] = rooms[o] BY <1>3 DEF Base, VoiceIInv, VoiceTypeOK
<1>7. \A u \in User : u # n.u => SameTabs(u) BY <1>3, <1>5, <1>6 DEF SameTabs, Mine
<1>8. ASSUME Steps(t, n), DropsCome(n.u), RoomsFit(n.u)
      PROVE  /\ DropsCome(n.u)' /\ RoomsFit(n.u)'
             /\ \A o \in Task : (o # t /\ task[o].op = "join" /\ task[o].k \in Mine(n.u)) =>
                    \/ task[o].k \in up /\ task[o].k \in up'
                    \/ \E p \in Task : task'[p].k = task[o].k /\ task'[p].pc = "dropped"
                    \/ /\ task[o].k \notin up
                       /\ \A p \in Task : task[p].k = task[o].k /\ task[p].pc = "dropped"
                                             => task'[p] = task[p]
 <2>1. DropsCome(n.u)'
  <3> SUFFICES ASSUME NEW o \in Mine(n.u), o \notin up', voiceChannel'[o] # NoChannel
               PROVE  \E p \in Task : Dropping(task'[p], o)
    BY DEF DropsCome, Mine, Dropping
  <3>1. CASE o = k BY <1>5, <1>8, <3>1 DEF Steps, Dropping
  <3>2. CASE o # k
   <4>1. PICK p \in Task : Dropping(task[p], o) BY <1>3, <1>8, <3>2 DEF DropsCome
   <4>2. p # t BY <1>5, <4>1, VoiceAssumption DEF Dropping, Mine
   <4> QED BY <1>8, <4>1, <4>2 DEF Steps
  <3> QED BY <3>1, <3>2
 <2>2. RoomsFit(n.u)' BY <1>3, <1>6, <1>8 DEF RoomsFit, Mine
 <2>3. ASSUME NEW o \in Task, task[o].k \in Mine(n.u)
       PROVE  \/ task[o].k \in up /\ task[o].k \in up'
              \/ \E p \in Task : task'[p].k = task[o].k /\ task'[p].pc = "dropped"
              \/ /\ task[o].k \notin up
                 /\ \A p \in Task : task[p].k = task[o].k /\ task[p].pc = "dropped"
                                       => task'[p] = task[p]
  <3>1. CASE task[o].k = k BY <1>5, <1>8, <3>1 DEF Steps
  <3>2. CASE task[o].k # k /\ task[o].k \in up BY <1>3, <3>2
  <3>3. CASE task[o].k \notin up
   <4>1. \A p \in Task : task[p].k = task[o].k => p # t BY <1>5, <2>3, VoiceAssumption DEF Mine
   <4> QED BY <1>8, <3>3, <4>1 DEF Steps
  <3> QED BY <3>1, <3>2, <3>3
 <2> QED BY <2>1, <2>2, <2>3
<1>9. "idle" \in Waiting /\ n.pc \in Waiting BY <1>5 DEF Waiting
<1> QED BY <1>3, <1>4, <1>5, <1>7, <1>8, <1>9, AsideStep

\* A moderator's mute has not looked at its user yet.
LEMMA ModMuteWhere ==
    ASSUME Base, NEW t \in Task, NEW s \in Server, NEW u \in User, ModMute(t, s, u)
    PROVE  WhereIInv'
<1> DEFINE n == [Idle EXCEPT !.pc = "keys", !.op = "modMute", !.u = u]
<1>1. /\ task[t].pc = "idle" /\ UNCHANGED <<redisVars, socketVars>>
      /\ Proceed(t, n, {})
  BY DEF ModMute
<1>2. n.pc = "keys" /\ n.op = "modMute" /\ n.u = u /\ n.k = NoSocket BY DEF Idle
<1> HIDE DEF n
<1>3. Placed(n) BY <1>2 DEF Placed
<1>4. up' = up /\ voiceChannel' = voiceChannel /\ rooms' = rooms BY <1>1 DEF socketVars
<1>5. task[t].k = NoSocket BY <1>1, TaskFacts, IdleFields DEF Placed
<1>6. \A v \in User : SameTabs(v) BY <1>1, OnlyTasks
<1>7. ASSUME Steps(t, n), DropsCome(u), RoomsFit(u)
      PROVE  /\ DropsCome(u)' /\ RoomsFit(u)'
             /\ \A o \in Task : (o # t /\ task[o].op = "join" /\ task[o].k \in Mine(u)) =>
                    \/ task[o].k \in up /\ task[o].k \in up'
                    \/ /\ task[o].k \notin up
                       /\ \A p \in Task : task[p].k = task[o].k /\ task[p].pc = "dropped"
                                             => task'[p] = task[p]
 <2>1. DropsCome(u)'
  <3> SUFFICES ASSUME NEW o \in Mine(u), o \notin up', voiceChannel'[o] # NoChannel
               PROVE  \E p \in Task : Dropping(task'[p], o)
    BY DEF DropsCome, Mine, Dropping
  <3>1. PICK p \in Task : Dropping(task[p], o) BY <1>4, <1>7 DEF DropsCome
  <3>2. p # t BY <1>5, <3>1, VoiceAssumption DEF Dropping, Mine
  <3> QED BY <1>7, <3>1, <3>2 DEF Steps
 <2>2. RoomsFit(u)' BY <1>4, <1>7 DEF RoomsFit, Mine
 <2>3. \A o, p \in Task : task[o].k \in Mine(u) /\ task[p].k = task[o].k => task'[p] = task[p]
   BY <1>5, <1>7, VoiceAssumption DEF Steps, Mine
 <2> QED BY <1>4, <2>1, <2>2, <2>3
<1>8. "idle" \in Waiting /\ n.pc \in Waiting BY <1>2 DEF Waiting
<1> QED BY <1>1, <1>2, <1>3, <1>4, <1>6, <1>7, <1>8, AsideStep

\* Nor has a reconciliation, ...
LEMMA ChangePermissionWhere ==
    ASSUME Base, NEW t \in Task, NEW u, NEW c, NEW bits, ChangePermission(t, u, c, bits)
    PROVE  WhereIInv'
<1> DEFINE n == [Idle EXCEPT !.pc = "loop", !.op = "permission", !.c = c]
<1>1. task[t].pc = "idle" /\ UNCHANGED <<redisVars, socketVars>> /\ Proceed(t, n, {}) BY DEF ChangePermission
<1>2. n.pc = "loop" /\ n.k = NoSocket BY DEF Idle
<1> HIDE DEF n
<1>3. Placed(n) BY <1>2, PlacedFree
<1> QED BY <1>1, <1>2, <1>3, FreeStep

\* ... or an eviction.
LEMMA KickWhere ==
    ASSUME Base, NEW t \in Task, NEW s, NEW u, NEW deletes, Kick(t, s, u, deletes)
    PROVE  WhereIInv'
<1> DEFINE n == [Idle EXCEPT !.pc = "loop", !.op = "kick", !.s = s, !.u = u]
<1>1. task[t].pc = "idle" /\ UNCHANGED <<redisVars, socketVars>> /\ Proceed(t, n, {}) BY DEF Kick
<1>2. n.pc = "loop" /\ n.k = NoSocket BY DEF Idle
<1> HIDE DEF n
<1>3. Placed(n) BY <1>2, PlacedFree
<1> QED BY <1>1, <1>2, <1>3, FreeStep

------------------------------------------------------------
(* Connections, restarts, and the whole.                                    *)

\* A phase does not look at the sockets a walk has seen.
LEMMA PhaseUnseen ==
    ASSUME NEW u, NEW q, Phase(u, q), NEW n, n.pc = q.pc, n.op = q.op, n.k = q.k, n.c = q.c,
           n.at = q.at, n.val = q.val, n.got = q.got
    PROVE  Phase(u, n)
<1>1. JoinPhase(u, n) BY DEF Phase, JoinPhase
<1>2. LeavePhase(u, n) BY DEF Phase, LeavePhase
<1>3. StillPhase(u, n) BY DEF Phase, StillPhase
<1> QED BY <1>1, <1>2, <1>3 DEF Phase

\* A socket that connects is in no channel and no room.
LEMMA ConnectWhere ==
    ASSUME Base, NEW k \in Socket, Connect(k)
    PROVE  WhereIInv'
<1>1. /\ k \notin up /\ up' = up \cup {k} /\ raced' = raced
      /\ \A t \in Task : task[t].k # k
      /\ state' = state /\ members' = members
      /\ \A o \in Socket : o # k => voiceChannel'[o] = voiceChannel[o] /\ rooms'[o] = rooms[o]
      /\ voiceChannel'[k] = NoChannel /\ rooms'[k] = {}
      /\ task' = [t \in Task |-> [task[t] EXCEPT !.seen = @ \ {k}]]
  BY DEF Connect, redisVars, Base, VoiceIInv, VoiceTypeOK
<1>2. ASSUME NEW t \in Task
      PROVE  \E n : /\ n = task'[t] /\ (task[t] = Idle => n = Idle)
                    /\ n.pc = task[t].pc /\ n.op = task[t].op /\ n.k = task[t].k
                    /\ n.u = task[t].u /\ n.c = task[t].c /\ n.at = task[t].at
                    /\ n.val = task[t].val /\ n.got = task[t].got
 <2>1. PICK q : q = task[t] OBVIOUS
 <2> DEFINE n == [q EXCEPT !.seen = @ \ {k}]
 <2>2. q \in TaskRecord BY <2>1, TaskFacts
 <2>3. /\ n.pc = q.pc /\ n.op = q.op /\ n.k = q.k
       /\ n.u = q.u /\ n.c = q.c /\ n.at = q.at
       /\ n.val = q.val /\ n.got = q.got
   BY <2>2 DEF TaskRecord
 <2>4. q = Idle => n = Idle
  <3>1. Idle.seen \ {k} = Idle.seen BY IdleFields
  <3>2. [Idle EXCEPT !.seen = Idle.seen] = Idle BY DEF Idle
  <3>3. q = Idle => n = [Idle EXCEPT !.seen = Idle.seen \ {k}] OBVIOUS
  <3> QED BY <3>1, <3>2, <3>3
 <2>5. n = task'[t] BY <1>1, <2>1
 <2> HIDE DEF n
 <2> QED BY <2>1, <2>3, <2>4, <2>5
<1>3. ASSUME NEW t \in Task PROVE Placed(task[t])'
 <2>1. PICK n : /\ n = task'[t] /\ (task[t] = Idle => n = Idle)
                /\ n.pc = task[t].pc /\ n.op = task[t].op /\ n.k = task[t].k
                /\ n.u = task[t].u
   BY <1>2
 <2>2. Placed(task[t]) BY TaskFacts
 <2>3. Placed(n) BY <2>1, <2>2 DEF Placed
 <2> QED BY <2>1, <2>3 DEF Placed
<1>4. ASSUME NEW u \in User, u \notin raced'
      PROVE  /\ OneWorker(u)' /\ OneTalks(u)' /\ DropsCome(u)' /\ RoomsFit(u)'
             /\ Unworked(u)' => Agrees(u)'
             /\ \A t \in Task : Works(task[t], u)' => Phase(u, task[t])'
 <2>1. /\ OneWorker(u) /\ OneTalks(u) /\ DropsCome(u) /\ RoomsFit(u)
       /\ Unworked(u) => Agrees(u)
       /\ \A t \in Task : Works(task[t], u) => Phase(u, task[t])
   BY <1>1, <1>4 DEF Base, WhereIInv, Whereabouts
 <2>2. k \in Mine(u) => voiceChannel[k] = NoChannel BY <1>1, <2>1 DEF DropsCome, Dropping
 <2>3. \A o \in Mine(u) : voiceChannel'[o] = voiceChannel[o] BY <1>1, <2>2 DEF Mine
 <2>4. \A t \in Task : Works(task[t], u)' <=> Works(task[t], u) BY <1>2 DEF Works
 <2>5. SameKeys(u) BY <1>1 DEF SameKeys
 <2>6. \A c \in Channel : Agree(u, c)' <=> Agree(u, c) BY <2>3, <2>5, SameAgree
 <2>7. OneTalks(u)' BY <2>1, <2>3 DEF OneTalks, Mine
 <2>8. RoomsFit(u)' BY <1>1, <2>1, <2>3 DEF RoomsFit, Mine
 <2>9. DropsCome(u)'
  <3> SUFFICES ASSUME NEW o \in Mine(u), o \notin up', voiceChannel'[o] # NoChannel
               PROVE  \E t \in Task : Dropping(task'[t], o)
    BY DEF DropsCome, Mine, Dropping
  <3>1. PICK t \in Task : Dropping(task[t], o) BY <1>1, <2>1, <2>3 DEF DropsCome
  <3> QED BY <1>2, <3>1 DEF Dropping
 <2>10. OneWorker(u)' /\ (Unworked(u)' => Agrees(u)') BY <2>1, <2>4, <2>6 DEF OneWorker, Unworked, Agrees
 <2>11. ASSUME NEW t \in Task, Works(task[t], u)' PROVE Phase(u, task[t])'
  <3>1. PICK n : /\ n = task'[t]
                 /\ n.pc = task[t].pc /\ n.op = task[t].op /\ n.k = task[t].k
                 /\ n.u = task[t].u /\ n.c = task[t].c /\ n.at = task[t].at
                 /\ n.val = task[t].val /\ n.got = task[t].got
    BY <1>2
  <3>2. PICK q : q = task[t] OBVIOUS
  <3>3. Phase(u, q) /\ Works(q, u) /\ Placed(q) BY <2>1, <2>4, <2>11, <3>2, TaskFacts
  <3>4. Phase(u, n) BY <3>1, <3>2, <3>3, PhaseUnseen
  <3>5. n.k = NoSocket \/ n.k \in Mine(u) BY <3>1, <3>2, <3>3, WorkerTab
  <3>6. n.op = "join" =>
            n.k \in up' \/ \E o \in Task : task'[o].k = n.k /\ task'[o].pc = "dropped"
   <4>1. n.op = "join" =>
             n.k \in up \/ \E o \in Task : task[o].k = n.k /\ task[o].pc = "dropped"
     BY <3>4 DEF Phase, JoinPhase
   <4>2. \A o \in Task : task'[o].k = task[o].k /\ task'[o].pc = task[o].pc BY <1>2
   <4> QED BY <1>1, <4>1, <4>2
  <3>7. Phase(u, n)' BY <2>3, <2>5, <3>4, <3>5, <3>6, PhaseKept
  <3> QED BY <3>1, <3>7 DEF Phase, JoinPhase, LeavePhase, StillPhase, Agree, HasTab
 <2> QED BY <2>7, <2>8, <2>9, <2>10, <2>11
<1>5. (\A u \in User : Whereabouts(u))' BY <1>4 DEF Whereabouts
<1> QED BY <1>3, <1>5 DEF WhereIInv, AllPlaced

\* A restart leaves nobody who had a key unraced.
LEMMA RestartWhere ==
    ASSUME Base, Restart
    PROVE  WhereIInv'
<1>1. /\ up' = {} /\ state' = state /\ members' = members
      /\ \A k \in Socket : voiceChannel'[k] = NoChannel
      /\ \A t \in Task : task'[t] = Idle
      /\ raced' = raced \cup {u \in User : HasEntry(u) # {} \/ \E c \in Channel : u \in members[c]}
  BY DEF Restart, redisVars
<1>2. \A t \in Task : Placed(task[t])' /\ \A u : ~Works(task[t], u)'
  BY <1>1, IdleFields, PlacedFree DEF Placed, Works, Waiting
<1>3. ASSUME NEW u \in User, u \notin raced'
      PROVE  /\ OneWorker(u)' /\ OneTalks(u)' /\ DropsCome(u)' /\ RoomsFit(u)' /\ Agrees(u)'
 <2>1. \A c \in Channel : u \notin members'[c] /\ ~state'[c][u].in BY <1>1, <1>3 DEF HasEntry
 <2>2. \A c \in Channel : ~HasTab(u, c)' BY <1>1, VoiceAssumption DEF HasTab, Mine
 <2>3. OneWorker(u)' BY <1>2 DEF OneWorker
 <2>4. OneTalks(u)' /\ DropsCome(u)' /\ RoomsFit(u)' BY <1>1 DEF OneTalks, DropsCome, RoomsFit, Mine
 <2>5. Agrees(u)' BY <2>1, <2>2 DEF Agrees, Agree
 <2> QED BY <2>3, <2>4, <2>5
<1>4. (\A u \in User : Whereabouts(u))' BY <1>2, <1>3 DEF Whereabouts
<1> QED BY <1>2, <1>4 DEF WhereIInv, AllPlaced

\* What changes no key, no socket and no handler, changes no whereabouts.
LEMMA RestWhere ==
    ASSUME Base, UNCHANGED <<redisVars, socketVars, task, raced>>
    PROVE  WhereIInv'
<1>1. task' = task /\ raced' = raced /\ up' = up /\ voiceChannel' = voiceChannel
      /\ rooms' = rooms /\ state' = state /\ members' = members
  BY DEF redisVars, socketVars
<1>2. AllPlaced' BY <1>1, TaskFacts DEF AllPlaced, Placed
<1>3. ASSUME NEW u \in User, u \notin raced'
      PROVE  /\ OneWorker(u)' /\ OneTalks(u)' /\ DropsCome(u)' /\ RoomsFit(u)'
             /\ Unworked(u)' => Agrees(u)'
             /\ \A t \in Task : Works(task[t], u)' => Phase(u, task[t])'
 <2>1. /\ OneWorker(u) /\ OneTalks(u) /\ DropsCome(u) /\ RoomsFit(u)
       /\ Unworked(u) => Agrees(u)
       /\ \A t \in Task : Works(task[t], u) => Phase(u, task[t])
   BY <1>1, <1>3 DEF Base, WhereIInv, Whereabouts
 <2>2. OneTalks(u)' /\ DropsCome(u)' /\ RoomsFit(u)'
   BY <1>1, <2>1 DEF OneTalks, DropsCome, RoomsFit, Mine, Dropping
 <2>3. OneWorker(u)' /\ (Unworked(u)' => Agrees(u)')
   BY <1>1, <2>1 DEF OneWorker, Unworked, Agrees, Agree, HasTab, Works, Mine
 <2>4. ASSUME NEW t \in Task, Works(task[t], u)' PROVE Phase(u, task[t])'
  <3>1. PICK q : q = task[t] OBVIOUS
  <3>2. Phase(u, q) /\ Works(q, u) BY <1>1, <2>1, <2>4, <3>1 DEF Works
  <3>3. q.k = NoSocket \/ q.k \in Mine(u) BY <3>1, <3>2, TaskFacts, WorkerTab
  <3>4. SameKeys(u) /\ SameTabs(u) BY <1>1 DEF SameKeys, SameTabs
  <3>5. Phase(u, q)' BY <1>1, <3>2, <3>3, <3>4, SamePhase
  <3> QED BY <1>1, <3>1, <3>5
 <2> QED BY <2>2, <2>3, <2>4
<1>4. (\A u \in User : Whereabouts(u))' BY <1>3 DEF Whereabouts
<1> QED BY <1>2, <1>4 DEF WhereIInv

\* At first nobody is anywhere.
LEMMA InitWhere == ASSUME Init PROVE WhereIInv
<1>1. /\ \A k \in Socket : voiceChannel[k] = NoChannel /\ rooms[k] = {}
      /\ \A t \in Task : task[t] = Idle
      /\ \A c \in Channel : members[c] = {} /\ \A u \in User : state[c][u] = NoEntry
      /\ up = {}
  BY DEF Init
<1>2. \A t \in Task : Placed(task[t]) /\ \A u : ~Works(task[t], u)
  BY <1>1, IdleFields, PlacedFree DEF Works, Waiting
<1>3. ASSUME NEW u \in User
      PROVE  OneWorker(u) /\ OneTalks(u) /\ DropsCome(u) /\ RoomsFit(u) /\ Agrees(u)
 <2>1. \A c \in Channel : u \notin members[c] /\ ~state[c][u].in BY <1>1 DEF NoEntry
 <2>2. \A c \in Channel : ~HasTab(u, c) BY <1>1, VoiceAssumption DEF HasTab, Mine
 <2>3. OneWorker(u) BY <1>2 DEF OneWorker
 <2>4. OneTalks(u) /\ DropsCome(u) /\ RoomsFit(u) BY <1>1 DEF OneTalks, DropsCome, RoomsFit, Mine
 <2> QED BY <2>1, <2>2, <2>3, <2>4 DEF Agrees, Agree
<1> QED BY <1>2, <1>3 DEF WhereIInv, AllPlaced, Whereabouts

\* Every step keeps the whereabouts.
LEMMA NextWhere ==
    ASSUME Base, [Next]_vars
    PROVE  WhereIInv'
<1>1. CASE \E t \in Task, k \in Socket, c \in Channel :
              Join(t, k, c) \/ Leave(t, k, c)
              \/ \E op \in {"mute", "deafen"}, val \in BOOLEAN : SetFlag(t, op, k, c, val)
  BY <1>1, JoinWhere, LeaveWhere, SetFlagWhere
<1>2. CASE \E t \in Task, k \in Socket : Drop(t, k) BY <1>2, DropWhere
<1>3. CASE \E t \in Task, u \in User :
              \/ \E s \in Server :
                    ModMute(t, s, u) \/ \E deletes \in BOOLEAN : Kick(t, s, u, deletes)
              \/ \E c \in Channel, bits \in SUBSET Bits : ChangePermission(t, u, c, bits)
  BY <1>3, ModMuteWhere, KickWhere, ChangePermissionWhere
<1>4. CASE \E t \in Task : TaskStep(t)
 <2>1. PICK t \in Task : TaskStep(t) BY <1>4
 <2>2. CASE JoinMember(t) \/ JoinConnect(t) \/ JoinCount(t) \/ JoinCanSpeak(t)
            \/ JoinPut(t) \/ JoinAdd(t) \/ JoinDone(t)
   BY <2>2, JoinMemberWhere, JoinConnectWhere, JoinCountWhere, JoinCanSpeakWhere,
      JoinPutWhere, JoinAddWhere, JoinDoneWhere
 <2>3. CASE LeaveDel(t) \/ LeaveRem(t) \/ LeaveDone(t) BY <2>3, LeaveDelWhere, LeaveRemWhere, LeaveDoneWhere
 <2>4. CASE FlagCheck(t) \/ UnmuteCheckSpeak(t) \/ UnmuteCheckMember(t)
            \/ UpdateGet(t) \/ UpdateSet(t)
   BY <2>4, FlagCheckWhere, UnmuteCheckSpeakWhere, UnmuteCheckMemberWhere,
      UpdateGetWhere, UpdateSetWhere
 <2>5. CASE DropLeaves(t) \/ ModMuteKeys(t) \/ ModMuteFind(t)
   BY <2>5, DropLeavesWhere, ModMuteKeysWhere, ModMuteFindWhere
 <2>6. CASE (\E k \in Socket : Visit(t, k)) \/ VisitDecides(t) \/ WalkEnds(t) \/ Sweep(t)
   BY <2>6, VisitWhere, VisitDecidesWhere, WalkEndsWhere, SweepWhere
 <2> QED BY <2>1, <2>2, <2>3, <2>4, <2>5, <2>6 DEF TaskStep
<1>5. CASE \E k \in Socket : Connect(k) BY <1>5, ConnectWhere
<1>6. CASE \E s \in Server, u \in User : ModUnmute(s, u) BY <1>6, RestWhere DEF ModUnmute
<1>7. CASE Restart BY <1>7, RestartWhere
<1>8. CASE UNCHANGED vars BY <1>8, RestWhere DEF vars, redisVars, socketVars
<1> QED BY <1>1, <1>2, <1>3, <1>4, <1>5, <1>6, <1>7, <1>8 DEF Next, Serve, Request

\* Until two handlers, or two tabs in voice, meet on a user, its channel's keys and
\* its sockets differ only by what the one handler that works on it has still to do.
THEOREM WhereInductive == Spec => []WhereIInv
<1>1. Init => WhereIInv BY InitWhere
<1>2. VoiceIInv /\ WhereIInv /\ [Next]_vars => WhereIInv' BY NextWhere DEF Base
<1> QED BY <1>1, <1>2, VoiceInductive, PTL DEF Spec

\* No ghost in the occupancy: a settled user is a member of a channel, and has an
\* entry there, exactly when one of its connected sockets is in it.
THEOREM SettledMembershipHolds == Spec => []SettledMembership
<1>1. VoiceIInv /\ WhereIInv => SettledMembership
 <2> SUFFICES ASSUME VoiceIInv, WhereIInv, NEW u \in User, Settled(u), NEW c \in Channel
              PROVE  (u \in members[c] <=> state[c][u].in) /\ (u \in members[c] <=> InVoice(u, c))
   BY DEF SettledMembership
 <2>1. u \notin raced /\ \A t \in Task : task[t] = Idle BY DEF Settled, Quiet
 <2>2. Unworked(u) BY <2>1, IdleFields DEF Unworked, Works, Waiting
 <2>3. Agree(u, c) /\ DropsCome(u) BY <2>1, <2>2 DEF WhereIInv, Whereabouts, Agrees
 <2>4. \A k \in Mine(u), t \in Task : ~Dropping(task[t], k)
   BY <2>1, IdleFields, VoiceAssumption DEF Dropping, Mine
 <2>5. \A k \in Mine(u) : voiceChannel[k] # NoChannel => k \in up BY <2>3, <2>4 DEF DropsCome
 <2>6. HasTab(u, c) <=> InVoice(u, c) BY <2>5, VoiceAssumption DEF HasTab, InVoice, Mine, VoiceIInv, VoiceTypeOK
 <2> QED BY <2>3, <2>6 DEF Agree
<1> QED BY <1>1, VoiceInductive, WhereInductive, PTL

\* The sockets of a settled user receive the voice events of their channel, and no others.
THEOREM SettledRoomsHolds == Spec => []SettledRooms
<1>1. VoiceIInv /\ WhereIInv => SettledRooms
 <2> SUFFICES ASSUME VoiceIInv, WhereIInv, NEW k \in up, Settled(Owner[k])
              PROVE  rooms[k] = {voiceChannel[k]} \ {NoChannel}
   BY DEF SettledRooms
 <2>1. k \in Socket /\ Owner[k] \in User /\ Owner[k] \notin raced
   BY VoiceAssumption DEF VoiceIInv, VoiceTypeOK, Settled
 <2> QED BY <2>1 DEF WhereIInv, Whereabouts, RoomsFit, Mine
<1> QED BY <1>1, VoiceInductive, WhereInductive, PTL

------------------------------------------------------------
(* What a user may do: it is in a channel that it may not connect to, or    *)
(* heard where it is silenced, only while something on its way will see it. *)

HeldPc == {"count", "canSpeak", "put", "add", "joined"}

\* The call belongs to what its handler is doing.
Suits(q) ==
    /\ q.pc \in FlagPc => q.op \in {"mute", "deafen"}
    /\ q.pc \in {"get", "set"} => q.op \in {"mute", "deafen", "modMute", "permission"}
    /\ q.pc = "perms" => q.op = "permission"

\* Socket k is in channel c, or past the CONNECT check of a join there.
HeldBy(q, k, c) == q.k = k /\ q.c = c /\ q.pc \in HeldPc
Holds(k, c) == voiceChannel[k] = c \/ \E t \in Task : HeldBy(task[t], k, c)

\* A walk that has socket k ahead of it will not leave it in c unseen, ...
WalkFor(q, k, c) ==
    /\ q.k # k /\ k \notin q.seen
    /\ \/ q.op = "permission" /\ q.c = c
       \/ q.op = "kick" /\ q.s = ServerOf[c] /\ q.u = Owner[k]
\* ... and one that looks at it, or a leave, is about to decide.
LeavesFrom(q, k, c) == q.k = k /\ q.at = c /\ q.pc \in LeavePc \cup {"perms"}
Dooms(q, k, c) == WalkFor(q, k, c) \/ LeavesFrom(q, k, c)
Doomed(k, c) == k \notin up \/ \E t \in Task : Dooms(task[t], k, c)

\* A walk that is about to force isMuted, and a moderator's mute that is.
Forces(q, k, c) == q.op = "permission" /\ q.k = k /\ q.at = c /\ q.pc \in {"get", "set"}
ForceCome(k, c) == \E t \in Task : Forces(task[t], k, c)
Silences(q, u, c) ==
    /\ q.op = "modMute" /\ q.u = u
    /\ \/ q.pc = "keys"
       \/ q.pc = "find" /\ c \in q.keys
       \/ q.pc \in {"get", "set"} /\ q.at = c
SilentCome(u, c) == \E t \in Task : Silences(task[t], u, c)

ConnectRule(u) ==
    \A k \in Mine(u), c \in Channel :
        Holds(k, c) => "connect" \in perm[u][c] \/ Doomed(k, c)
SpeakRule(u) ==
    \A k \in Mine(u), c \in Channel :
        Holds(k, c) /\ state[c][u].in /\ "speak" \notin perm[u][c] =>
            state[c][u].isMuted = TRUE \/ Doomed(k, c) \/ ForceCome(k, c)
ServerRule(u) ==
    \A c \in Channel :
        state[c][u].in /\ ServerMuted(u, c) => state[c][u].isMuted = TRUE \/ SilentCome(u, c)

\* What the handler that works on u will write is not more than u may.
Vows(u, q) ==
    /\ q.pc \in {"connect", "count", "canSpeak", "put"} /\ ServerMuted(u, q.c) =>
           q.val = TRUE \/ SilentCome(u, q.c)
    /\ q.pc = "put" /\ "speak" \notin perm[u][q.c] => q.val = TRUE \/ Doomed(q.k, q.c)
    /\ q.pc = "muteMember" => "speak" \in perm[u][q.c] \/ Doomed(q.k, q.c)
    /\ q.pc \in {"get", "set"} /\ q.op = "mute" /\ q.val = FALSE =>
           /\ "speak" \in perm[u][q.c] \/ Doomed(q.k, q.c)
           /\ ServerMuted(u, q.c) => SilentCome(u, q.c)

Rules(u) ==
    /\ ConnectRule(u) /\ SpeakRule(u) /\ ServerRule(u)
    /\ \A t \in Task : Works(task[t], u) => Vows(u, task[t])

RulesIInv ==
    /\ \A t \in Task : Suits(task[t])
    /\ \A u \in User : u \notin raced => Rules(u)

\* The socket and the channel of a handler that has a vow.
LEMMA VowPlace ==
    ASSUME Base, NEW u \in User, u \notin raced, NEW t \in Task, Works(task[t], u),
           \/ task[t].pc \in {"connect", "count", "canSpeak", "put", "muteMember"}
           \/ task[t].pc \in {"get", "set"} /\ task[t].op = "mute"
    PROVE  task[t].k \in Mine(u) /\ task[t].c \in Channel
<1>1. PICK q : q = task[t] OBVIOUS
<1>2. Phase(u, q) /\ Placed(q) /\ Shaped(q) /\ Works(q, u) BY <1>1, TaskFacts, Alone
<1>3. CASE q.pc \in {"connect", "count", "canSpeak", "put"}
 <2>1. q.op = "join" /\ q.k # NoSocket /\ q.c \in Channel BY <1>2, <1>3 DEF Phase, JoinPhase, Shaped, JoinPc
 <2> QED BY <1>1, <1>2, <2>1 DEF Placed, Works, Mine
<1>4. CASE q.pc = "muteMember" \/ (q.pc \in {"get", "set"} /\ q.op = "mute")
 <2>1. q.op = "mute" /\ q.k # NoSocket /\ q.c = q.at BY <1>2, <1>4 DEF Phase, StillPhase
 <2>2. q.at \in Channel BY <1>2, <1>4 DEF Phase, StillPhase, Shaped, UpdatePc
 <2> QED BY <1>1, <1>2, <2>1, <2>2 DEF Placed, Works, Mine
<1> QED BY <1>1, <1>3, <1>4

\* Rules survive what takes no warning away and gives nobody new cause for one.
LEMMA KeptRules ==
    ASSUME Base, NEW u \in User, u \notin raced, Rules(u),
           \A c \in Channel : state'[c][u] = state[c][u],
           \A c \in Channel : perm'[u][c] = perm[u][c] \/ \A k \in Mine(u) : Doomed(k, c)',
           \A c \in Channel : ServerMuted(u, c)' => ServerMuted(u, c) \/ SilentCome(u, c)',
           \A k \in Mine(u), c \in Channel : Holds(k, c)' => Holds(k, c),
           \A k \in Mine(u), c \in Channel : Doomed(k, c) =>
               Doomed(k, c)' \/ (~Holds(k, c)' /\ \A t \in Task : task[t].k # k),
           \A k \in Mine(u), c \in Channel : ForceCome(k, c) => ForceCome(k, c)',
           \A c \in Channel : SilentCome(u, c) => SilentCome(u, c)',
           \A t \in Task : Works(task[t], u)' =>
               /\ Works(task[t], u)
               /\ task'[t].pc = task[t].pc /\ task'[t].op = task[t].op
               /\ task'[t].k = task[t].k /\ task'[t].c = task[t].c /\ task'[t].val = task[t].val
    PROVE  Rules(u)'
<1>1. ConnectRule(u)' BY DEF Rules, ConnectRule, Mine
<1>2. SpeakRule(u)' BY DEF Rules, SpeakRule, Mine
<1>3. ServerRule(u)' BY DEF Rules, ServerRule
<1>4. ASSUME NEW t \in Task, Works(task[t], u)' PROVE Vows(u, task[t])'
 <2>1. PICK q : q = task[t] OBVIOUS
 <2>2. PICK n : n = task'[t] OBVIOUS
 <2>3. /\ Works(q, u) /\ n.pc = q.pc /\ n.op = q.op /\ n.k = q.k /\ n.c = q.c /\ n.val = q.val
   BY <1>4, <2>1, <2>2
 <2>4. Vows(u, q) BY <2>1, <2>3 DEF Rules
 <2>5. \/ q.pc \in {"connect", "count", "canSpeak", "put", "muteMember"}
       \/ q.pc \in {"get", "set"} /\ q.op = "mute"
       => q.k \in Mine(u) /\ q.c \in Channel
   BY <2>1, <2>3, VowPlace
 <2>d. \A k \in Mine(u), c \in Channel : q.k = k /\ Doomed(k, c) => Doomed(k, c)'
   BY <2>1
 <2>6. /\ q.pc \in {"connect", "count", "canSpeak", "put"} /\ ServerMuted(u, q.c)' =>
              q.val = TRUE \/ SilentCome(u, q.c)'
       /\ q.pc = "put" /\ "speak" \notin perm'[u][q.c] => q.val = TRUE \/ Doomed(q.k, q.c)'
       /\ q.pc = "muteMember" => "speak" \in perm'[u][q.c] \/ Doomed(q.k, q.c)'
       /\ q.pc \in {"get", "set"} /\ q.op = "mute" /\ q.val = FALSE =>
              /\ "speak" \in perm'[u][q.c] \/ Doomed(q.k, q.c)'
              /\ ServerMuted(u, q.c)' => SilentCome(u, q.c)'
   BY <2>4, <2>5, <2>d DEF Vows
 <2>7. Vows(u, n)' BY <2>3, <2>6 DEF Vows
 <2> QED BY <2>2, <2>7 DEF Vows, Doomed, SilentCome, ServerMuted
<1> QED BY <1>1, <1>2, <1>3, <1>4 DEF Rules

\* What is known before a step, and of the whereabouts after it.
Known == Base /\ Base' /\ RulesIInv

\* What a step of t that goes on as n takes away is t's own.
LEMMA DoomOn ==
    ASSUME NEW t \in Task, NEW n, Steps(t, n), NEW k, NEW c, Doomed(k, c),
           k \in up' => k \in up, Dooms(task[t], k, c) => Dooms(n, k, c) \/ k \notin up'
    PROVE  Doomed(k, c)'
<1>1. CASE k \notin up' BY <1>1 DEF Doomed
<1>2. CASE k \in up'
 <2>1. PICK o \in Task : Dooms(task[o], k, c) BY <1>2 DEF Doomed
 <2>2. Dooms(task'[o], k, c) BY <1>2, <2>1 DEF Steps
 <2> QED BY <2>2 DEF Doomed, Dooms, WalkFor, LeavesFrom
<1> QED BY <1>1, <1>2

\* Likewise a mute that a walk is about to write, ...
LEMMA ForceOn ==
    ASSUME NEW t \in Task, NEW n, Steps(t, n), NEW k, NEW c, ForceCome(k, c),
           Forces(task[t], k, c) => Forces(n, k, c)
    PROVE  ForceCome(k, c)'
<1>1. PICK o \in Task : Forces(task[o], k, c) BY DEF ForceCome
<1>2. Forces(task'[o], k, c) BY <1>1 DEF Steps
<1> QED BY <1>2 DEF ForceCome, Forces

\* ... and one that a moderator is.
LEMMA SilentOn ==
    ASSUME NEW t \in Task, NEW n, Steps(t, n), NEW u, NEW c, SilentCome(u, c),
           Silences(task[t], u, c) => Silences(n, u, c)
    PROVE  SilentCome(u, c)'
<1>1. PICK o \in Task : Silences(task[o], u, c) BY DEF SilentCome
<1>2. Silences(task'[o], u, c) BY <1>1 DEF Steps
<1> QED BY <1>2 DEF SilentCome, Silences

\* The rules of the users that a step of one handler does not concern.
LEMMA StepRules ==
    ASSUME Known, NEW t \in Task, NEW n, NEW met, Proceed(t, n, met), UNCHANGED dbVars,
           Suits(n), up' \subseteq up, NEW v,
           \A u \in User : u # v =>
               /\ Off(task[t], u) /\ Off(n, u) /\ SameKeys(u)
               /\ \A k \in Mine(u) : voiceChannel'[k] = voiceChannel[k],
           \A k \in Socket, c \in Channel :
               Owner[k] # v /\ WalkFor(task[t], k, c) => WalkFor(n, k, c) \/ k \notin up',
           (v \in User /\ v \notin raced') => Rules(v)'
    PROVE  RulesIInv'
<1>1. /\ Steps(t, n)
      /\ \A u \in User : u \notin raced' => u \notin raced
  BY ProceedSteps DEF Known, Base
<1>2. (\A o \in Task : Suits(task[o]))' BY <1>1 DEF Known, RulesIInv, Steps, Suits
<1>3. Placed(task[t]) /\ Placed(n)
 <2>1. Placed(task[t])' BY DEF Known, Base, WhereIInv, AllPlaced
 <2> QED BY <1>1, <2>1, TaskFacts DEF Known, Steps, Placed
<1>4. ASSUME NEW u \in User, u # v, u \notin raced' PROVE Rules(u)'
 <2>1. u \notin raced /\ Rules(u) BY <1>1, <1>4 DEF Known, RulesIInv
 <2>2. /\ Off(task[t], u) /\ Off(n, u)
       /\ \A k \in Mine(u) : voiceChannel'[k] = voiceChannel[k]
       /\ \A c \in Channel : state'[c][u] = state[c][u]
   BY <1>4 DEF SameKeys
 <2>3. \A k \in Mine(u) : task[t].k # k /\ n.k # k /\ k \in Socket /\ Owner[k] # v
   BY <1>3, <1>4, <2>2, OffTabs DEF Mine
 <2>4. perm' = perm /\ muted' = muted BY DEF dbVars
 <2>5. \A c \in Channel : ServerMuted(u, c)' <=> ServerMuted(u, c) BY <2>4 DEF ServerMuted
 <2>6. \A k \in Mine(u), c \in Channel : Holds(k, c)' => Holds(k, c)
  <3> SUFFICES ASSUME NEW k \in Mine(u), NEW c \in Channel, Holds(k, c)' PROVE Holds(k, c) OBVIOUS
  <3>1. CASE voiceChannel'[k] = c BY <2>2, <3>1 DEF Holds
  <3>2. CASE \E o \in Task : HeldBy(task'[o], k, c) BY <1>1, <2>3, <3>2 DEF Holds, HeldBy, Steps
  <3> QED BY <3>1, <3>2 DEF Holds, HeldBy
 <2>7. ASSUME NEW k \in Mine(u), NEW c \in Channel, Doomed(k, c) PROVE Doomed(k, c)'
  <3>1. Dooms(task[t], k, c) => Dooms(n, k, c) \/ k \notin up' BY <2>3 DEF Dooms, LeavesFrom
  <3> QED BY <1>1, <2>7, <3>1, DoomOn
 <2>8. ASSUME NEW k \in Mine(u), NEW c \in Channel, ForceCome(k, c) PROVE ForceCome(k, c)'
  <3>1. ~Forces(task[t], k, c) BY <2>3 DEF Forces
  <3> QED BY <1>1, <2>8, <3>1, ForceOn
 <2>9. ASSUME NEW c \in Channel, SilentCome(u, c) PROVE SilentCome(u, c)'
  <3>1. ~Silences(task[t], u, c) BY <2>2 DEF Silences, Off
  <3> QED BY <1>1, <2>9, <3>1, SilentOn
 <2>10. ASSUME NEW o \in Task, Works(task[o], u)'
        PROVE  Works(task[o], u) /\ task'[o] = task[o]
  <3>1. o # t BY <1>1, <2>2, <2>10, OffWorks DEF Steps, Works
  <3> QED BY <1>1, <2>10, <3>1 DEF Steps, Works
 <2> QED BY <2>1, <2>2, <2>4, <2>5, <2>6, <2>7, <2>8, <2>9, <2>10, KeptRules DEF Known
<1> QED BY <1>1, <1>2, <1>4 DEF RulesIInv

\* What a step of one handler that touches no key and no channel of a socket must
\* not forget about its user: it warns of all that it warned of, or need not.
Minds(u, q, n) ==
    /\ \A k \in Mine(u), c \in Channel :
          /\ HeldBy(n, k, c) =>
                HeldBy(q, k, c) \/ ("connect" \in perm[u][c] /\ ~state[c][u].in)
          /\ Dooms(q, k, c) =>
                \/ Dooms(n, k, c) \/ k \notin up
                \/ voiceChannel[k] # c /\ ~HeldBy(n, k, c)
                \/ "connect" \in perm[u][c] /\ ("speak" \in perm[u][c] \/ Forces(n, k, c))
          /\ Forces(q, k, c) => Forces(n, k, c) \/ ~state[c][u].in
    /\ \A c \in Channel : Silences(q, u, c) => Silences(n, u, c) \/ ~state[c][u].in

\* Where t is all that works on v, only t can be joining for it.
LEMMA WorkerHolds ==
    ASSUME Base, NEW v \in User, NEW t \in Task, NEW n, Steps(t, n),
           \A o \in Task : o # t => ~Works(task[o], v),
           NEW k \in Mine(v), NEW c, Holds(k, c)'
    PROVE  voiceChannel'[k] = c \/ HeldBy(n, k, c)
<1>1. CASE voiceChannel'[k] = c BY <1>1
<1>2. CASE \E o \in Task : HeldBy(task'[o], k, c)
 <2>1. PICK o \in Task : HeldBy(task'[o], k, c) BY <1>2
 <2>2. CASE o = t BY <2>1, <2>2 DEF Steps
 <2>3. CASE o # t
  <3>1. HeldBy(task[o], k, c) BY <2>1, <2>3 DEF Steps
  <3>2. task[o].k \in Socket /\ task[o].k # NoSocket /\ Owner[task[o].k] = v
    BY <3>1, VoiceAssumption DEF HeldBy, Mine
  <3>3. task[o].u = v BY <3>2, TaskFacts DEF Placed
  <3> QED BY <2>3, <3>1, <3>3 DEF HeldBy, HeldPc, Works, Waiting
 <2> QED BY <2>2, <2>3
<1> QED BY <1>1, <1>2 DEF Holds, HeldBy

\* Its user keeps the rules.
LEMMA QuietRules ==
    ASSUME Base, NEW v \in User, v \notin raced, Rules(v), NEW t \in Task, NEW q, q = task[t],
           NEW n, Steps(t, n), \A o \in Task : o # t => ~Works(task[o], v),
           UNCHANGED <<state, dbVars, socketVars>>, Minds(v, q, n),
           Works(n, v) => Vows(v, n)'
    PROVE  Rules(v)'
<1>1. /\ state' = state /\ perm' = perm /\ muted' = muted
      /\ up' = up /\ voiceChannel' = voiceChannel
  BY DEF dbVars, socketVars
<1>2. Mine(v)' = Mine(v) BY DEF Mine
<1>3. ASSUME NEW k \in Mine(v), NEW c \in Channel, Holds(k, c)'
      PROVE  /\ "connect" \in perm[v][c] \/ Doomed(k, c)'
             /\ state[c][v].in /\ "speak" \notin perm[v][c] =>
                    state[c][v].isMuted = TRUE \/ Doomed(k, c)' \/ ForceCome(k, c)'
 <2>1. voiceChannel[k] = c \/ HeldBy(n, k, c) BY <1>1, <1>3, WorkerHolds
 <2>2. CASE HeldBy(n, k, c) /\ "connect" \in perm[v][c] /\ ~state[c][v].in BY <2>2
 <2>3. CASE ~(HeldBy(n, k, c) /\ "connect" \in perm[v][c] /\ ~state[c][v].in)
  <3>1. Holds(k, c) BY <2>1, <2>3 DEF Minds, Holds
  <3>2. CASE Doomed(k, c)
   <4>1. CASE Dooms(q, k, c) => Dooms(n, k, c) \/ k \notin up' BY <1>1, <3>2, <4>1, DoomOn
   <4>2. CASE "connect" \in perm[v][c] /\ "speak" \in perm[v][c] BY <4>2
   <4>3. CASE "connect" \in perm[v][c] /\ Forces(n, k, c) BY <4>3 DEF ForceCome, Forces, Steps
   <4> QED BY <1>1, <2>1, <4>1, <4>2, <4>3 DEF Minds
  <3>3. CASE ~Doomed(k, c)
   <4>1. "connect" \in perm[v][c] BY <3>1, <3>3 DEF Rules, ConnectRule
   <4>2. ASSUME state[c][v].in, "speak" \notin perm[v][c]
         PROVE  state[c][v].isMuted = TRUE \/ ForceCome(k, c)'
    <5>1. state[c][v].isMuted = TRUE \/ ForceCome(k, c) BY <3>1, <3>3, <4>2 DEF Rules, SpeakRule
    <5>2. Forces(task[t], k, c) => Forces(n, k, c) BY <4>2 DEF Minds
    <5> QED BY <5>1, <5>2, ForceOn
   <4> QED BY <4>1, <4>2
  <3> QED BY <3>2, <3>3
 <2> QED BY <2>2, <2>3
<1>4. ConnectRule(v)' BY <1>1, <1>2, <1>3 DEF ConnectRule
<1>5. SpeakRule(v)' BY <1>1, <1>2, <1>3 DEF SpeakRule
<1>6. ASSUME NEW c \in Channel, state[c][v].in, ServerMuted(v, c)'
      PROVE  state[c][v].isMuted = TRUE \/ SilentCome(v, c)'
 <2>1. state[c][v].isMuted = TRUE \/ SilentCome(v, c) BY <1>1, <1>6 DEF Rules, ServerRule, ServerMuted
 <2>2. Silences(task[t], v, c) => Silences(n, v, c) BY <1>6 DEF Minds
 <2> QED BY <2>1, <2>2, SilentOn
<1>7. ServerRule(v)' BY <1>1, <1>6 DEF ServerRule
<1>8. ASSUME NEW o \in Task, Works(task[o], v)' PROVE Vows(v, task[o])'
 <2>1. o = t /\ task'[o] = n /\ Works(n, v) BY <1>8 DEF Steps, Works
 <2> QED BY <2>1 DEF Vows, Doomed, SilentCome, ServerMuted
<1> QED BY <1>4, <1>5, <1>7, <1>8 DEF Rules

\* A step that reads keys or permissions of one user.
LEMMA QuietStep ==
    ASSUME Known, NEW t \in Task, NEW q, q = task[t], NEW n, NEW met, Proceed(t, n, met),
           UNCHANGED <<state, dbVars, socketVars>>, Suits(n), NEW v \in User,
           \A u \in User : u # v => Off(q, u) /\ Off(n, u) /\ SameKeys(u),
           \A k \in Socket, c \in Channel :
               Owner[k] # v /\ WalkFor(q, k, c) => WalkFor(n, k, c),
           v \notin met =>
               Works(q, v) \/ Works(n, v) \/ \A o \in Task : o # t => ~Works(task[o], v),
           (/\ v \notin raced /\ v \notin met /\ Rules(v) /\ Steps(t, n)
            /\ \A o \in Task : o # t => ~Works(task[o], v))
           => Minds(v, q, n) /\ (Works(n, v) => Vows(v, n)')
    PROVE  RulesIInv'
<1>1. /\ Steps(t, n)
      /\ \A u \in User : u \notin raced' =>
             u \notin raced /\ u \notin met /\ OneWorker(u)'
  BY ProceedSteps DEF Known, Base
<1>2. up' = up /\ voiceChannel' = voiceChannel BY DEF socketVars
<1>3. ASSUME v \notin raced' PROVE Rules(v)'
 <2>1. v \notin raced /\ v \notin met /\ OneWorker(v)' /\ Rules(v) BY <1>1, <1>3 DEF Known, RulesIInv
 <2>2. \A o \in Task : o # t => ~Works(task[o], v)
  <3>1. CASE Works(q, v) BY <2>1, <3>1, Alone DEF Known
  <3>2. CASE Works(n, v) BY <1>1, <2>1, <3>2 DEF OneWorker, Steps, Works
  <3> QED BY <2>1, <3>1, <3>2
 <2>3. Minds(v, q, n) /\ (Works(n, v) => Vows(v, n)') BY <1>1, <2>1, <2>2
 <2> QED BY <1>1, <2>1, <2>2, <2>3, QuietRules DEF Known
<1> QED BY <1>2, <1>3, StepRules

\* A step of a handler that works on nobody before or after it.
LEMMA AsideRules ==
    ASSUME Known, NEW t \in Task, NEW q, q = task[t], NEW n, NEW met, Proceed(t, n, met),
           UNCHANGED <<redisVars, voiceChannel>>, up' \subseteq up,
           q.pc \in Waiting, q.pc # "keys", n.pc \in Waiting,
           \A k \in Socket, c \in Channel : WalkFor(q, k, c) => WalkFor(n, k, c) \/ k \notin up',
           \A k \in Socket, c \in Channel :
               perm'[Owner[k]][c] = perm[Owner[k]][c] \/ Doomed(k, c)',
           \A u \in User, c \in Channel :
               ServerMuted(u, c)' => ServerMuted(u, c) \/ SilentCome(u, c)'
    PROVE  RulesIInv'
<1>1. /\ Steps(t, n)
      /\ \A u \in User : u \notin raced' => u \notin raced
  BY ProceedSteps DEF Known, Base
<1>2. Suits(n) BY DEF Suits, Waiting, FlagPc
<1>3. (\A o \in Task : Suits(task[o]))' BY <1>1, <1>2 DEF Known, RulesIInv, Steps, Suits
<1>4. state' = state /\ voiceChannel' = voiceChannel BY DEF redisVars
<1>5. ASSUME NEW u \in User, u \notin raced' PROVE Rules(u)'
 <2>1. u \notin raced /\ Rules(u) BY <1>1, <1>5 DEF Known, RulesIInv
 <2>2. \A k \in Mine(u) : k \in Socket /\ Owner[k] = u BY DEF Mine
 <2>3. \A c \in Channel : perm'[u][c] = perm[u][c] \/ \A k \in Mine(u) : Doomed(k, c)' BY <2>2
 <2>4. \A k \in Mine(u), c \in Channel : Holds(k, c)' => Holds(k, c)
  <3> SUFFICES ASSUME NEW k \in Mine(u), NEW c \in Channel, Holds(k, c)' PROVE Holds(k, c) OBVIOUS
  <3>1. CASE voiceChannel'[k] = c BY <1>4, <3>1 DEF Holds
  <3>2. CASE \E o \in Task : HeldBy(task'[o], k, c) BY <1>1, <3>2 DEF Holds, HeldBy, HeldPc, Waiting, Steps
  <3> QED BY <3>1, <3>2 DEF Holds, HeldBy
 <2>5. ASSUME NEW k \in Mine(u), NEW c \in Channel, Doomed(k, c) PROVE Doomed(k, c)'
  <3>1. Dooms(task[t], k, c) => Dooms(n, k, c) \/ k \notin up' BY <2>2 DEF Dooms, LeavesFrom, LeavePc, Waiting
  <3> QED BY <1>1, <2>5, <3>1, DoomOn
 <2>6. ASSUME NEW k \in Mine(u), NEW c \in Channel, ForceCome(k, c) PROVE ForceCome(k, c)'
  <3>1. ~Forces(task[t], k, c) BY DEF Forces, Waiting
  <3> QED BY <1>1, <2>6, <3>1, ForceOn
 <2>7. ASSUME NEW c \in Channel, SilentCome(u, c) PROVE SilentCome(u, c)'
  <3>1. ~Silences(task[t], u, c) BY DEF Silences, Waiting
  <3> QED BY <1>1, <2>7, <3>1, SilentOn
 <2>8. ASSUME NEW o \in Task, Works(task[o], u)'
       PROVE  Works(task[o], u) /\ task'[o] = task[o]
  <3>1. o # t BY <1>1, <2>8 DEF Steps, Works
  <3> QED BY <1>1, <2>8, <3>1 DEF Steps, Works
 <2> QED BY <1>4, <2>1, <2>3, <2>4, <2>5, <2>6, <2>7, <2>8, KeptRules DEF Known
<1> QED BY <1>3, <1>5 DEF RulesIInv

\* Only a reconciliation and an eviction walk, ...
LEMMA NoWalk ==
    ASSUME NEW q, q.op \notin {"permission", "kick"}
    PROVE  \A k, c : ~WalkFor(q, k, c)
  BY DEF WalkFor

\* ... they remember whom they have seen, ...
LEMMA WalkLike ==
    ASSUME NEW q, NEW n, n.op = q.op, n.k = q.k, n.u = q.u, n.s = q.s, n.c = q.c,
           n.seen = q.seen
    PROVE  \A k, c : WalkFor(q, k, c) => WalkFor(n, k, c)
  BY DEF WalkFor

\* ... and pass only the one they looked at.
LEMMA WalkNext ==
    ASSUME NEW q, NEW k \in Socket, NEW c, WalkFor(q, k, c)
    PROVE  WalkFor(NextSocket(q), k, c)
<1>1. PICK n : n = NextSocket(q) OBVIOUS
<1>2. /\ n.op = q.op /\ n.k = NoSocket /\ n.s = q.s /\ n.c = q.c
      /\ q.op = "kick" => n.u = q.u
      /\ n.seen = q.seen \cup {q.k}
  BY <1>1, NextFields
<1>3. WalkFor(n, k, c) BY <1>2, VoiceAssumption DEF WalkFor
<1> QED BY <1>1, <1>3

\* A handler that is no walk, no leave and no moderator's mute warns of nothing.
LEMMA PlainMinds ==
    ASSUME NEW u, NEW q, q.op \notin {"permission", "kick", "modMute"},
           q.pc \notin LeavePc \cup {"perms"}, NEW n,
           \A k \in Mine(u), c \in Channel : HeldBy(n, k, c) =>
               HeldBy(q, k, c) \/ ("connect" \in perm[u][c] /\ ~state[c][u].in)
    PROVE  Minds(u, q, n)
<1>1. \A k, c : ~Dooms(q, k, c) /\ ~Forces(q, k, c) /\ ~Silences(q, u, c)
  BY DEF Dooms, WalkFor, LeavesFrom, Forces, Silences
<1> QED BY <1>1 DEF Minds

\* A handler that writes no flag, or only mutes, has no vow.
LEMMA NoVow ==
    ASSUME NEW u, NEW n,
           \/ n.pc \notin {"connect", "count", "canSpeak", "put", "muteMember", "get", "set"}
           \/ n.pc \in {"get", "set"} /\ (n.op # "mute" \/ n.val = TRUE)
    PROVE  Vows(u, n)'
  BY DEF Vows

\* A plain handler at work on its user goes on.
LEMMA PlainStep ==
    ASSUME Known, NEW t \in Task, NEW q, q = task[t], NEW n, NEW met, Proceed(t, n, met),
           UNCHANGED <<state, dbVars, socketVars>>, Suits(n),
           q.op \notin {"permission", "kick", "modMute"}, q.pc \notin LeavePc \cup {"perms"},
           NEW v \in User, v \notin met => Works(q, v) \/ Works(n, v),
           q.u = v \/ q.pc \in {"idle", "loop", "sweep"},
           n.u = v \/ n.pc \in {"idle", "loop", "sweep"},
           \A u \in User : u # v => SameKeys(u),
           (v \notin raced /\ Rules(v) /\ Steps(t, n))
           => /\ \A k \in Mine(v), c \in Channel : HeldBy(n, k, c) =>
                     HeldBy(q, k, c) \/ ("connect" \in perm[v][c] /\ ~state[c][v].in)
              /\ Works(n, v) => Vows(v, n)'
    PROVE  RulesIInv'
<1>1. \A u \in User : u # v => Off(q, u) /\ Off(n, u) BY DEF Off
<1>2. \A k \in Socket, c \in Channel : Owner[k] # v /\ WalkFor(q, k, c) => WalkFor(n, k, c) BY NoWalk
<1>3. ASSUME v \notin raced, Rules(v), Steps(t, n)
      PROVE  Minds(v, q, n) /\ (Works(n, v) => Vows(v, n)')
  BY <1>3, PlainMinds
<1> QED BY <1>1, <1>2, <1>3, QuietStep

\* A handler that a socket's packet starts holds and promises nothing yet.
LEMMA StartRules ==
    ASSUME Known, NEW t \in Task, task[t].pc = "idle", NEW k \in Socket,
           UNCHANGED <<redisVars, dbVars, socketVars>>, NEW n, NEW met, Proceed(t, n, met),
           n.pc \in {"del", "validate", "check"}, n.u = Owner[k],
           n.pc = "check" => n.op \in {"mute", "deafen"}
    PROVE  RulesIInv'
<1>1. PICK q : q = task[t] OBVIOUS
<1>2. PICK v \in User : v = Owner[k] BY VoiceAssumption
<1>3. q.pc = "idle" /\ q.op = "none" BY <1>1, TaskFacts, IdleFields DEF Known, Placed
<1>4. Suits(n) /\ Works(n, v) /\ n.u = v BY <1>2 DEF Suits, FlagPc, Works, Waiting
<1>5. \A o, d : ~HeldBy(n, o, d) BY DEF HeldBy, HeldPc
<1>6. Vows(v, n)' BY NoVow
<1>7. state' = state /\ \A u \in User : SameKeys(u) BY DEF redisVars, SameKeys
<1>8. /\ q.op \notin {"permission", "kick", "modMute"}
      /\ q.pc \notin LeavePc \cup {"perms"}
      /\ q.pc \in {"idle", "loop", "sweep"}
  BY <1>3 DEF LeavePc
<1> QED BY <1>1, <1>4, <1>5, <1>6, <1>7, <1>8, PlainStep

\* A join, ...
LEMMA JoinRules ==
    ASSUME Known, NEW t \in Task, NEW k \in Socket, NEW c \in Channel, Join(t, k, c)
    PROVE  RulesIInv'
<1> DEFINE q == Starts(t, "join", k, c)
           n == IF voiceChannel[k] # NoChannel
                THEN [q EXCEPT !.pc = "del", !.at = voiceChannel[k]]
                ELSE [q EXCEPT !.pc = "validate"]
<1>1. /\ task[t].pc = "idle" /\ UNCHANGED <<redisVars, dbVars, socketVars>>
      /\ Proceed(t, n, Siblings(k))
  BY DEF Join
<1>2. n.pc \in {"del", "validate"} /\ n.u = Owner[k]
 <2>1. q \in TaskRecord BY StartsTyped
 <2>2. q.u = Owner[k] BY DEF Starts, Idle
 <2> HIDE DEF q
 <2> QED BY <2>1, <2>2 DEF TaskRecord
<1> HIDE DEF n
<1> QED BY <1>1, <1>2, StartRules

\* ... a leave ...
LEMMA LeaveRules ==
    ASSUME Known, NEW t \in Task, NEW k \in Socket, NEW c \in Channel, Leave(t, k, c)
    PROVE  RulesIInv'
<1> DEFINE q == Starts(t, "leave", k, c)
           n == [q EXCEPT !.pc = "del", !.at = c]
<1>1. /\ task[t].pc = "idle" /\ UNCHANGED <<redisVars, dbVars, socketVars>>
      /\ Proceed(t, n, Siblings(k))
  BY DEF Leave
<1>2. n.pc = "del" /\ n.u = Owner[k]
 <2>1. q \in TaskRecord BY StartsTyped
 <2>2. q.u = Owner[k] BY DEF Starts, Idle
 <2> HIDE DEF q
 <2> QED BY <2>1, <2>2 DEF TaskRecord
<1> HIDE DEF n
<1> QED BY <1>1, <1>2, StartRules

\* ... and a flag start so.
LEMMA SetFlagRules ==
    ASSUME Known, NEW t \in Task, NEW op \in {"mute", "deafen"}, NEW k \in Socket,
           NEW c \in Channel, NEW val \in BOOLEAN, SetFlag(t, op, k, c, val)
    PROVE  RulesIInv'
<1> DEFINE q == Starts(t, op, k, c)
           n == [q EXCEPT !.pc = "check", !.at = c, !.val = val]
<1>1. /\ task[t].pc = "idle" /\ UNCHANGED <<redisVars, dbVars, socketVars>>
      /\ Proceed(t, n, Siblings(k))
  BY DEF SetFlag
<1>2. n.pc = "check" /\ n.u = Owner[k] /\ n.op = op
 <2>1. q \in TaskRecord BY StartsTyped
 <2>2. q.u = Owner[k] /\ q.op = op BY DEF Starts, Idle
 <2> HIDE DEF q
 <2> QED BY <2>1, <2>2 DEF TaskRecord
<1> HIDE DEF n
<1> QED BY <1>1, <1>2, StartRules

\* A vow about the server's mute is kept while its handler goes on.
LEMMA StillSilent ==
    ASSUME NEW t \in Task, NEW q, q = task[t], q.op # "modMute", NEW n, Steps(t, n),
           NEW u, NEW c, SilentCome(u, c)
    PROVE  SilentCome(u, c)'
<1>1. ~Silences(task[t], u, c) BY DEF Silences
<1> QED BY <1>1, SilentOn

\* So is one about the channel's.
LEMMA StillDoomed ==
    ASSUME NEW t \in Task, NEW q, q = task[t], q.op \notin {"permission", "kick"},
           q.pc \notin LeavePc \cup {"perms"}, NEW n, Steps(t, n), UNCHANGED socketVars,
           NEW k, NEW c, Doomed(k, c)
    PROVE  Doomed(k, c)'
<1>1. ~Dooms(task[t], k, c) BY DEF Dooms, WalkFor, LeavesFrom
<1>2. up' = up BY DEF socketVars
<1> QED BY <1>1, <1>2, DoomOn

\* What a join has learnt of a mute is so, ...
LEMMA JoinMemberRules ==
    ASSUME Known, NEW t \in Task, JoinMember(t)
    PROVE  RulesIInv'
<1>1. PICK q : q = task[t] OBVIOUS
<1>2. /\ q.pc = "validate" /\ q.op = "join" /\ q.u \in User /\ Placed(q)
      /\ UNCHANGED <<redisVars, dbVars, socketVars>>
  BY <1>1, JoinMemberDoes DEF Known
<1>n. PICK n : /\ Proceed(t, n, {})
               /\ \/ Like(n, q, "connect", q.at, ServerMuted(q.u, q.c), q.got, q.keys)
                  \/ n = Idle
  BY <1>1, JoinMemberDoes DEF Known
<1>3. Works(q, q.u) BY <1>2 DEF Works, Waiting
<1>4. state' = state /\ muted' = muted /\ \A u \in User : SameKeys(u) BY <1>2 DEF redisVars, dbVars, SameKeys
<1>5. CASE n = Idle
 <2>1. n.pc = "idle" BY <1>5, IdleFields
 <2>2. Suits(n) /\ ~Works(n, q.u) /\ \A k, c : ~HeldBy(n, k, c)
   BY <2>1 DEF Suits, FlagPc, Works, Waiting, HeldBy, HeldPc
 <2> QED BY <1>1, <1>2, <1>n, <1>3, <1>4, <2>1, <2>2, PlainStep DEF LeavePc
<1>6. CASE Like(n, q, "connect", q.at, ServerMuted(q.u, q.c), q.got, q.keys)
 <2>1. n.pc = "connect" /\ n.op = "join" /\ n.u = q.u /\ n.k = q.k /\ n.c = q.c BY <1>2, <1>6 DEF Like
 <2>2. ServerMuted(q.u, q.c) => n.val = TRUE BY <1>6 DEF Like
 <2>3. Suits(n) /\ \A k, c : ~HeldBy(n, k, c) BY <2>1 DEF Suits, FlagPc, HeldBy, HeldPc
 <2>4. Vows(q.u, n)' BY <1>4, <2>1, <2>2 DEF Vows, ServerMuted
 <2> QED BY <1>1, <1>2, <1>n, <1>3, <1>4, <2>1, <2>3, <2>4, PlainStep DEF LeavePc
<1> QED BY <1>n, <1>5, <1>6

\* ... one that passes CONNECT may be in the channel, ...
LEMMA JoinConnectRules ==
    ASSUME Known, NEW t \in Task, JoinConnect(t)
    PROVE  RulesIInv'
<1>1. PICK q : q = task[t] OBVIOUS
<1>2. /\ q.pc = "connect" /\ q.op = "join" /\ q.u \in User /\ Placed(q)
      /\ UNCHANGED <<redisVars, dbVars, socketVars>>
  BY <1>1, JoinConnectDoes DEF Known
<1>n. PICK n : /\ Proceed(t, n, {})
               /\ \/ /\ "connect" \in perm[q.u][q.c]
                     /\ Like(n, q, "count", q.at, q.val, q.got, q.keys)
                  \/ n = Idle
  BY <1>1, JoinConnectDoes DEF Known
<1>3. Works(q, q.u) BY <1>2 DEF Works, Waiting
<1>4. state' = state /\ muted' = muted /\ \A u \in User : SameKeys(u) BY <1>2 DEF redisVars, dbVars, SameKeys
<1>5. CASE n = Idle
 <2>1. n.pc = "idle" BY <1>5, IdleFields
 <2>2. Suits(n) /\ ~Works(n, q.u) /\ \A k, c : ~HeldBy(n, k, c)
   BY <2>1 DEF Suits, FlagPc, Works, Waiting, HeldBy, HeldPc
 <2> QED BY <1>1, <1>2, <1>n, <1>3, <1>4, <2>1, <2>2, PlainStep DEF LeavePc
<1>6. CASE /\ "connect" \in perm[q.u][q.c]
           /\ Like(n, q, "count", q.at, q.val, q.got, q.keys)
 <2>1. /\ n.pc = "count" /\ n.op = "join" /\ n.u = q.u /\ n.k = q.k /\ n.c = q.c
       /\ n.val = q.val
   BY <1>2, <1>6 DEF Like
 <2>2. Suits(n) BY <2>1 DEF Suits, FlagPc
 <2>3. ASSUME q.u \notin raced, NEW k \in Mine(q.u), NEW c \in Channel, HeldBy(n, k, c)
       PROVE  "connect" \in perm[q.u][c] /\ ~state[c][q.u].in
  <3>1. k = q.k /\ c = q.c BY <2>1, <2>3 DEF HeldBy
  <3>2. Phase(q.u, q) BY <1>1, <1>2, <1>3, <2>3, Alone DEF Known
  <3> QED BY <1>2, <1>6, <3>1, <3>2 DEF Phase, JoinPhase, JoinPc
 <2>4. ASSUME Rules(q.u), Steps(t, n) PROVE Vows(q.u, n)'
  <3>1. ServerMuted(q.u, q.c) => q.val = TRUE \/ SilentCome(q.u, q.c) BY <1>1, <1>2, <1>3, <2>4 DEF Rules, Vows
  <3>2. SilentCome(q.u, q.c) => SilentCome(q.u, q.c)' BY <1>1, <1>2, <2>4, StillSilent
  <3> QED BY <1>4, <2>1, <3>1, <3>2 DEF Vows, ServerMuted, SilentCome
 <2> QED BY <1>1, <1>2, <1>n, <1>3, <1>4, <2>1, <2>2, <2>3, <2>4, PlainStep DEF LeavePc
<1> QED BY <1>n, <1>5, <1>6

\* ... the count changes nothing, ...
LEMMA JoinCountRules ==
    ASSUME Known, NEW t \in Task, JoinCount(t)
    PROVE  RulesIInv'
<1>1. PICK q : q = task[t] OBVIOUS
<1>2. /\ q.pc = "count" /\ q.op = "join" /\ q.u \in User /\ Placed(q)
      /\ UNCHANGED <<redisVars, dbVars, socketVars>>
  BY <1>1, JoinCountDoes DEF Known
<1>n. PICK n : /\ Proceed(t, n, {})
               /\ \/ Like(n, q, "canSpeak", q.at, q.val, q.got, q.keys)
                  \/ n = Idle
  BY <1>1, JoinCountDoes DEF Known
<1>3. Works(q, q.u) BY <1>2 DEF Works, Waiting
<1>4. state' = state /\ muted' = muted /\ \A u \in User : SameKeys(u) BY <1>2 DEF redisVars, dbVars, SameKeys
<1>5. CASE n = Idle
 <2>1. n.pc = "idle" BY <1>5, IdleFields
 <2>2. Suits(n) /\ ~Works(n, q.u) /\ \A k, c : ~HeldBy(n, k, c)
   BY <2>1 DEF Suits, FlagPc, Works, Waiting, HeldBy, HeldPc
 <2> QED BY <1>1, <1>2, <1>n, <1>3, <1>4, <2>1, <2>2, PlainStep DEF LeavePc
<1>6. CASE Like(n, q, "canSpeak", q.at, q.val, q.got, q.keys)
 <2>1. /\ n.pc = "canSpeak" /\ n.op = "join" /\ n.u = q.u /\ n.k = q.k /\ n.c = q.c
       /\ n.val = q.val
   BY <1>2, <1>6 DEF Like
 <2>2. Suits(n) /\ \A k, c : HeldBy(n, k, c) => HeldBy(q, k, c) BY <1>2, <2>1 DEF Suits, FlagPc, HeldBy, HeldPc
 <2>3. ASSUME Rules(q.u), Steps(t, n) PROVE Vows(q.u, n)'
  <3>1. ServerMuted(q.u, q.c) => q.val = TRUE \/ SilentCome(q.u, q.c) BY <1>1, <1>2, <1>3, <2>3 DEF Rules, Vows
  <3>2. SilentCome(q.u, q.c) => SilentCome(q.u, q.c)' BY <1>1, <1>2, <2>3, StillSilent
  <3> QED BY <1>4, <2>1, <3>1, <3>2 DEF Vows, ServerMuted, SilentCome
 <2> QED BY <1>1, <1>2, <1>n, <1>3, <1>4, <2>1, <2>2, <2>3, PlainStep DEF LeavePc
<1> QED BY <1>n, <1>5, <1>6

\* ... the SPEAK check decides the flag ...
LEMMA JoinCanSpeakRules ==
    ASSUME Known, NEW t \in Task, JoinCanSpeak(t)
    PROVE  RulesIInv'
<1>1. PICK q : q = task[t] OBVIOUS
<1>2. /\ q.pc = "canSpeak" /\ q.op = "join" /\ q.u \in User /\ Placed(q)
      /\ UNCHANGED <<redisVars, dbVars, socketVars>>
  BY <1>1, JoinCanSpeakDoes DEF Known
<1>n. PICK n : /\ Proceed(t, n, {})
               /\ Like(n, q, "put", q.at, JoinsMuted(q.u, q.c, q.val), q.got, q.keys)
  BY <1>1, JoinCanSpeakDoes DEF Known
<1>3. Works(q, q.u) BY <1>2 DEF Works, Waiting
<1>4. state' = state /\ muted' = muted /\ perm' = perm /\ \A u \in User : SameKeys(u)
  BY <1>2 DEF redisVars, dbVars, SameKeys
<1>5. n.pc = "put" /\ n.op = "join" /\ n.u = q.u /\ n.k = q.k /\ n.c = q.c BY <1>2, <1>n DEF Like
<1>6. q.val = TRUE \/ "speak" \notin perm[q.u][q.c] => n.val = TRUE BY <1>n DEF Like, JoinsMuted
<1>7. Suits(n) /\ \A k, c : HeldBy(n, k, c) => HeldBy(q, k, c) BY <1>2, <1>5 DEF Suits, FlagPc, HeldBy, HeldPc
<1>8. ASSUME Rules(q.u), Steps(t, n) PROVE Vows(q.u, n)'
 <2>1. ServerMuted(q.u, q.c) => q.val = TRUE \/ SilentCome(q.u, q.c) BY <1>1, <1>2, <1>3, <1>8 DEF Rules, Vows
 <2>2. SilentCome(q.u, q.c) => SilentCome(q.u, q.c)' BY <1>1, <1>2, <1>8, StillSilent
 <2> QED BY <1>4, <1>5, <1>6, <2>1, <2>2 DEF Vows, ServerMuted, SilentCome
<1> QED BY <1>1, <1>2, <1>n, <1>3, <1>4, <1>5, <1>7, <1>8, PlainStep DEF LeavePc

\* ... that the membership leaves alone.
LEMMA JoinAddRules ==
    ASSUME Known, NEW t \in Task, JoinAdd(t)
    PROVE  RulesIInv'
<1>1. PICK q : q = task[t] OBVIOUS
<1>2. /\ q.pc = "add" /\ q.op = "join" /\ q.u \in User /\ Placed(q)
      /\ UNCHANGED <<state, dbVars, socketVars>>
      /\ \A c \in Channel, u \in User :
             u \in members'[c] <=> u \in members[c] \/ (c = q.c /\ u = q.u)
  BY <1>1, JoinAddDoes DEF Known
<1>n. PICK n : Proceed(t, n, {}) /\ Like(n, q, "joined", q.at, q.val, q.got, q.keys)
  BY <1>1, JoinAddDoes DEF Known
<1>3. Works(q, q.u) BY <1>2 DEF Works, Waiting
<1>4. \A u \in User : u # q.u => SameKeys(u) BY <1>2 DEF SameKeys
<1>5. n.pc = "joined" /\ n.op = "join" /\ n.u = q.u /\ n.k = q.k /\ n.c = q.c BY <1>2, <1>n DEF Like
<1>6. Suits(n) /\ \A k, c : HeldBy(n, k, c) => HeldBy(q, k, c) BY <1>2, <1>5 DEF Suits, FlagPc, HeldBy, HeldPc
<1>7. Vows(q.u, n)' BY <1>5, NoVow
<1> QED BY <1>1, <1>2, <1>n, <1>3, <1>4, <1>5, <1>6, <1>7, PlainStep DEF LeavePc

\* A leave under way will end what its socket holds.
LEMMA LeaveRemRules ==
    ASSUME Known, NEW t \in Task, LeaveRem(t)
    PROVE  RulesIInv'
<1>1. PICK q : q = task[t] OBVIOUS
<1>2. /\ q.pc = "rem" /\ q.u \in User
      /\ UNCHANGED <<state, dbVars, socketVars>>
      /\ \A c \in Channel, u \in User :
             u \in members'[c] <=> u \in members[c] /\ ~(c = q.at /\ u = q.u)
  BY <1>1, LeaveRemDoes DEF Known
<1>n. PICK n : Proceed(t, n, {}) /\ Like(n, q, "left", q.at, q.val, q.got, q.keys)
  BY <1>1, LeaveRemDoes DEF Known
<1>v. PICK v \in User : v = q.u
  BY <1>2
<1>3. Works(q, v) BY <1>2, <1>v DEF Works, Waiting
<1>4. \A u \in User : u # v => SameKeys(u) BY <1>2, <1>v DEF SameKeys
<1>5. /\ n.pc = "left" /\ n.op = q.op /\ n.u = q.u /\ n.k = q.k /\ n.s = q.s /\ n.c = q.c
      /\ n.at = q.at /\ n.seen = q.seen
  BY <1>n DEF Like
<1>6. Suits(n) BY <1>5 DEF Suits, FlagPc
<1>7. \A u \in User : u # v => Off(q, u) /\ Off(n, u) BY <1>v, <1>5 DEF Off
<1>8. \A k, c : WalkFor(q, k, c) => WalkFor(n, k, c) BY <1>5, WalkLike
<1>9. Minds(v, q, n)
 <2>1. \A k, c : ~HeldBy(n, k, c) /\ ~Forces(q, k, c) /\ ~Silences(q, v, c)
   BY <1>2, <1>5 DEF HeldBy, HeldPc, Forces, Silences
 <2>2. \A k, c : Dooms(q, k, c) => Dooms(n, k, c) BY <1>5, <1>8 DEF Dooms, LeavesFrom, LeavePc
 <2> QED BY <2>1, <2>2 DEF Minds
<1>10. Vows(v, n)' BY <1>5, NoVow
<1> QED BY <1>1, <1>2, <1>n, <1>3, <1>4, <1>6, <1>7, <1>8, <1>9, <1>10, QuietStep

\* A flag that mutes, or is not about muting, is always allowed.
LEMMA FlagCheckRules ==
    ASSUME Known, NEW t \in Task, FlagCheck(t)
    PROVE  RulesIInv'
<1>1. PICK q : q = task[t] OBVIOUS
<1>2. /\ q.pc = "check" /\ q.u \in User
      /\ UNCHANGED <<redisVars, dbVars, socketVars>>
  BY <1>1, FlagCheckDoes DEF Known
<1>n. PICK n : /\ Proceed(t, n, {})
               /\ \/ n = Idle
                  \/ /\ q.op = "mute" /\ q.val = FALSE
                     /\ Like(n, q, "muteSpeak", q.at, q.val, q.got, q.keys)
                  \/ /\ q.op # "mute" \/ q.val = TRUE
                     /\ Like(n, q, "get", q.at, q.val, q.got, q.keys)
  BY <1>1, FlagCheckDoes DEF Known
<1>3. q.op \in {"mute", "deafen"} BY <1>1, <1>2 DEF Known, RulesIInv, Suits, FlagPc
<1>4. Works(q, q.u) BY <1>2 DEF Works, Waiting
<1>5. state' = state /\ \A u \in User : SameKeys(u) BY <1>2 DEF redisVars, SameKeys
<1>6. \/ n.pc = "idle"
      \/ n.pc = "muteSpeak" /\ n.op = "mute" /\ n.u = q.u
      \/ n.pc = "get" /\ n.op = q.op /\ n.u = q.u /\ (n.op # "mute" \/ n.val = TRUE)
  BY <1>n, IdleFields DEF Like
<1>7. Suits(n) /\ \A k, c : ~HeldBy(n, k, c) BY <1>3, <1>6 DEF Suits, FlagPc, HeldBy, HeldPc
<1>8. Vows(q.u, n)' BY <1>6, NoVow
<1> QED BY <1>1, <1>2, <1>n, <1>3, <1>4, <1>5, <1>6, <1>7, <1>8, PlainStep DEF LeavePc

\* One that unmutes has looked at SPEAK ...
LEMMA UnmuteCheckSpeakRules ==
    ASSUME Known, NEW t \in Task, UnmuteCheckSpeak(t)
    PROVE  RulesIInv'
<1>1. PICK q : q = task[t] OBVIOUS
<1>2. /\ q.pc = "muteSpeak" /\ q.u \in User
      /\ UNCHANGED <<redisVars, dbVars, socketVars>>
  BY <1>1, UnmuteCheckSpeakDoes DEF Known
<1>n. PICK n : /\ Proceed(t, n, {})
               /\ \/ /\ "speak" \in perm[q.u][q.c]
                     /\ Like(n, q, "muteMember", q.at, q.val, q.got, q.keys)
                  \/ Like(n, q, "get", q.at, TRUE, q.got, q.keys)
  BY <1>1, UnmuteCheckSpeakDoes DEF Known
<1>3. q.op \in {"mute", "deafen"} BY <1>1, <1>2 DEF Known, RulesIInv, Suits, FlagPc
<1>4. Works(q, q.u) BY <1>2 DEF Works, Waiting
<1>5. state' = state /\ perm' = perm /\ \A u \in User : SameKeys(u) BY <1>2 DEF redisVars, dbVars, SameKeys
<1>6. /\ n.op = q.op /\ n.u = q.u /\ n.c = q.c
      /\ \/ n.pc = "muteMember" /\ "speak" \in perm[q.u][q.c]
         \/ n.pc = "get" /\ n.val = TRUE
  BY <1>n DEF Like
<1>7. Suits(n) /\ \A k, c : ~HeldBy(n, k, c) BY <1>3, <1>6 DEF Suits, FlagPc, HeldBy, HeldPc
<1>8. Vows(q.u, n)' BY <1>5, <1>6 DEF Vows
<1> QED BY <1>1, <1>2, <1>n, <1>3, <1>4, <1>5, <1>6, <1>7, <1>8, PlainStep DEF LeavePc

\* ... and at the server mute, and both looks stay good or are warned of.
LEMMA UnmuteCheckMemberRules ==
    ASSUME Known, NEW t \in Task, UnmuteCheckMember(t)
    PROVE  RulesIInv'
<1>1. PICK q : q = task[t] OBVIOUS
<1>2. /\ q.pc = "muteMember" /\ q.u \in User
      /\ UNCHANGED <<redisVars, dbVars, socketVars>>
  BY <1>1, UnmuteCheckMemberDoes DEF Known
<1>n. PICK n : /\ Proceed(t, n, {})
               /\ Like(n, q, "get", q.at, ServerMuted(q.u, q.c), q.got, q.keys)
  BY <1>1, UnmuteCheckMemberDoes DEF Known
<1>3. q.op \in {"mute", "deafen"} BY <1>1, <1>2 DEF Known, RulesIInv, Suits, FlagPc
<1>4. Works(q, q.u) BY <1>2 DEF Works, Waiting
<1>5. state' = state /\ perm' = perm /\ muted' = muted /\ \A u \in User : SameKeys(u)
  BY <1>2 DEF redisVars, dbVars, SameKeys
<1>6. n.op = q.op /\ n.u = q.u /\ n.k = q.k /\ n.c = q.c /\ n.pc = "get" BY <1>n DEF Like
<1>7. Suits(n) /\ \A k, c : ~HeldBy(n, k, c) BY <1>3, <1>6 DEF Suits, FlagPc, HeldBy, HeldPc
<1>8. ServerMuted(q.u, q.c) => n.val = TRUE BY <1>n DEF Like
<1>9. ASSUME Rules(q.u), Steps(t, n) PROVE Vows(q.u, n)'
 <2>1. "speak" \in perm[q.u][q.c] \/ Doomed(q.k, q.c) BY <1>1, <1>2, <1>4, <1>9 DEF Rules, Vows
 <2>2. Doomed(q.k, q.c) => Doomed(q.k, q.c)' BY <1>1, <1>2, <1>3, <1>9, StillDoomed DEF LeavePc
 <2>3. n.pc = "get" /\ (n.val = FALSE => ~ServerMuted(q.u, q.c)') BY <1>5, <1>6, <1>8 DEF ServerMuted
 <2> QED BY <1>5, <1>6, <2>1, <2>2, <2>3 DEF Vows, Doomed, ServerMuted
<1> QED BY <1>1, <1>2, <1>n, <1>3, <1>4, <1>5, <1>6, <1>7, <1>9, PlainStep DEF LeavePc

\* A walk that goes on after an update has its other sockets ahead of it still.
LEMMA WalkFinish ==
    ASSUME NEW q, q.op # "kick", NEW n, Finishes(q, n), NEW k \in Socket, NEW c,
           WalkFor(q, k, c)
    PROVE  WalkFor(n, k, c)
<1>1. q.op = "permission" BY DEF WalkFor
<1>2. n = NextSocket(q) BY <1>1 DEF Finishes
<1> QED BY <1>2, WalkNext

\* A read keeps what its handler has promised to write.
LEMMA UpdateGetRules ==
    ASSUME Known, NEW t \in Task, UpdateGet(t)
    PROVE  RulesIInv'
<1>1. PICK q : q = task[t] OBVIOUS
<1>2. /\ q.pc = "get" /\ q.u \in User /\ q.at \in Channel
      /\ UNCHANGED <<redisVars, dbVars, socketVars>>
  BY <1>1, UpdateGetDoes DEF Known
<1>n. PICK n : /\ Proceed(t, n, {})
               /\ \/ /\ state[q.at][q.u].in
                     /\ Like(n, q, "set", q.at, q.val, state[q.at][q.u], q.keys)
                  \/ ~state[q.at][q.u].in /\ Finishes(q, n)
  BY <1>1, UpdateGetDoes DEF Known
<1>3. q.op \in {"mute", "deafen", "modMute", "permission"} BY <1>1, <1>2 DEF Known, RulesIInv, Suits
<1>v. PICK v \in User : v = q.u
  BY <1>2
<1>4. Works(q, v) BY <1>2, <1>v DEF Works, Waiting
<1>5. state' = state /\ perm' = perm /\ muted' = muted /\ \A u \in User : SameKeys(u)
  BY <1>2 DEF redisVars, dbVars, SameKeys
<1>6. \A k, c : ~LeavesFrom(q, k, c) BY <1>2 DEF LeavesFrom, LeavePc
<1>7. CASE Like(n, q, "set", q.at, q.val, state[q.at][q.u], q.keys)
 <2>1. /\ n.pc = "set" /\ n.op = q.op /\ n.u = q.u /\ n.k = q.k /\ n.s = q.s /\ n.c = q.c
       /\ n.at = q.at /\ n.val = q.val /\ n.seen = q.seen
   BY <1>7 DEF Like
 <2>2. Suits(n) /\ \A u \in User : u # v => Off(q, u) /\ Off(n, u) BY <1>v, <1>3, <2>1 DEF Suits, FlagPc, Off
 <2>3. \A k, c : WalkFor(q, k, c) => WalkFor(n, k, c) BY <2>1, WalkLike
 <2>4. Minds(v, q, n)
  <3>1. \A k, c : ~HeldBy(n, k, c) /\ (Forces(q, k, c) => Forces(n, k, c))
                  /\ (Silences(q, v, c) => Silences(n, v, c))
    BY <1>2, <2>1 DEF HeldBy, HeldPc, Forces, Silences
  <3>2. \A k, c : Dooms(q, k, c) => Dooms(n, k, c) BY <1>6, <2>3 DEF Dooms
  <3> QED BY <3>1, <3>2 DEF Minds
 <2>5. ASSUME Rules(v), Steps(t, n) PROVE Vows(v, n)'
  <3>1. CASE n.op # "mute" \/ n.val = TRUE BY <2>1, <3>1, NoVow
  <3>2. CASE n.op = "mute" /\ n.val # TRUE
   <4>1. q.op = "mute" /\ q.val = FALSE BY <1>1, <2>1, <3>2, TaskFacts DEF Known
   <4>2. /\ "speak" \in perm[v][q.c] \/ Doomed(q.k, q.c)
         /\ ServerMuted(v, q.c) => SilentCome(v, q.c)
     BY <1>1, <1>2, <1>4, <2>5, <4>1 DEF Rules, Vows
   <4>3. Doomed(q.k, q.c) => Doomed(q.k, q.c)' BY <1>1, <1>2, <2>5, <4>1, StillDoomed DEF LeavePc
   <4>4. SilentCome(v, q.c) => SilentCome(v, q.c)' BY <1>1, <2>5, <4>1, StillSilent
   <4> QED BY <1>5, <2>1, <4>2, <4>3, <4>4 DEF Vows, Doomed, SilentCome, ServerMuted
  <3> QED BY <3>1, <3>2
 <2> QED BY <1>1, <1>2, <1>n, <1>4, <1>5, <2>2, <2>3, <2>4, <2>5, QuietStep
<1>8. CASE ~state[q.at][q.u].in /\ Finishes(q, n)
 <2>1. n.pc \in {"idle", "loop"} /\ ~Works(n, v) BY <1>8, FinishFields
 <2>2. Suits(n) /\ \A u \in User : u # v => Off(q, u) /\ Off(n, u) BY <1>v, <2>1 DEF Suits, FlagPc, Off
 <2>3. \A k \in Socket, c \in Channel : WalkFor(q, k, c) => WalkFor(n, k, c) BY <1>3, <1>8, WalkFinish
 <2>4. Minds(v, q, n)
  <3>1. \A k, c : ~HeldBy(n, k, c) /\ (Forces(q, k, c) => ~state[c][v].in)
                  /\ (Silences(q, v, c) => ~state[c][v].in)
    BY <1>2, <1>v, <1>8, <2>1 DEF HeldBy, HeldPc, Forces, Silences
  <3>2. \A k \in Mine(v), c \in Channel : Dooms(q, k, c) => Dooms(n, k, c) BY <1>6, <2>3 DEF Dooms, Mine
  <3> QED BY <3>1, <3>2 DEF Minds
 <2> QED BY <1>1, <1>2, <1>n, <1>4, <1>5, <2>1, <2>2, <2>3, <2>4, QuietStep
<1> QED BY <1>n, <1>7, <1>8

\* A moderator's mute that has the keys warns of every entry there is, ...
LEMMA ModMuteKeysRules ==
    ASSUME Known, NEW t \in Task, ModMuteKeys(t)
    PROVE  RulesIInv'
<1>1. PICK q : q = task[t] OBVIOUS
<1>2. /\ q.pc = "keys" /\ q.op = "modMute" /\ q.u \in User
      /\ UNCHANGED <<redisVars, dbVars, socketVars>>
  BY <1>1, ModMuteKeysDoes DEF Known
<1>n. PICK n : /\ Proceed(t, n, IF Busy(q.u) THEN {q.u} ELSE {})
               /\ Like(n, q, "find", q.at, q.val, q.got, HasEntry(q.u))
  BY <1>1, ModMuteKeysDoes DEF Known
<1>v. PICK v \in User : v = q.u
  BY <1>2
<1>3. n.pc = "find" /\ n.op = "modMute" /\ n.u = v /\ n.keys = HasEntry(v) BY <1>2, <1>n, <1>v DEF Like
<1>4. Suits(n) /\ Works(n, v) /\ \A u \in User : u # v => Off(q, u) /\ Off(n, u)
  BY <1>v, <1>3 DEF Suits, FlagPc, Works, Waiting, Off
<1>5. state' = state /\ \A u \in User : SameKeys(u) BY <1>2 DEF redisVars, SameKeys
<1>6. \A k, c : ~WalkFor(q, k, c) BY <1>2, NoWalk
<1>7. Minds(v, q, n)
 <2>1. \A k, c : ~HeldBy(n, k, c) /\ ~Dooms(q, k, c) /\ ~Forces(q, k, c)
   BY <1>2, <1>3, <1>6 DEF HeldBy, HeldPc, Dooms, LeavesFrom, LeavePc, Forces
 <2>2. \A c \in Channel : Silences(n, v, c) \/ ~state[c][v].in BY <1>3 DEF Silences, HasEntry
 <2> QED BY <2>1, <2>2 DEF Minds
<1>8. Vows(v, n)' BY <1>3, NoVow
<1> QED BY <1>1, <1>2, <1>n, <1>4, <1>5, <1>6, <1>7, <1>8, QuietStep

\* The channel of the one entry that a moderator's mute may find.
LEMMA OneEntry ==
    ASSUME NEW v, OneTalks(v), Agrees(v), NEW c \in Channel, NEW d \in Channel,
           state[c][v].in, state[d][v].in
    PROVE  c = d
<1>1. PICK k \in Mine(v) : voiceChannel[k] = c BY DEF Agrees, Agree, HasTab
<1>2. PICK o \in Mine(v) : voiceChannel[o] = d BY DEF Agrees, Agree, HasTab
<1> QED BY <1>1, <1>2, VoiceAssumption DEF OneTalks

\* ... and gives none of them up.
LEMMA ModMuteFindRules ==
    ASSUME Known, NEW t \in Task, ModMuteFind(t)
    PROVE  RulesIInv'
<1>1. PICK q : q = task[t] OBVIOUS
<1>2. /\ q.pc = "find" /\ q.op = "modMute" /\ q.u \in User
      /\ UNCHANGED <<redisVars, dbVars, socketVars>>
  BY <1>1, ModMuteFindDoes DEF Known
<1>n. PICK n : /\ Proceed(t, n, {})
               /\ \/ q.keys = {} /\ n = Idle
                  \/ \E c \in q.keys \cap Channel :
                        \/ /\ state[c][q.u].in
                           /\ Like(n, q, "get", c, TRUE, q.got, {})
                        \/ /\ ~state[c][q.u].in
                           /\ Like(n, q, "find", q.at, q.val, q.got, q.keys \ {c})
  BY <1>1, ModMuteFindDoes DEF Known
<1>v. PICK v \in User : v = q.u
  BY <1>2
<1>3. Works(q, v) BY <1>2, <1>v DEF Works, Waiting
<1>4. \/ q.keys = {} /\ n.pc = "idle"
      \/ /\ n.op = "modMute" /\ n.u = v
         /\ \E c \in q.keys \cap Channel :
               \/ n.pc = "get" /\ n.at = c /\ state[c][v].in
               \/ n.pc = "find" /\ n.keys = q.keys \ {c} /\ ~state[c][v].in
  BY <1>2, <1>n, <1>v, IdleFields DEF Like
<1>5. Suits(n) /\ \A u \in User : u # v => Off(q, u) /\ Off(n, u) BY <1>v, <1>4 DEF Suits, FlagPc, Off
<1>6. state' = state /\ \A u \in User : SameKeys(u) BY <1>2 DEF redisVars, SameKeys
<1>7. \A k, c : ~WalkFor(q, k, c) BY <1>2, NoWalk
<1>8. ASSUME v \notin raced PROVE Minds(v, q, n)
 <2>1. \A k, c : ~HeldBy(n, k, c) /\ ~Dooms(q, k, c) /\ ~Forces(q, k, c)
   BY <1>2, <1>4, <1>7 DEF HeldBy, HeldPc, Dooms, LeavesFrom, LeavePc, Forces
 <2>2. OneTalks(v) /\ Agrees(v)
  <3>1. OneTalks(v) /\ Phase(v, q) BY <1>1, <1>3, <1>8, Alone DEF Known
  <3> QED BY <1>2, <3>1 DEF Phase, StillPhase, StillPc
 <2>3. ASSUME NEW d \in Channel, Silences(q, v, d), state[d][v].in
       PROVE  Silences(n, v, d)
  <3>1. d \in q.keys BY <1>2, <2>3 DEF Silences
  <3>2. PICK c \in q.keys \cap Channel :
             \/ n.pc = "get" /\ n.at = c /\ state[c][v].in
             \/ n.pc = "find" /\ n.keys = q.keys \ {c} /\ ~state[c][v].in
    BY <1>4, <3>1
  <3>3. n.op = "modMute" /\ n.u = v BY <1>4, <3>1
  <3>4. CASE n.pc = "get" /\ n.at = c /\ state[c][v].in
   <4>1. c = d BY <2>2, <2>3, <3>4, OneEntry
   <4> QED BY <3>3, <3>4, <4>1 DEF Silences
  <3>5. CASE n.pc = "find" /\ n.keys = q.keys \ {c} /\ ~state[c][v].in BY <2>3, <3>1, <3>3, <3>5 DEF Silences
  <3> QED BY <3>2, <3>4, <3>5
 <2> QED BY <2>1, <2>3 DEF Minds
<1>9. Vows(v, n)' BY <1>4, NoVow
<1> QED BY <1>1, <1>2, <1>n, <1>3, <1>5, <1>6, <1>7, <1>8, <1>9, QuietStep

\* A walk that lets a socket stay found CONNECT, and SPEAK or mutes it.
LEMMA VisitDecidesRules ==
    ASSUME Known, NEW t \in Task, VisitDecides(t)
    PROVE  RulesIInv'
<1>1. PICK q : q = task[t] OBVIOUS
<1>2. /\ q.pc = "perms" /\ q.u \in User
      /\ UNCHANGED <<redisVars, dbVars, socketVars>>
  BY <1>1, VisitDecidesDoes DEF Known
<1>n. PICK n : /\ Proceed(t, n, {})
               /\ \/ Like(n, q, "del", q.at, q.val, q.got, q.keys)
                  \/ /\ "connect" \in perm[q.u][q.at]
                     /\ Like(n, q, "get", q.at, TRUE, q.got, q.keys)
                  \/ /\ Bits \subseteq perm[q.u][q.at]
                     /\ n = NextSocket(q)
  BY <1>1, VisitDecidesDoes DEF Known
<1>3. q.op = "permission" BY <1>1, <1>2 DEF Known, RulesIInv, Suits
<1>v. PICK v \in User : v = q.u
  BY <1>2
<1>4. Works(q, v) BY <1>2, <1>v DEF Works, Waiting
<1>5. state' = state /\ \A u \in User : SameKeys(u) BY <1>2 DEF redisVars, SameKeys
<1>6. \A k, c : ~Forces(q, k, c) /\ ~Silences(q, v, c) BY <1>2 DEF Forces, Silences
<1>7. CASE \/ Like(n, q, "del", q.at, q.val, q.got, q.keys)
           \/ /\ "connect" \in perm[q.u][q.at]
              /\ Like(n, q, "get", q.at, TRUE, q.got, q.keys)
 <2>1. /\ n.op = q.op /\ n.u = q.u /\ n.k = q.k /\ n.s = q.s /\ n.c = q.c
       /\ n.at = q.at /\ n.seen = q.seen
       /\ n.pc = "del" \/ (n.pc = "get" /\ "connect" \in perm[v][q.at])
   BY <1>v, <1>7 DEF Like
 <2>2. Suits(n) /\ \A u \in User : u # v => Off(q, u) /\ Off(n, u) BY <1>v, <1>3, <2>1 DEF Suits, FlagPc, Off
 <2>3. \A k, c : WalkFor(q, k, c) => WalkFor(n, k, c) BY <2>1, WalkLike
 <2>4. Minds(v, q, n)
  <3>1. \A k, c : ~HeldBy(n, k, c) BY <2>1 DEF HeldBy, HeldPc
  <3>2. \A k, c : LeavesFrom(q, k, c) =>
            LeavesFrom(n, k, c) \/ ("connect" \in perm[v][c] /\ Forces(n, k, c))
    BY <1>3, <2>1 DEF LeavesFrom, LeavePc, Forces
  <3>3. \A k, c : Dooms(q, k, c) =>
            Dooms(n, k, c) \/ ("connect" \in perm[v][c] /\ Forces(n, k, c))
    BY <2>3, <3>2 DEF Dooms
  <3> QED BY <1>6, <3>1, <3>3 DEF Minds
 <2>5. Vows(v, n)' BY <1>3, <2>1, NoVow
 <2> QED BY <1>1, <1>2, <1>n, <1>4, <1>5, <2>2, <2>3, <2>4, <2>5, QuietStep
<1>8. CASE Bits \subseteq perm[q.u][q.at] /\ n = NextSocket(q)
 <2>1. n.pc = "loop" BY <1>8, NextFields
 <2>2. Suits(n) /\ ~Works(n, v) /\ \A u \in User : u # v => Off(q, u) /\ Off(n, u)
   BY <1>v, <2>1 DEF Suits, FlagPc, Off, Works, Waiting
 <2>3. \A k \in Socket : \A c : WalkFor(q, k, c) => WalkFor(n, k, c) BY <1>8, WalkNext
 <2>4. Minds(v, q, n)
  <3>1. \A k, c : ~HeldBy(n, k, c) BY <2>1 DEF HeldBy, HeldPc
  <3>2. \A k, c : LeavesFrom(q, k, c) => "connect" \in perm[v][c] /\ "speak" \in perm[v][c]
    BY <1>v, <1>8 DEF LeavesFrom, Bits
  <3>3. \A k \in Mine(v), c \in Channel : Dooms(q, k, c) =>
            Dooms(n, k, c) \/ ("connect" \in perm[v][c] /\ "speak" \in perm[v][c])
    BY <2>3, <3>2 DEF Dooms, Mine
  <3> QED BY <1>6, <3>1, <3>3 DEF Minds
 <2> QED BY <1>1, <1>2, <1>n, <1>4, <1>5, <2>2, <2>3, <2>4, QuietStep
<1> QED BY <1>n, <1>7, <1>8

\* A walk passes no socket that it should have looked at.
LEMMA VisitRules ==
    ASSUME Known, NEW t \in Task, NEW k \in Socket, Visit(t, k)
    PROVE  RulesIInv'
<1>1. PICK q : q = task[t] OBVIOUS
<1>2. /\ q.pc = "loop" /\ q.k = NoSocket
      /\ q.op = "kick" => Owner[k] = q.u
      /\ UNCHANGED <<redisVars, dbVars, socketVars>>
  BY <1>1, VisitDoes DEF Known
<1>n. PICK n : /\ Proceed(t, n, IF Busy(Owner[k]) THEN {Owner[k]} ELSE {})
               /\ \/ Evicts(q, k) /\ VisitsAs(n, q, k) /\ n.pc = "del"
                  \/ Reconciles(q, k) /\ VisitsAs(n, q, k) /\ n.pc = "perms"
                  \/ ~Evicts(q, k) /\ ~Reconciles(q, k) /\ WalksOn(n, q, k)
  BY <1>1, VisitDoes DEF Known
<1>v. PICK v \in User : v = Owner[k]
  BY VoiceAssumption
<1>m. PICK met : met = IF Busy(v) THEN {v} ELSE {}
  OBVIOUS
<1>3. Proceed(t, n, met) BY <1>n, <1>v, <1>m
<1>4. v \notin met => \A o \in Task : ~Works(task[o], v) BY <1>m DEF Busy, WorksOn, Works
<1>5. n.pc \in {"del", "perms", "loop"} /\ (n.pc = "perms" => n.op = "permission")
  BY <1>n DEF WalksOn, VisitsAs, Reconciles
<1>6. /\ n.op = q.op /\ n.s = q.s /\ n.c = q.c /\ n.k \in {k, NoSocket}
      /\ q.op = "kick" => n.u = q.u
      /\ n.pc = "loop" \/ n.u = v
      /\ n.seen \subseteq q.seen \cup {k}
  BY <1>2, <1>n, <1>v DEF WalksOn, VisitsAs
<1>7. Suits(n) /\ \A u \in User : u # v => Off(q, u) /\ Off(n, u) BY <1>2, <1>5, <1>6 DEF Suits, FlagPc, Off
<1>8. state' = state /\ \A u \in User : SameKeys(u) BY <1>2 DEF redisVars, SameKeys
<1>9. \A o \in Socket : \A c : o # k /\ WalkFor(q, o, c) => WalkFor(n, o, c)
  BY <1>6, VoiceAssumption DEF WalkFor
<1>10. \A o \in Socket, c \in Channel : Owner[o] # v /\ WalkFor(q, o, c) => WalkFor(n, o, c) BY <1>v, <1>9
<1>11. \A o, c : ~HeldBy(n, o, c) BY <1>5 DEF HeldBy, HeldPc
<1>12. Minds(v, q, n)
 <2>1. \A o, c : ~LeavesFrom(q, o, c) /\ ~Forces(q, o, c) /\ ~Silences(q, v, c)
   BY <1>2 DEF LeavesFrom, LeavePc, Forces, Silences
 <2>2. ASSUME NEW c \in Channel, WalkFor(q, k, c), voiceChannel[k] = c
       PROVE  LeavesFrom(n, k, c)
  <3>1. Evicts(q, k) \/ Reconciles(q, k) BY <2>2, VoiceAssumption DEF WalkFor, Evicts, Reconciles, InServer
  <3> QED BY <1>n, <2>2, <3>1 DEF VisitsAs, LeavesFrom, LeavePc
 <2>3. \A o \in Mine(v), c \in Channel : Dooms(q, o, c) => Dooms(n, o, c) \/ voiceChannel[o] # c
   BY <1>9, <2>1, <2>2 DEF Dooms, Mine
 <2> QED BY <1>11, <2>1, <2>3 DEF Minds
<1>13. Vows(v, n)' BY <1>5, NoVow
<1> QED BY <1>1, <1>2, <1>3, <1>4, <1>7, <1>8, <1>10, <1>12, <1>13, QuietStep

\* A disconnect goes on to its leave.
LEMMA DropLeavesRules ==
    ASSUME Known, NEW t \in Task, DropLeaves(t)
    PROVE  RulesIInv'
<1>1. PICK q : q = task[t] OBVIOUS
<1>2. /\ q.pc = "dropped" /\ q.op = "drop" /\ q.u \in User
      /\ UNCHANGED <<redisVars, dbVars, socketVars>>
  BY <1>1, DropLeavesDoes DEF Known
<1>n. PICK n : /\ Proceed(t, n, IF \E o \in Task \ {t} : task[o].k = q.k THEN {q.u} ELSE {})
               /\ \/ /\ voiceChannel[q.k] \in Channel
                     /\ Like(n, q, "del", voiceChannel[q.k], q.val, q.got, q.keys)
                  \/ /\ voiceChannel[q.k] = NoChannel
                     /\ n = Idle
  BY <1>1, DropLeavesDoes DEF Known
<1>m. PICK met : Proceed(t, n, met)
  BY <1>n
<1>3. \A k, c : ~WalkFor(q, k, c) BY <1>2, NoWalk
<1>4. CASE n = Idle
 <2>1. q.pc \in Waiting /\ q.pc # "keys" /\ n.pc \in Waiting BY <1>2, <1>4, IdleFields DEF Waiting
 <2>2. /\ perm' = perm /\ muted' = muted /\ up' = up
       /\ UNCHANGED <<redisVars, voiceChannel>>
   BY <1>2 DEF dbVars, socketVars
 <2> QED BY <1>1, <1>m, <1>3, <2>1, <2>2, AsideRules DEF ServerMuted
<1>5. CASE Like(n, q, "del", voiceChannel[q.k], q.val, q.got, q.keys)
 <2>1. n.pc = "del" /\ n.u = q.u BY <1>5 DEF Like
 <2>2. Suits(n) /\ Works(n, q.u) /\ \A k, c : ~HeldBy(n, k, c)
   BY <2>1 DEF Suits, FlagPc, Works, Waiting, HeldBy, HeldPc
 <2>3. \A u \in User : SameKeys(u) BY <1>2 DEF redisVars, SameKeys
 <2>4. Vows(q.u, n)' /\ state' = state BY <1>2, <2>1, NoVow DEF redisVars
 <2> QED BY <1>1, <1>2, <1>m, <2>1, <2>2, <2>3, <2>4, PlainStep DEF LeavePc
<1> QED BY <1>n, <1>4, <1>5

\* A clean-up by user touches raced users only.
LEMMA SweepRules ==
    ASSUME Known, NEW t \in Task, Sweep(t)
    PROVE  RulesIInv'
<1>1. PICK q : q = task[t] OBVIOUS
<1>2. /\ q.pc = "sweep" /\ q \in TaskRecord /\ Placed(q) /\ Shaped(q) /\ q.u \in User
      /\ UNCHANGED <<redisVars, dbVars, socketVars>>
  BY <1>1, TaskFacts DEF Sweep, Known
<1>3. \A k, c : ~WalkFor(q, k, c)
 <2>1. q.k = NoSocket BY <1>2 DEF Placed
 <2>2. q.op \notin {"permission", "kick"} BY <1>2, <2>1, VoiceAssumption DEF Shaped
 <2> QED BY <2>2, NoWalk
<1>4. /\ perm' = perm /\ muted' = muted /\ up' = up /\ voiceChannel' = voiceChannel
      /\ \A u \in User : SameKeys(u)
  BY <1>2 DEF dbVars, socketVars, redisVars, SameKeys
<1>5. CASE HasEntry(q.u) = {} /\ Proceed(t, Idle, IF Busy(q.u) THEN {q.u} ELSE {})
 <2>1. PICK met : Proceed(t, Idle, met) BY <1>5
 <2>2. q.pc \in Waiting /\ q.pc # "keys" /\ Idle.pc \in Waiting BY <1>2, IdleFields DEF Waiting
 <2> QED BY <1>1, <1>2, <1>3, <1>4, <2>1, <2>2, AsideRules DEF ServerMuted
<1>6. CASE \E c \in HasEntry(q.u) : Proceed(t, [q EXCEPT !.pc = "del", !.at = c], {q.u})
 <2>1. PICK c \in HasEntry(q.u) : Proceed(t, [q EXCEPT !.pc = "del", !.at = c], {q.u}) BY <1>6
 <2>2. c \in Channel BY DEF HasEntry
 <2>3. Like([q EXCEPT !.pc = "del", !.at = c], q, "del", c, q.val, q.got, q.keys)
   BY <1>2, <2>2, LikeAt DEF Awaits
 <2>4. PICK n : /\ Proceed(t, n, {q.u})
                /\ Like(n, q, "del", c, q.val, q.got, q.keys)
   BY <2>1, <2>3
 <2>5. n.pc = "del" /\ n.u = q.u BY <2>4 DEF Like
 <2>6. Suits(n) /\ \A u \in User : u # q.u => Off(task[t], u) /\ Off(n, u) BY <1>1, <2>5 DEF Suits, FlagPc, Off
 <2>7. q.u \in raced' BY <2>4 DEF Proceed
 <2> QED BY <1>1, <1>2, <1>3, <1>4, <2>4, <2>6, <2>7, StepRules
<1> QED BY <1>1, <1>5, <1>6 DEF Sweep

\* A walk that ends has no connected socket ahead.
LEMMA WalkEndsRules ==
    ASSUME Known, NEW t \in Task, WalkEnds(t)
    PROVE  RulesIInv'
<1> DEFINE w == [Idle EXCEPT !.pc = "sweep", !.op = "sweep", !.s = task[t].s, !.u = task[t].u]
           n == IF task[t].op = "kick" THEN w ELSE Idle
<1>1. /\ task[t].pc = "loop" /\ Ahead(task[t]) = {} /\ Proceed(t, n, {})
      /\ UNCHANGED <<redisVars, dbVars, socketVars>>
  BY DEF WalkEnds
<1>2. n.pc \in {"sweep", "idle"} BY DEF Idle
<1> HIDE DEF n, w
<1>3. /\ perm' = perm /\ muted' = muted /\ up' = up
      /\ UNCHANGED <<redisVars, voiceChannel>>
  BY <1>1 DEF dbVars, socketVars
<1>4. PICK q : q = task[t] OBVIOUS
<1>5. \A k \in Socket : \A c : WalkFor(q, k, c) => k \notin up BY <1>1, <1>4 DEF WalkFor, Ahead
<1>6. q.pc \in Waiting /\ q.pc # "keys" /\ n.pc \in Waiting BY <1>1, <1>2, <1>4 DEF Waiting
<1> QED BY <1>1, <1>3, <1>4, <1>5, <1>6, AsideRules DEF ServerMuted

\* A handler that has not started was called for nothing.
LEMMA IdleTask ==
    ASSUME Known, NEW t \in Task, task[t].pc = "idle"
    PROVE  \E q : /\ q = task[t] /\ q.pc \in Waiting /\ q.pc # "keys"
                  /\ \A k, c : ~WalkFor(q, k, c)
<1>1. PICK q : q = task[t] OBVIOUS
<1>2. q = Idle BY <1>1, TaskFacts DEF Known, Placed
<1>3. q.pc = "idle" /\ q.op = "none" BY <1>2, IdleFields
<1> QED BY <1>1, <1>3, NoWalk DEF Waiting

\* A socket that goes is doomed.
LEMMA DropRules ==
    ASSUME Known, NEW t \in Task, NEW k \in Socket, Drop(t, k)
    PROVE  RulesIInv'
<1> DEFINE q == Starts(t, "drop", k, NoChannel)
           n == [q EXCEPT !.pc = "dropped"]
<1>1. /\ task[t].pc = "idle" /\ UNCHANGED <<redisVars, dbVars, voiceChannel>>
      /\ up' = up \ {k} /\ Proceed(t, n, {})
  BY DEF Drop
<1>2. n.pc = "dropped"
 <2>1. q \in TaskRecord BY StartsTyped
 <2> HIDE DEF q
 <2> QED BY <2>1 DEF TaskRecord
<1> HIDE DEF n
<1>3. /\ perm' = perm /\ muted' = muted /\ up' \subseteq up
      /\ UNCHANGED <<redisVars, voiceChannel>>
  BY <1>1 DEF dbVars
<1>4. PICK p : /\ p = task[t] /\ p.pc \in Waiting /\ p.pc # "keys"
               /\ \A o, c : ~WalkFor(p, o, c)
  BY <1>1, IdleTask
<1>5. n.pc \in Waiting BY <1>2 DEF Waiting
<1> QED BY <1>1, <1>3, <1>4, <1>5, AsideRules DEF ServerMuted

\* A moderator's mute warns of itself, ...
LEMMA ModMuteRules ==
    ASSUME Known, NEW t \in Task, NEW s \in Server, NEW u \in User, ModMute(t, s, u)
    PROVE  RulesIInv'
<1> DEFINE n == [Idle EXCEPT !.pc = "keys", !.op = "modMute", !.u = u]
<1>1. /\ task[t].pc = "idle" /\ UNCHANGED <<redisVars, perm, socketVars>>
      /\ muted' = muted \cup {<<s, u>>} /\ Proceed(t, n, {})
  BY DEF ModMute
<1>2. n.pc = "keys" /\ n.op = "modMute" /\ n.u = u BY DEF Idle
<1> HIDE DEF n
<1>3. /\ perm' = perm /\ up' = up /\ UNCHANGED <<redisVars, voiceChannel>> BY <1>1 DEF socketVars
<1>4. PICK p : /\ p = task[t] /\ p.pc \in Waiting /\ p.pc # "keys"
               /\ \A o, c : ~WalkFor(p, o, c)
  BY <1>1, IdleTask
<1>5. n.pc \in Waiting BY <1>2 DEF Waiting
<1>6. task'[t] = n BY <1>1, ProceedSteps DEF Known, Base, Steps
<1>7. \A c : SilentCome(u, c)' BY <1>2, <1>6 DEF SilentCome, Silences
<1>8. \A w \in User, c \in Channel : ServerMuted(w, c)' => ServerMuted(w, c) \/ SilentCome(w, c)'
  BY <1>1, <1>7 DEF ServerMuted
<1> QED BY <1>1, <1>3, <1>4, <1>5, <1>8, AsideRules

\* ... as a lost permission does: its walk has every socket ahead, ...
LEMMA ChangePermissionRules ==
    ASSUME Known, NEW t \in Task, NEW u \in User, NEW c \in Channel, NEW bits,
           ChangePermission(t, u, c, bits)
    PROVE  RulesIInv'
<1> DEFINE n == [Idle EXCEPT !.pc = "loop", !.op = "permission", !.c = c]
<1>1. /\ task[t].pc = "idle" /\ UNCHANGED <<redisVars, muted, socketVars>>
      /\ perm' = [perm EXCEPT ![u][c] = bits] /\ Proceed(t, n, {})
  BY DEF ChangePermission
<1>2. /\ n.pc = "loop" /\ n.op = "permission" /\ n.c = c /\ n.k = NoSocket /\ n.seen = {} BY DEF Idle
<1> HIDE DEF n
<1>3. /\ muted' = muted /\ up' = up /\ UNCHANGED <<redisVars, voiceChannel>> BY <1>1 DEF socketVars
<1>4. PICK p : /\ p = task[t] /\ p.pc \in Waiting /\ p.pc # "keys"
               /\ \A o, d : ~WalkFor(p, o, d)
  BY <1>1, IdleTask
<1>5. n.pc \in Waiting BY <1>2 DEF Waiting
<1>6. task'[t] = n BY <1>1, ProceedSteps DEF Known, Base, Steps
<1>7. \A k \in Socket : Doomed(k, c)' BY <1>2, <1>6, VoiceAssumption DEF Doomed, Dooms, WalkFor
<1>8. \A w \in User, d \in Channel : d # c => perm'[w][d] = perm[w][d]
  BY <1>1 DEF Known, Base, VoiceIInv, VoiceTypeOK
<1>9. \A k \in Socket, d \in Channel : perm'[Owner[k]][d] = perm[Owner[k]][d] \/ Doomed(k, d)'
  BY <1>7, <1>8, VoiceAssumption
<1> QED BY <1>1, <1>3, <1>4, <1>5, <1>9, AsideRules DEF ServerMuted

\* ... and a lost membership, by the eviction that follows.
LEMMA KickRules ==
    ASSUME Known, NEW t \in Task, NEW s \in Server, NEW u \in User, NEW deletes \in BOOLEAN,
           Kick(t, s, u, deletes)
    PROVE  RulesIInv'
<1> DEFINE n == [Idle EXCEPT !.pc = "loop", !.op = "kick", !.s = s, !.u = u]
<1>1. /\ task[t].pc = "idle" /\ UNCHANGED <<redisVars, socketVars>>
      /\ perm' = [perm EXCEPT ![u] = [c \in Channel |-> IF ServerOf[c] = s THEN {} ELSE @[c]]]
      /\ muted' = (IF deletes THEN muted \ {<<s, u>>} ELSE muted) /\ Proceed(t, n, {})
  BY DEF Kick
<1>2. /\ n.pc = "loop" /\ n.op = "kick" /\ n.s = s /\ n.u = u /\ n.k = NoSocket /\ n.seen = {} BY DEF Idle
<1> HIDE DEF n
<1>3. /\ muted' \subseteq muted /\ up' = up /\ UNCHANGED <<redisVars, voiceChannel>> BY <1>1 DEF socketVars
<1>4. PICK p : /\ p = task[t] /\ p.pc \in Waiting /\ p.pc # "keys"
               /\ \A o, d : ~WalkFor(p, o, d)
  BY <1>1, IdleTask
<1>5. n.pc \in Waiting BY <1>2 DEF Waiting
<1>6. task'[t] = n BY <1>1, ProceedSteps DEF Known, Base, Steps
<1>7. \A k \in Socket, c \in Channel : Owner[k] = u /\ ServerOf[c] = s => Doomed(k, c)'
  BY <1>2, <1>6, VoiceAssumption DEF Doomed, Dooms, WalkFor
<1>8. \A w \in User, c \in Channel : ~(w = u /\ ServerOf[c] = s) => perm'[w][c] = perm[w][c]
  BY <1>1 DEF Known, Base, VoiceIInv, VoiceTypeOK
<1>9. \A k \in Socket, c \in Channel : perm'[Owner[k]][c] = perm[Owner[k]][c] \/ Doomed(k, c)'
  BY <1>7, <1>8, VoiceAssumption
<1>10. \A w \in User, c \in Channel : ServerMuted(w, c)' => ServerMuted(w, c) BY <1>3 DEF ServerMuted
<1> QED BY <1>1, <1>3, <1>4, <1>5, <1>9, <1>10, AsideRules

------------------------------------------------------------
(* Steps that write the keys or the channel of the user they work on.       *)

\* The rules of a user after a step of its only worker that goes on as n.
Abides(v, n) ==
    /\ \A k \in Mine(v), c \in Channel : voiceChannel[k] = c \/ HeldBy(n, k, c) =>
          /\ "connect" \in perm[v][c] \/ Doomed(k, c)
          /\ state[c][v].in /\ "speak" \notin perm[v][c] =>
                 state[c][v].isMuted = TRUE \/ Doomed(k, c) \/ ForceCome(k, c)
    /\ ServerRule(v)
    /\ Works(n, v) => Vows(v, n)

\* If the worker abides by the rules, they hold after its step.
LEMMA WriteRules ==
    ASSUME Known, NEW t \in Task, NEW q, q = task[t], NEW n, NEW met, Proceed(t, n, met),
           UNCHANGED <<dbVars, up>>, Suits(n), NEW v \in User, Works(q, v),
           n.u = v \/ n.pc \in {"idle", "loop", "sweep"},
           \A u \in User : u # v =>
               SameKeys(u) /\ \A k \in Mine(u) : voiceChannel'[k] = voiceChannel[k],
           \A k \in Socket, c \in Channel :
               Owner[k] # v /\ WalkFor(q, k, c) => WalkFor(n, k, c),
           (v \notin raced /\ Rules(v) /\ Phase(v, q) /\ OneTalks(v) /\ Steps(t, n))
           => Abides(v, n)'
    PROVE  RulesIInv'
<1>1. /\ Steps(t, n)
      /\ \A u \in User : u \notin raced' => u \notin raced
  BY ProceedSteps DEF Known, Base
<1>2. \A u \in User : u # v => Off(q, u) /\ Off(n, u) BY DEF Works, Off
<1>3. ASSUME v \notin raced' PROVE Rules(v)'
 <2>1. v \notin raced /\ Rules(v) BY <1>1, <1>3 DEF Known, RulesIInv
 <2>2. /\ \A o \in Task : o # t => ~Works(task[o], v)
       /\ OneTalks(v) /\ Phase(v, q)
   BY <2>1, Alone DEF Known
 <2>3. Abides(v, n)' BY <1>1, <2>1, <2>2
 <2>4. \A k \in Mine(v), c \in Channel : Holds(k, c)' => voiceChannel'[k] = c \/ HeldBy(n, k, c)
   BY <1>1, <2>2, WorkerHolds DEF Known
 <2>5. ConnectRule(v)' /\ SpeakRule(v)' BY <2>3, <2>4 DEF Abides, ConnectRule, SpeakRule, Mine, HeldBy
 <2>6. ASSUME NEW o \in Task, Works(task[o], v)' PROVE Vows(v, task[o])'
  <3>1. o = t /\ task'[o] = n /\ Works(n, v) BY <1>1, <2>2, <2>6 DEF Steps, Works
  <3>2. Vows(v, n)' BY <2>3, <3>1 DEF Abides, Works
  <3> QED BY <3>1, <3>2 DEF Vows, Doomed, SilentCome, ServerMuted
 <2> QED BY <2>3, <2>5, <2>6 DEF Abides, Rules
<1>4. up' \subseteq up /\ UNCHANGED dbVars OBVIOUS
<1> QED BY <1>2, <1>3, <1>4, StepRules

\* A join writes the mute it vowed, ...
LEMMA JoinPutRules ==
    ASSUME Known, NEW t \in Task, JoinPut(t)
    PROVE  RulesIInv'
<1>1. PICK q : q = task[t] OBVIOUS
<1>2. /\ q.pc = "put" /\ q.op = "join" /\ q.u \in User /\ q.c \in Channel
      /\ UNCHANGED <<members, dbVars, socketVars>>
      /\ \A c \in Channel, u \in User :
             state'[c][u] = IF c = q.c /\ u = q.u
                            THEN [in |-> TRUE, isMuted |-> q.val, isDeafened |-> FALSE]
                            ELSE state[c][u]
  BY <1>1, JoinPutDoes DEF Known
<1>n. PICK n : Proceed(t, n, {}) /\ Like(n, q, "add", q.at, q.val, q.got, q.keys)
  BY <1>1, JoinPutDoes DEF Known
<1>v. PICK v \in User : v = q.u
  BY <1>2
<1>3. n.pc = "add" /\ n.op = "join" /\ n.u = v /\ n.k = q.k /\ n.c = q.c BY <1>2, <1>n, <1>v DEF Like
<1>4. Works(q, v) /\ Suits(n) /\ \A k, c : HeldBy(n, k, c) => HeldBy(q, k, c) /\ c = q.c /\ k = q.k
  BY <1>2, <1>3, <1>v DEF Works, Waiting, Suits, FlagPc, HeldBy, HeldPc
<1>5. \A u \in User : u # v => SameKeys(u) BY <1>2, <1>v DEF SameKeys
<1>6. perm' = perm /\ muted' = muted /\ up' = up /\ voiceChannel' = voiceChannel BY <1>2 DEF dbVars, socketVars
<1>7. q.val = TRUE => state'[q.c][v].isMuted = TRUE BY <1>2, <1>v
<1>8. \A c \in Channel : c # q.c => state'[c][v] = state[c][v] BY <1>2
<1>9. \A k, c : ~WalkFor(q, k, c) BY <1>2, NoWalk
<1>10. ASSUME Rules(v), Phase(v, q), Steps(t, n) PROVE Abides(v, n)'
 <2>1. /\ \A k \in Mine(v) : voiceChannel[k] = NoChannel
       /\ \A c \in Channel : ~state[c][v].in
   BY <1>2, <1>10 DEF Phase, JoinPhase, JoinPc
 <2>2. /\ ServerMuted(v, q.c) => q.val = TRUE \/ SilentCome(v, q.c)
       /\ "speak" \notin perm[v][q.c] => q.val = TRUE \/ Doomed(q.k, q.c)
   BY <1>1, <1>2, <1>4, <1>10 DEF Rules, Vows
 <2>3. SilentCome(v, q.c) => SilentCome(v, q.c)' BY <1>1, <1>2, <1>10, StillSilent
 <2>4. Doomed(q.k, q.c) => Doomed(q.k, q.c)' BY <1>1, <1>2, <1>10, StillDoomed DEF LeavePc
 <2>5. ASSUME NEW k \in Mine(v), NEW c \in Channel, voiceChannel'[k] = c \/ HeldBy(n, k, c)
       PROVE  /\ "connect" \in perm'[v][c] \/ Doomed(k, c)'
              /\ "speak" \notin perm'[v][c] => state'[c][v].isMuted = TRUE \/ Doomed(k, c)'
  <3>1. HeldBy(q, k, c) /\ c = q.c /\ k = q.k BY <1>4, <1>6, <2>1, <2>5, VoiceAssumption
  <3>2. Holds(k, c) BY <1>1, <3>1 DEF Holds
  <3>3. "connect" \in perm[v][c] \/ Doomed(k, c) BY <1>10, <3>2 DEF Rules, ConnectRule
  <3> QED BY <1>6, <1>7, <2>2, <2>4, <3>1, <3>3
 <2>6. ServerRule(v)'
  <3> SUFFICES ASSUME NEW c \in Channel, state'[c][v].in, ServerMuted(v, c)'
               PROVE  state'[c][v].isMuted = TRUE \/ SilentCome(v, c)'
    BY DEF ServerRule
  <3>1. c = q.c BY <1>8, <2>1
  <3>2. ServerMuted(v, q.c) BY <1>6, <3>1 DEF ServerMuted
  <3> QED BY <1>7, <2>2, <2>3, <3>1, <3>2
 <2>7. Vows(v, n)' BY <1>3, NoVow
 <2> QED BY <2>5, <2>6, <2>7 DEF Abides, Mine, HeldBy
<1> QED BY <1>1, <1>2, <1>n, <1>3, <1>4, <1>5, <1>6, <1>9, <1>10, WriteRules

\* ... and holds the channel it held before.
LEMMA JoinDoneRules ==
    ASSUME Known, NEW t \in Task, JoinDone(t)
    PROVE  RulesIInv'
<1>1. PICK q : q = task[t] OBVIOUS
<1>2. /\ q.pc = "joined" /\ q.op = "join" /\ q.u \in User /\ q.c \in Channel /\ Placed(q)
      /\ UNCHANGED <<redisVars, dbVars, up>>
      /\ \A k \in Socket : voiceChannel'[k] = IF k = q.k THEN q.c ELSE voiceChannel[k]
  BY <1>1, JoinDoneDoes DEF Known
<1>n. PICK n : n = Idle /\ Proceed(t, n, {})
  BY <1>1, JoinDoneDoes DEF Known
<1>v. PICK v \in User : v = q.u
  BY <1>2
<1>3. n.pc = "idle" BY <1>n, IdleFields
<1>4. Works(q, v) /\ Suits(n) /\ ~Works(n, v) /\ \A k, c : ~HeldBy(n, k, c)
  BY <1>2, <1>3, <1>v DEF Works, Waiting, Suits, FlagPc, HeldBy, HeldPc
<1>5. /\ state' = state /\ perm' = perm /\ muted' = muted /\ up' = up
      /\ \A u \in User : SameKeys(u)
  BY <1>2 DEF redisVars, dbVars, SameKeys
<1>6. \A u \in User : u # v => \A k \in Mine(u) : voiceChannel'[k] = voiceChannel[k]
  BY <1>2, <1>v, VoiceAssumption DEF Placed, Mine
<1>7. \A k, c : ~WalkFor(q, k, c) BY <1>2, NoWalk
<1>8. ASSUME Rules(v), Phase(v, q), Steps(t, n) PROVE Abides(v, n)'
 <2>1. \A k \in Mine(v) : voiceChannel[k] = NoChannel BY <1>2, <1>8 DEF Phase, JoinPhase, JoinPc
 <2>2. \A k, c : ~Dooms(q, k, c) /\ ~Forces(q, k, c) /\ ~Silences(q, v, c)
   BY <1>2, <1>7 DEF Dooms, LeavesFrom, LeavePc, Forces, Silences
 <2>3. \A k, c : Doomed(k, c) => Doomed(k, c)' BY <1>1, <1>5, <1>8, <2>2, DoomOn
 <2>4. \A k, c : ForceCome(k, c) => ForceCome(k, c)' BY <1>1, <1>8, <2>2, ForceOn
 <2>5. \A c : SilentCome(v, c) => SilentCome(v, c)' BY <1>1, <1>8, <2>2, SilentOn
 <2>6. ASSUME NEW k \in Mine(v), NEW c \in Channel, voiceChannel'[k] = c \/ HeldBy(n, k, c)
       PROVE  /\ "connect" \in perm'[v][c] \/ Doomed(k, c)'
              /\ state'[c][v].in /\ "speak" \notin perm'[v][c] =>
                     state'[c][v].isMuted = TRUE \/ Doomed(k, c)' \/ ForceCome(k, c)'
  <3>1. k = q.k /\ c = q.c BY <1>2, <1>4, <2>1, <2>6, VoiceAssumption DEF Mine
  <3>2. Holds(k, c) BY <1>1, <1>2, <3>1 DEF Holds, HeldBy, HeldPc
  <3>3. /\ "connect" \in perm[v][c] \/ Doomed(k, c)
        /\ state[c][v].in /\ "speak" \notin perm[v][c] =>
               state[c][v].isMuted = TRUE \/ Doomed(k, c) \/ ForceCome(k, c)
    BY <1>8, <3>2 DEF Rules, ConnectRule, SpeakRule
  <3> QED BY <1>5, <2>3, <2>4, <3>3
 <2>7. ServerRule(v)' BY <1>5, <1>8, <2>5 DEF Rules, ServerRule, ServerMuted
 <2> QED BY <1>4, <2>6, <2>7 DEF Abides, Mine, HeldBy, Works
<1> QED BY <1>1, <1>2, <1>n, <1>3, <1>4, <1>5, <1>6, <1>7, <1>8, WriteRules

\* An entry that goes needs no mute, ...
LEMMA LeaveDelRules ==
    ASSUME Known, NEW t \in Task, LeaveDel(t)
    PROVE  RulesIInv'
<1>1. PICK q : q = task[t] OBVIOUS
<1>2. /\ q.pc = "del" /\ q.u \in User
      /\ UNCHANGED <<members, dbVars, socketVars>>
      /\ \A c \in Channel, u \in User :
             state'[c][u] = IF c = q.at /\ u = q.u THEN NoEntry ELSE state[c][u]
  BY <1>1, LeaveDelDoes DEF Known
<1>n. PICK n : Proceed(t, n, {}) /\ Like(n, q, "rem", q.at, q.val, q.got, q.keys)
  BY <1>1, LeaveDelDoes DEF Known
<1>v. PICK v \in User : v = q.u
  BY <1>2
<1>3. /\ n.pc = "rem" /\ n.op = q.op /\ n.u = q.u /\ n.k = q.k /\ n.s = q.s /\ n.c = q.c
      /\ n.at = q.at /\ n.seen = q.seen
  BY <1>n DEF Like
<1>4. Works(q, v) /\ Suits(n) /\ \A k, c : ~HeldBy(n, k, c)
  BY <1>2, <1>3, <1>v DEF Works, Waiting, Suits, FlagPc, HeldBy, HeldPc
<1>5. \A u \in User : u # v => SameKeys(u) BY <1>2, <1>v DEF SameKeys
<1>6. perm' = perm /\ muted' = muted /\ up' = up /\ voiceChannel' = voiceChannel BY <1>2 DEF dbVars, socketVars
<1>7. \A c \in Channel : state'[c][v].in => state'[c][v] = state[c][v] BY <1>2 DEF NoEntry
<1>8. \A k, c : WalkFor(q, k, c) => WalkFor(n, k, c) BY <1>3, WalkLike
<1>9. ASSUME Rules(v), Steps(t, n) PROVE Abides(v, n)'
 <2>1. \A k, c : (Dooms(q, k, c) => Dooms(n, k, c)) /\ ~Forces(q, k, c) /\ ~Silences(q, v, c)
   BY <1>2, <1>3, <1>8 DEF Dooms, LeavesFrom, LeavePc, Forces, Silences
 <2>2. \A k, c : Doomed(k, c) => Doomed(k, c)' BY <1>1, <1>6, <1>9, <2>1, DoomOn
 <2>3. \A k, c : ForceCome(k, c) => ForceCome(k, c)' BY <1>1, <1>9, <2>1, ForceOn
 <2>4. \A c : SilentCome(v, c) => SilentCome(v, c)' BY <1>1, <1>9, <2>1, SilentOn
 <2>5. ASSUME NEW k \in Mine(v), NEW c \in Channel, voiceChannel'[k] = c \/ HeldBy(n, k, c)
       PROVE  /\ "connect" \in perm'[v][c] \/ Doomed(k, c)'
              /\ state'[c][v].in /\ "speak" \notin perm'[v][c] =>
                     state'[c][v].isMuted = TRUE \/ Doomed(k, c)' \/ ForceCome(k, c)'
  <3>1. Holds(k, c) BY <1>4, <1>6, <2>5 DEF Holds
  <3>2. /\ "connect" \in perm[v][c] \/ Doomed(k, c)
        /\ state[c][v].in /\ "speak" \notin perm[v][c] =>
               state[c][v].isMuted = TRUE \/ Doomed(k, c) \/ ForceCome(k, c)
    BY <1>9, <3>1 DEF Rules, ConnectRule, SpeakRule
  <3> QED BY <1>6, <1>7, <2>2, <2>3, <3>2
 <2>6. ServerRule(v)' BY <1>6, <1>7, <1>9, <2>4 DEF Rules, ServerRule, ServerMuted
 <2>7. Vows(v, n)' BY <1>3, NoVow
 <2> QED BY <2>5, <2>6, <2>7 DEF Abides, Mine, HeldBy
<1> QED BY <1>1, <1>2, <1>n, <1>v, <1>3, <1>4, <1>5, <1>6, <1>8, <1>9, WriteRules

\* ... and a channel that is left is held no more.
LEMMA LeaveDoneRules ==
    ASSUME Known, NEW t \in Task, LeaveDone(t)
    PROVE  RulesIInv'
<1>1. PICK q : q = task[t] OBVIOUS
<1>2. /\ q.pc = "left" /\ q.u \in User /\ Placed(q)
      /\ UNCHANGED <<redisVars, dbVars, up>>
      /\ q.op # "sweep" => \A k \in Socket :
             voiceChannel'[k] = IF k = q.k /\ (q.op = "leave" => voiceChannel[k] = q.at)
                                THEN NoChannel ELSE voiceChannel[k]
      /\ q.op = "sweep" => UNCHANGED <<rooms, voiceChannel>>
  BY <1>1, LeaveDoneDoes DEF Known
<1>n. PICK n : /\ Proceed(t, n, {})
               /\ \/ q.op = "join"
                     /\ Like(n, q, "validate", NoChannel, q.val, q.got, q.keys)
                  \/ q.op \in {"permission", "kick"} /\ n = NextSocket(q)
                  \/ q.op \notin {"join", "permission", "kick"} /\ n = Idle
  BY <1>1, LeaveDoneDoes DEF Known
<1>v. PICK v \in User : v = q.u
  BY <1>2
<1>3. n.pc \in {"idle", "loop"} \/ (n.pc = "validate" /\ n.u = v) BY <1>n, <1>v, IdleFields, NextFields DEF Like
<1>4. Works(q, v) /\ Suits(n) /\ \A k, c : ~HeldBy(n, k, c)
  BY <1>2, <1>3, <1>v DEF Works, Waiting, Suits, FlagPc, HeldBy, HeldPc
<1>5. /\ state' = state /\ perm' = perm /\ muted' = muted /\ up' = up
      /\ \A u \in User : SameKeys(u)
  BY <1>2 DEF redisVars, dbVars, SameKeys
<1>6. \A u \in User : u # v => \A k \in Mine(u) : voiceChannel'[k] = voiceChannel[k]
 <2>1. \A k \in Socket : Owner[k] # v => k # q.k BY <1>2, <1>v, VoiceAssumption DEF Placed
 <2> QED BY <1>2, <2>1 DEF Mine
<1>7. \A k \in Socket : \A c : WalkFor(q, k, c) => WalkFor(n, k, c)
 <2>1. CASE q.op \in {"permission", "kick"} BY <1>n, <2>1, WalkNext
 <2>2. CASE q.op \notin {"permission", "kick"} BY <2>2, NoWalk
 <2> QED BY <2>1, <2>2
<1>8. ASSUME Rules(v), Phase(v, q), Steps(t, n) PROVE Abides(v, n)'
 <2>1. /\ q.op # "sweep" /\ q.k # NoSocket
       /\ q.op # "leave" => voiceChannel[q.k] = q.at
       /\ q.at \in Channel
   BY <1>2, <1>8 DEF Phase, LeavePhase, LeavePc
 <2>2. \A k \in Socket, c \in Channel : voiceChannel'[k] = c =>
           voiceChannel[k] = c /\ ~(k = q.k /\ c = q.at)
   BY <1>2, <2>1, VoiceAssumption
 <2>3. \A k, c : ~Forces(q, k, c) /\ ~Silences(q, v, c) BY <1>2 DEF Forces, Silences
 <2>4. \A k, c : ForceCome(k, c) => ForceCome(k, c)' BY <1>1, <1>8, <2>3, ForceOn
 <2>5. \A c : SilentCome(v, c) => SilentCome(v, c)' BY <1>1, <1>8, <2>3, SilentOn
 <2>6. ASSUME NEW k \in Mine(v), NEW c \in Channel, voiceChannel'[k] = c \/ HeldBy(n, k, c)
       PROVE  /\ "connect" \in perm'[v][c] \/ Doomed(k, c)'
              /\ state'[c][v].in /\ "speak" \notin perm'[v][c] =>
                     state'[c][v].isMuted = TRUE \/ Doomed(k, c)' \/ ForceCome(k, c)'
  <3>1. k \in Socket /\ voiceChannel[k] = c /\ ~(k = q.k /\ c = q.at) BY <1>4, <2>2, <2>6 DEF Mine
  <3>2. Holds(k, c) BY <3>1 DEF Holds
  <3>3. /\ "connect" \in perm[v][c] \/ Doomed(k, c)
        /\ state[c][v].in /\ "speak" \notin perm[v][c] =>
               state[c][v].isMuted = TRUE \/ Doomed(k, c) \/ ForceCome(k, c)
    BY <1>8, <3>2 DEF Rules, ConnectRule, SpeakRule
  <3>4. Dooms(q, k, c) => Dooms(n, k, c) BY <1>7, <3>1 DEF Dooms, LeavesFrom
  <3>5. Doomed(k, c) => Doomed(k, c)' BY <1>1, <1>5, <1>8, <3>4, DoomOn
  <3> QED BY <1>5, <2>4, <3>3, <3>5
 <2>7. ServerRule(v)' BY <1>5, <1>8, <2>5 DEF Rules, ServerRule, ServerMuted
 <2>8. Vows(v, n)' BY <1>3, NoVow
 <2> QED BY <2>6, <2>7, <2>8 DEF Abides, Mine, HeldBy
<1>9. n.u = v \/ n.pc \in {"idle", "loop", "sweep"} BY <1>3
<1> QED BY <1>1, <1>2, <1>n, <1>4, <1>5, <1>6, <1>7, <1>8, <1>9, WriteRules

\* An update writes TRUE, or what its vow allows, or leaves the mute alone.
LEMMA UpdateSetRules ==
    ASSUME Known, NEW t \in Task, UpdateSet(t)
    PROVE  RulesIInv'
<1>1. PICK q : q = task[t] OBVIOUS
<1>2. /\ q.pc = "set" /\ q.u \in User
      /\ UNCHANGED <<members, dbVars, socketVars>>
      /\ \A c \in Channel, u \in User :
             state'[c][u] = IF c = q.at /\ u = q.u THEN Updated(q) ELSE state[c][u]
      /\ Updated(q).isMuted = IF q.op = "deafen" THEN q.got.isMuted ELSE q.val
  BY <1>1, UpdateSetDoes DEF Known
<1>n. PICK n : Proceed(t, n, {}) /\ Finishes(q, n)
  BY <1>1, UpdateSetDoes DEF Known
<1>o. q.op \in {"mute", "deafen", "modMute", "permission"}
  BY <1>1, <1>2 DEF Known, RulesIInv, Suits
<1>v. PICK v \in User : v = q.u
  BY <1>2
<1>3. n.pc \in {"idle", "loop"} /\ ~Works(n, v) BY <1>n, FinishFields
<1>4. Works(q, v) /\ Suits(n) /\ \A k, c : ~HeldBy(n, k, c)
  BY <1>2, <1>3, <1>v DEF Works, Waiting, Suits, FlagPc, HeldBy, HeldPc
<1>5. \A u \in User : u # v => SameKeys(u) BY <1>2, <1>v DEF SameKeys
<1>6. perm' = perm /\ muted' = muted /\ up' = up /\ voiceChannel' = voiceChannel BY <1>2 DEF dbVars, socketVars
<1>7. \A c \in Channel : c # q.at => state'[c][v] = state[c][v] BY <1>2
<1>8. \A k \in Socket : \A c : WalkFor(q, k, c) => WalkFor(n, k, c) BY <1>n, <1>o, WalkFinish
<1>9. ASSUME Rules(v), Phase(v, q), OneTalks(v), Steps(t, n) PROVE Abides(v, n)'
 <2>1. /\ q.at \in Channel /\ q.got = state[q.at][v]
       /\ q.op \in {"modMute", "permission"} => q.val = TRUE
       /\ q.op = "mute" => q.k # NoSocket /\ voiceChannel[q.k] = q.at /\ q.c = q.at
   BY <1>2, <1>9 DEF Phase, StillPhase
 <2>2. q.k # NoSocket => q.k \in Mine(v) BY <1>1, <1>v, TaskFacts DEF Known, Placed, Mine
 <2>3. /\ \A k, c : ~LeavesFrom(q, k, c)
       /\ \A k, c : Forces(q, k, c) => c = q.at /\ q.op = "permission"
       /\ \A c : Silences(q, v, c) => c = q.at /\ q.op = "modMute"
   BY <1>2 DEF LeavesFrom, LeavePc, Forces, Silences
 <2>4. \A k \in Socket : \A c : Dooms(q, k, c) => Dooms(n, k, c) BY <1>8, <2>3 DEF Dooms
 <2>5. \A k \in Socket : \A c : Doomed(k, c) => Doomed(k, c)' BY <1>1, <1>6, <1>9, <2>4, DoomOn
 <2>6. \A k, c : (ForceCome(k, c) /\ ~(c = q.at /\ q.op = "permission")) => ForceCome(k, c)'
   BY <1>1, <1>9, <2>3, ForceOn
 <2>7. \A c : (SilentCome(v, c) /\ ~(c = q.at /\ q.op = "modMute")) => SilentCome(v, c)'
   BY <1>1, <1>9, <2>3, SilentOn
 <2>8. state'[q.at][v].isMuted = IF q.op = "deafen" THEN state[q.at][v].isMuted ELSE q.val BY <1>2, <1>v, <2>1
 <2>9. /\ q.op \in {"modMute", "permission"} => state'[q.at][v].isMuted = TRUE
       /\ q.op = "deafen" => state'[q.at][v].isMuted = state[q.at][v].isMuted
       /\ q.op = "mute" => state'[q.at][v].isMuted = TRUE \/ q.val = FALSE
  <3>1. q.val \in BOOLEAN BY <1>1, TaskFacts DEF Known
  <3> QED BY <2>1, <2>8, <3>1
 <2>10. q.op = "mute" /\ q.val = FALSE =>
            /\ "speak" \in perm[v][q.at] \/ Doomed(q.k, q.at)
            /\ ServerMuted(v, q.at) => SilentCome(v, q.at)
  <3>1. Vows(v, q) BY <1>1, <1>4, <1>9 DEF Rules
  <3> QED BY <1>2, <2>1, <3>1 DEF Vows
 <2>11. \A c \in Channel : state'[c][v].in => state[c][v].in
  <3>1. state[q.at][v].in BY <1>2, <1>9, <2>1 DEF Phase, StillPhase
  <3> QED BY <1>7, <3>1
 <2>12. ASSUME NEW k \in Mine(v), NEW c \in Channel, voiceChannel'[k] = c \/ HeldBy(n, k, c)
        PROVE  /\ "connect" \in perm'[v][c] \/ Doomed(k, c)'
               /\ state'[c][v].in /\ "speak" \notin perm'[v][c] =>
                      state'[c][v].isMuted = TRUE \/ Doomed(k, c)' \/ ForceCome(k, c)'
  <3>1. voiceChannel[k] = c /\ k \in Socket BY <1>4, <1>6, <2>12 DEF Mine
  <3>2. Holds(k, c) BY <3>1 DEF Holds
  <3>3. /\ "connect" \in perm[v][c] \/ Doomed(k, c)
        /\ state[c][v].in /\ "speak" \notin perm[v][c] =>
               state[c][v].isMuted = TRUE \/ Doomed(k, c) \/ ForceCome(k, c)
    BY <1>9, <3>2 DEF Rules, ConnectRule, SpeakRule
  <3>4. CASE c # q.at BY <1>6, <1>7, <2>5, <2>6, <3>1, <3>3, <3>4
  <3>5. CASE c = q.at /\ q.op \in {"modMute", "permission"} BY <1>6, <2>5, <2>9, <3>1, <3>3, <3>5
  <3>6. CASE c = q.at /\ q.op = "deafen" BY <1>6, <2>5, <2>6, <2>9, <2>11, <3>1, <3>3, <3>6
  <3>7. CASE c = q.at /\ q.op = "mute"
   <4>1. q.k = k BY <1>9, <2>1, <2>2, <3>1, <3>7, VoiceAssumption DEF OneTalks
   <4> QED BY <1>6, <2>5, <2>9, <2>10, <3>1, <3>3, <3>7, <4>1
  <3> QED BY <1>o, <3>4, <3>5, <3>6, <3>7
 <2>13. ServerRule(v)'
  <3> SUFFICES ASSUME NEW c \in Channel, state'[c][v].in, ServerMuted(v, c)'
               PROVE  state'[c][v].isMuted = TRUE \/ SilentCome(v, c)'
    BY DEF ServerRule
  <3>1. ServerMuted(v, c) BY <1>6 DEF ServerMuted
  <3>2. state[c][v].isMuted = TRUE \/ SilentCome(v, c) BY <1>9, <2>11, <3>1 DEF Rules, ServerRule
  <3>3. CASE c # q.at BY <1>7, <2>7, <3>2, <3>3
  <3>4. CASE c = q.at BY <1>o, <2>7, <2>9, <2>10, <3>1, <3>2, <3>4
  <3> QED BY <3>3, <3>4
 <2> QED BY <1>3, <2>12, <2>13 DEF Abides, Mine, HeldBy, Works
<1>10. /\ UNCHANGED <<dbVars, up>> /\ n.pc \in {"idle", "loop", "sweep"}
       /\ \A u \in User : \A k \in Mine(u) : voiceChannel'[k] = voiceChannel[k]
  BY <1>2, <1>3, <1>6 DEF socketVars
<1> QED BY <1>1, <1>n, <1>4, <1>5, <1>8, <1>9, <1>10, WriteRules

------------------------------------------------------------
(* Connections, restarts, and the whole.                                    *)

\* A walk forgets that it saw the socket whose name is used again.
LEMMA ConnectTask ==
    ASSUME Base, NEW k \in Socket, Connect(k), NEW t \in Task
    PROVE  \E n : /\ n = task'[t] /\ n.pc = task[t].pc /\ n.op = task[t].op
                  /\ n.k = task[t].k /\ n.u = task[t].u /\ n.s = task[t].s
                  /\ n.c = task[t].c /\ n.at = task[t].at /\ n.val = task[t].val
                  /\ n.keys = task[t].keys /\ n.seen = task[t].seen \ {k}
<1>1. PICK q : q = task[t] OBVIOUS
<1>2. q \in TaskRecord BY <1>1, TaskFacts
<1>3. task'[t] = [q EXCEPT !.seen = @ \ {k}] BY <1>1 DEF Connect
<1> DEFINE n == [q EXCEPT !.seen = @ \ {k}]
<1>4. /\ n.pc = q.pc /\ n.op = q.op /\ n.k = q.k /\ n.u = q.u /\ n.s = q.s /\ n.c = q.c
      /\ n.at = q.at /\ n.val = q.val /\ n.keys = q.keys /\ n.seen = q.seen \ {k}
  BY <1>2 DEF TaskRecord
<1> HIDE DEF n
<1> QED BY <1>1, <1>3, <1>4 DEF n

\* A socket that connects holds nothing.
LEMMA ConnectRules ==
    ASSUME Known, NEW k \in Socket, Connect(k)
    PROVE  RulesIInv'
<1>1. /\ k \notin up /\ up' = up \cup {k} /\ raced' = raced
      /\ \A t \in Task : task[t].k # k
      /\ state' = state /\ perm' = perm /\ muted' = muted
      /\ \A o \in Socket : o # k => voiceChannel'[o] = voiceChannel[o]
      /\ voiceChannel'[k] = NoChannel
  BY DEF Connect, redisVars, dbVars, Known, Base, VoiceIInv, VoiceTypeOK
<1>2. ASSUME NEW t \in Task
      PROVE  /\ task'[t].pc = task[t].pc /\ task'[t].op = task[t].op
             /\ task'[t].k = task[t].k /\ task'[t].u = task[t].u /\ task'[t].s = task[t].s
             /\ task'[t].c = task[t].c /\ task'[t].at = task[t].at
             /\ task'[t].val = task[t].val
             /\ task'[t].keys = task[t].keys /\ task'[t].seen = task[t].seen \ {k}
  BY ConnectTask DEF Known
<1>3. (\A t \in Task : Suits(task[t]))' BY <1>2 DEF Known, RulesIInv, Suits
<1>4. ASSUME NEW t \in Task, NEW o, NEW c
      PROVE  /\ HeldBy(task'[t], o, c) <=> HeldBy(task[t], o, c)
             /\ o # k /\ Dooms(task[t], o, c) => Dooms(task'[t], o, c)
             /\ Forces(task[t], o, c) => Forces(task'[t], o, c)
  BY <1>2 DEF HeldBy, Dooms, WalkFor, LeavesFrom, Forces
<1>5. ASSUME NEW t \in Task, NEW u, NEW c, Silences(task[t], u, c)
      PROVE  Silences(task'[t], u, c)
  BY <1>2, <1>5 DEF Silences
<1>6. ASSUME NEW u \in User, u \notin raced' PROVE Rules(u)'
 <2>1. u \notin raced /\ Rules(u) BY <1>1, <1>6 DEF Known, RulesIInv
 <2>2. \A c \in Channel : ~Holds(k, c)' BY <1>1, <1>4, VoiceAssumption DEF Holds, HeldBy
 <2>3. \A o \in Mine(u), c \in Channel : Holds(o, c)' => Holds(o, c)
  <3> SUFFICES ASSUME NEW o \in Mine(u), NEW c \in Channel, Holds(o, c)' PROVE Holds(o, c) OBVIOUS
  <3>1. o # k /\ o \in Socket BY <2>2 DEF Mine
  <3>2. CASE voiceChannel'[o] = c BY <1>1, <3>1, <3>2 DEF Holds
  <3>3. CASE \E t \in Task : HeldBy(task'[t], o, c) BY <1>4, <3>3 DEF Holds
  <3> QED BY <3>2, <3>3 DEF Holds, HeldBy
 <2>4. \A o \in Mine(u), c \in Channel : Doomed(o, c) =>
           Doomed(o, c)' \/ (~Holds(o, c)' /\ \A t \in Task : task[t].k # o)
  <3> SUFFICES ASSUME NEW o \in Mine(u), NEW c \in Channel, Doomed(o, c), o # k
               PROVE  Doomed(o, c)'
    BY <1>1, <2>2
  <3>1. CASE o \notin up BY <1>1, <3>1 DEF Doomed
  <3>2. CASE \E t \in Task : Dooms(task[t], o, c) BY <1>4, <3>2 DEF Doomed, Dooms, WalkFor, LeavesFrom
  <3> QED BY <3>1, <3>2 DEF Doomed
 <2>5. \A o \in Mine(u), c \in Channel : ForceCome(o, c) => ForceCome(o, c)' BY <1>4 DEF ForceCome, Forces
 <2>6. \A c \in Channel : SilentCome(u, c) => SilentCome(u, c)' BY <1>5 DEF SilentCome, Silences
 <2>7. \A t \in Task : Works(task[t], u)' =>
           /\ Works(task[t], u)
           /\ task'[t].pc = task[t].pc /\ task'[t].op = task[t].op
           /\ task'[t].k = task[t].k /\ task'[t].c = task[t].c /\ task'[t].val = task[t].val
   BY <1>2 DEF Works
 <2>8. \A c \in Channel : ServerMuted(u, c)' => ServerMuted(u, c) BY <1>1 DEF ServerMuted
 <2> QED BY <1>1, <2>1, <2>3, <2>4, <2>5, <2>6, <2>7, <2>8, KeptRules DEF Known
<1> QED BY <1>3, <1>6 DEF RulesIInv

\* A process that just started promises nothing to nobody.
LEMMA FreshRules ==
    ASSUME VoiceIInv, \A t \in Task : task[t] = Idle,
           \A k \in Socket : voiceChannel[k] = NoChannel,
           \A u \in User : u \notin raced => \A c \in Channel : ~state[c][u].in
    PROVE  RulesIInv
<1>1. \A t \in Task : /\ Suits(task[t]) /\ \A u : ~Works(task[t], u)
                      /\ \A k, c : ~HeldBy(task[t], k, c)
  BY IdleFields DEF Suits, FlagPc, Works, Waiting, HeldBy, HeldPc
<1>2. \A k \in Socket, c \in Channel : ~Holds(k, c) BY <1>1, VoiceAssumption DEF Holds
<1> QED BY <1>1, <1>2 DEF RulesIInv, Rules, ConnectRule, SpeakRule, ServerRule, Mine

\* So it is after a restart, ...
LEMMA RestartRules ==
    ASSUME Known, VoiceIInv', Restart
    PROVE  RulesIInv'
<1>1. /\ (\A t \in Task : task[t] = Idle)'
      /\ (\A k \in Socket : voiceChannel[k] = NoChannel)'
      /\ state' = state
      /\ raced' = raced \cup {u \in User : HasEntry(u) # {} \/ \E c \in Channel : u \in members[c]}
  BY DEF Restart, redisVars
<1>2. (\A u \in User : u \notin raced => \A c \in Channel : ~state[c][u].in)' BY <1>1 DEF HasEntry
<1>3. (VoiceIInv /\ (\A t \in Task : task[t] = Idle)
         /\ (\A k \in Socket : voiceChannel[k] = NoChannel)
         /\ (\A u \in User : u \notin raced => \A c \in Channel : ~state[c][u].in)
       => RulesIInv)'
  BY FreshRules, PTL
<1> QED BY <1>1, <1>2, <1>3

\* A Member row that is no longer muted silences nobody.
LEMMA RestRules ==
    ASSUME Known, UNCHANGED <<state, perm, up, voiceChannel, task, raced>>, muted' \subseteq muted
    PROVE  RulesIInv'
<1>1. (\A t \in Task : Suits(task[t]))' BY DEF Known, RulesIInv, Suits
<1>2. ASSUME NEW u \in User, u \notin raced' PROVE Rules(u)'
 <2>1. u \notin raced /\ Rules(u) BY <1>2 DEF Known, RulesIInv
 <2>2. /\ \A k \in Mine(u), c \in Channel : Holds(k, c)' <=> Holds(k, c)
       /\ \A k \in Mine(u), c \in Channel : Doomed(k, c)' <=> Doomed(k, c)
       /\ \A k \in Mine(u), c \in Channel : ForceCome(k, c)' <=> ForceCome(k, c)
       /\ \A c \in Channel : SilentCome(u, c)' <=> SilentCome(u, c)
   BY DEF Holds, HeldBy, Doomed, Dooms, WalkFor, LeavesFrom, ForceCome, Forces,
          SilentCome, Silences
 <2>3. \A c \in Channel : ServerMuted(u, c)' => ServerMuted(u, c) BY DEF ServerMuted
 <2>4. \A t \in Task : Works(task[t], u)' <=> Works(task[t], u) BY DEF Works
 <2> QED BY <2>1, <2>2, <2>3, <2>4, KeptRules DEF Known
<1> QED BY <1>1, <1>2 DEF RulesIInv

\* ... and at first.
LEMMA InitRules == ASSUME Init PROVE RulesIInv
<1>1. VoiceIInv BY InitIInv
<1>2. /\ \A t \in Task : task[t] = Idle
      /\ \A k \in Socket : voiceChannel[k] = NoChannel
      /\ \A u \in User, c \in Channel : ~state[c][u].in
  BY DEF Init, NoEntry
<1> QED BY <1>1, <1>2, FreshRules

\* Every step keeps the rules.
LEMMA NextRules ==
    ASSUME Known, [Next]_vars
    PROVE  RulesIInv'
<1>1. CASE \E t \in Task, k \in Socket, c \in Channel :
              Join(t, k, c) \/ Leave(t, k, c)
              \/ \E op \in {"mute", "deafen"}, val \in BOOLEAN : SetFlag(t, op, k, c, val)
  BY <1>1, JoinRules, LeaveRules, SetFlagRules
<1>2. CASE \E t \in Task, k \in Socket : Drop(t, k) BY <1>2, DropRules
<1>3. CASE \E t \in Task, u \in User :
              \/ \E s \in Server :
                    ModMute(t, s, u) \/ \E deletes \in BOOLEAN : Kick(t, s, u, deletes)
              \/ \E c \in Channel, bits \in SUBSET Bits : ChangePermission(t, u, c, bits)
  BY <1>3, ModMuteRules, KickRules, ChangePermissionRules
<1>4. CASE \E t \in Task : TaskStep(t)
 <2>1. PICK t \in Task : TaskStep(t) BY <1>4
 <2>2. CASE JoinMember(t) \/ JoinConnect(t) \/ JoinCount(t) \/ JoinCanSpeak(t)
            \/ JoinPut(t) \/ JoinAdd(t) \/ JoinDone(t)
   BY <2>2, JoinMemberRules, JoinConnectRules, JoinCountRules, JoinCanSpeakRules,
      JoinPutRules, JoinAddRules, JoinDoneRules
 <2>3. CASE LeaveDel(t) \/ LeaveRem(t) \/ LeaveDone(t) BY <2>3, LeaveDelRules, LeaveRemRules, LeaveDoneRules
 <2>4. CASE FlagCheck(t) \/ UnmuteCheckSpeak(t) \/ UnmuteCheckMember(t)
            \/ UpdateGet(t) \/ UpdateSet(t)
   BY <2>4, FlagCheckRules, UnmuteCheckSpeakRules, UnmuteCheckMemberRules,
      UpdateGetRules, UpdateSetRules
 <2>5. CASE DropLeaves(t) \/ ModMuteKeys(t) \/ ModMuteFind(t)
   BY <2>5, DropLeavesRules, ModMuteKeysRules, ModMuteFindRules
 <2>6. CASE (\E k \in Socket : Visit(t, k)) \/ VisitDecides(t) \/ WalkEnds(t) \/ Sweep(t)
   BY <2>6, VisitRules, VisitDecidesRules, WalkEndsRules, SweepRules
 <2> QED BY <2>1, <2>2, <2>3, <2>4, <2>5, <2>6 DEF TaskStep
<1>5. CASE \E k \in Socket : Connect(k) BY <1>5, ConnectRules
<1>6. CASE \E s \in Server, u \in User : ModUnmute(s, u) BY <1>6, RestRules DEF ModUnmute, redisVars, socketVars
<1>7. CASE Restart BY <1>7, RestartRules DEF Known, Base
<1>8. CASE UNCHANGED vars BY <1>8, RestRules DEF vars
<1> QED BY <1>1, <1>2, <1>3, <1>4, <1>5, <1>6, <1>7, <1>8 DEF Next, Serve, Request

\* Until two handlers, or two tabs in voice, meet on a user, it is in a channel that it
\* may not connect to, or heard where it is silenced, only while a walk, a leave, a
\* disconnect or a moderator's mute on its way has still to end that.
THEOREM RulesInductive == Spec => []RulesIInv
<1>1. Init => RulesIInv BY InitRules
<1>2. VoiceIInv /\ VoiceIInv' /\ WhereIInv /\ WhereIInv' /\ RulesIInv /\ [Next]_vars => RulesIInv'
 <2> SUFFICES ASSUME VoiceIInv, VoiceIInv', WhereIInv, WhereIInv', RulesIInv, [Next]_vars
              PROVE  RulesIInv'
   OBVIOUS
 <2>1. Known BY DEF Known, Base
 <2> QED BY <2>1, NextRules
<1> QED BY <1>1, <1>2, VoiceInductive, WhereInductive, PTL DEF Spec

\* What is left of the warnings when all is quiet: none.
LEMMA QuietTabs ==
    ASSUME VoiceIInv, WhereIInv, RulesIInv, NEW u \in User, Settled(u), NEW c \in Channel,
           u \in members[c] \/ state[c][u].in
    PROVE  /\ Rules(u) /\ \A d : ~SilentCome(u, d)
           /\ \E k \in Mine(u) : Holds(k, c) /\ ~Doomed(k, c) /\ ~ForceCome(k, c)
<1>1. u \notin raced /\ \A t \in Task : task[t] = Idle BY DEF Settled, Quiet
<1>2. Unworked(u) BY <1>1, IdleFields DEF Unworked, Works, Waiting
<1>3. Agree(u, c) /\ DropsCome(u) BY <1>1, <1>2 DEF WhereIInv, Whereabouts, Agrees
<1>4. PICK k \in Mine(u) : voiceChannel[k] = c BY <1>3 DEF Agree, HasTab
<1>5. \A t \in Task : ~Dropping(task[t], k) BY <1>1, IdleFields, VoiceAssumption DEF Dropping, Mine
<1>6. k \in up BY <1>3, <1>4, <1>5, VoiceAssumption DEF DropsCome
<1>7. \A t \in Task : /\ ~Dooms(task[t], k, c) /\ ~Forces(task[t], k, c)
                      /\ \A d : ~Silences(task[t], u, d)
  BY <1>1, IdleFields DEF Dooms, WalkFor, LeavesFrom, LeavePc, Forces, Silences
<1>8. Rules(u) BY <1>1 DEF RulesIInv
<1> QED BY <1>4, <1>6, <1>7, <1>8 DEF Holds, Doomed, ForceCome, SilentCome

\* A settled user is in no channel that it may not connect to.
THEOREM SettledPermissionHolds == Spec => []SettledPermission
<1>1. VoiceIInv /\ WhereIInv /\ RulesIInv => SettledPermission
  BY QuietTabs DEF SettledPermission, Rules, ConnectRule
<1> QED BY <1>1, VoiceInductive, WhereInductive, RulesInductive, PTL

\* A settled user whom the server or the channel silences is muted in voice.
THEOREM SettledMuteHolds == Spec => []SettledMute
<1>1. VoiceIInv /\ WhereIInv /\ RulesIInv => SettledMute
 <2> SUFFICES ASSUME VoiceIInv, WhereIInv, RulesIInv, NEW u \in User, NEW c \in Channel,
                     Settled(u), state[c][u].in,
                     ServerMuted(u, c) \/ "speak" \notin perm[u][c]
              PROVE  state[c][u].isMuted = TRUE
   BY DEF SettledMute
 <2>1. /\ Rules(u) /\ ~SilentCome(u, c)
       /\ \E k \in Mine(u) : Holds(k, c) /\ ~Doomed(k, c) /\ ~ForceCome(k, c)
   BY QuietTabs
 <2>2. CASE ServerMuted(u, c) BY <2>1, <2>2 DEF Rules, ServerRule
 <2>3. CASE "speak" \notin perm[u][c] BY <2>1, <2>3 DEF Rules, SpeakRule
 <2> QED BY <2>2, <2>3
<1> QED BY <1>1, VoiceInductive, WhereInductive, RulesInductive, PTL
===============================================================================
