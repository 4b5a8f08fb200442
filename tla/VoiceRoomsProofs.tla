-------------------------- MODULE VoiceRoomsProofs --------------------------
(***************************************************************************)
(* Proofs about VoiceRooms: typing, and that only joins which meet between *)
(* their count and their SADD can exceed a channel's capacity.             *)
(***************************************************************************)
EXTENDS VoiceRooms, FiniteSetTheorems, TLAPS

Awaits == {"idle", "validate", "connect", "count", "canSpeak", "put", "add", "joined",
           "check", "muteSpeak", "muteMember", "get", "set", "del", "rem",
           "left", "dropped", "keys", "find", "loop", "perms", "sweep"}

CountedPc == {"canSpeak", "put", "add"}
Calm == Awaits \ CountedPc

\* A record that differs from q in nothing that says who the handler is for.
SameWho(n, q) == n.u = q.u /\ n.op = q.op /\ n.c = q.c /\ n.k = q.k

\* n is a task record for whom q is for, suspended at pc with channel at.
Moves(n, q, pc, at) ==
    /\ n \in TaskRecord /\ SameWho(n, q)
    /\ n.pc = pc /\ n.at = at

\* A task that goes on as n is past its count only if it already was, in the
\* same channel.
CalmNext(t, n) ==
    n.pc \in CountedPc =>
        task[t].pc \in CountedPc /\ n.op = task[t].op /\ n.c = task[t].c

\* What a task may go on as without anything being counted.
Fit(t, n) == n \in TaskRecord /\ Shaped(n) /\ CalmNext(t, n)

TasksOK == VoiceTypeOK /\ \A t \in Task : Shaped(task[t])

\* No join has come past its count in this step.
NoneCounted == \A o \in Task, c \in Channel : Counted(o, c)' => Counted(o, c)

\* What an uneventful step keeps: the types, who is past a count, who is where.
Kept == TasksOK' /\ NoneCounted /\ UNCHANGED <<members, crowded>>

------------------------------------------------------------
(* Task records.                                                           *)

\* A calm await is one, and no counted one.
LEMMA CalmAwaits ==
    ASSUME NEW pc, pc \in Calm
    PROVE  pc \in Awaits /\ pc \notin CountedPc
  BY DEF Calm

\* A free handler slot, and the entry of a user who is not in voice.
LEMMA IdleTyped == NoEntry \in Entry /\ Idle \in TaskRecord /\ Shaped(Idle) /\ Idle.pc \in Calm
  BY DEF NoEntry, Entry, Idle, TaskRecord, Shaped, JoinPc, UpdatePc, Calm, Awaits, CountedPc

\* A task record stays one, for the same user, when it gets another await ...
LEMMA PcTyped ==
    ASSUME NEW q \in TaskRecord, NEW pc \in Awaits
    PROVE  Moves([q EXCEPT !.pc = pc], q, pc, q.at)
  BY DEF Moves, TaskRecord, Awaits, SameWho

\* ... the channel its leave or update works on.
LEMMA AtTyped ==
    ASSUME NEW q \in TaskRecord, NEW at \in Channel \cup {NoChannel}
    PROVE  Moves([q EXCEPT !.at = at], q, q.pc, at)
  BY DEF Moves, TaskRecord, SameWho

\* ... the flag it will write.
LEMMA ValTyped ==
    ASSUME NEW q \in TaskRecord, NEW val \in BOOLEAN
    PROVE  Moves([q EXCEPT !.val = val], q, q.pc, q.at)
  BY DEF Moves, TaskRecord, SameWho

\* ... the entry it read.
LEMMA GotTyped ==
    ASSUME NEW q \in TaskRecord, NEW got \in Entry
    PROVE  Moves([q EXCEPT !.got = got], q, q.pc, q.at)
  BY DEF Moves, TaskRecord, SameWho

\* ... the channels whose keys it read.
LEMMA KeysTyped ==
    ASSUME NEW q \in TaskRecord, NEW keys \in SUBSET Channel
    PROVE  Moves([q EXCEPT !.keys = keys], q, q.pc, q.at)
  BY DEF Moves, TaskRecord, SameWho

\* The same for the combinations the handlers use.
LEMMA MovedAt ==
    ASSUME NEW q \in TaskRecord, NEW pc \in Awaits, NEW at \in Channel \cup {NoChannel}
    PROVE  Moves([q EXCEPT !.pc = pc, !.at = at], q, pc, at)
<1> DEFINE r == [q EXCEPT !.pc = pc]
<1>1. Moves(r, q, pc, q.at) BY PcTyped
<1>2. [q EXCEPT !.pc = pc, !.at = at] = [r EXCEPT !.at = at] OBVIOUS
<1> HIDE DEF r
<1>3. Moves([r EXCEPT !.at = at], r, r.pc, at) BY <1>1, AtTyped DEF Moves
<1> QED BY <1>1, <1>2, <1>3 DEF Moves, SameWho

\* Suspended elsewhere, with another flag.
LEMMA MovedVal ==
    ASSUME NEW q \in TaskRecord, NEW pc \in Awaits, NEW val \in BOOLEAN
    PROVE  Moves([q EXCEPT !.pc = pc, !.val = val], q, pc, q.at)
<1> DEFINE r == [q EXCEPT !.pc = pc]
<1>1. Moves(r, q, pc, q.at) BY PcTyped
<1>2. [q EXCEPT !.pc = pc, !.val = val] = [r EXCEPT !.val = val] OBVIOUS
<1> HIDE DEF r
<1>3. Moves([r EXCEPT !.val = val], r, r.pc, r.at) BY <1>1, ValTyped DEF Moves
<1> QED BY <1>1, <1>2, <1>3 DEF Moves, SameWho

\* Suspended elsewhere, with the entry it read.
LEMMA MovedGot ==
    ASSUME NEW q \in TaskRecord, NEW pc \in Awaits, NEW got \in Entry
    PROVE  Moves([q EXCEPT !.pc = pc, !.got = got], q, pc, q.at)
<1> DEFINE r == [q EXCEPT !.pc = pc]
<1>1. Moves(r, q, pc, q.at) BY PcTyped
<1>2. [q EXCEPT !.pc = pc, !.got = got] = [r EXCEPT !.got = got] OBVIOUS
<1> HIDE DEF r
<1>3. Moves([r EXCEPT !.got = got], r, r.pc, r.at) BY <1>1, GotTyped DEF Moves
<1> QED BY <1>1, <1>2, <1>3 DEF Moves, SameWho

\* Suspended elsewhere, with the keys it read.
LEMMA MovedKeys ==
    ASSUME NEW q \in TaskRecord, NEW pc \in Awaits, NEW keys \in SUBSET Channel
    PROVE  Moves([q EXCEPT !.pc = pc, !.keys = keys], q, pc, q.at)
<1> DEFINE r == [q EXCEPT !.pc = pc]
<1>1. Moves(r, q, pc, q.at) BY PcTyped
<1>2. [q EXCEPT !.pc = pc, !.keys = keys] = [r EXCEPT !.keys = keys] OBVIOUS
<1> HIDE DEF r
<1>3. Moves([r EXCEPT !.keys = keys], r, r.pc, r.at) BY <1>1, KeysTyped DEF Moves
<1> QED BY <1>1, <1>2, <1>3 DEF Moves, SameWho

\* A record that says the same of who it is for is as well shaped, and a record
\* suspended away from a join's count is fit.
LEMMA CalmFit ==
    ASSUME NEW t, NEW q, q.u \in User, Shaped(q), q.pc # "loop",
           NEW n, NEW pc \in Calm, NEW at, Moves(n, q, pc, at),
           pc \in JoinPc => q.op = "join", pc \in UpdatePc => at \in Channel,
           pc \in {"dropped", "perms"} => q.k \in Socket
    PROVE  Fit(t, n)
  BY CalmAwaits DEF Moves, SameWho, Shaped, Fit, CalmNext

\* Every handler may end.
LEMMA IdleFit == \A t : Fit(t, Idle)
  BY IdleTyped, CalmAwaits DEF Fit, CalmNext

\* Every step that moves one task and adds raced users keeps both typed, and
\* counts nobody in if the task's next record is fit.
LEMMA ProceedFrame ==
    ASSUME TasksOK, NEW t \in Task, NEW next, Fit(t, next),
           NEW met \in SUBSET User, Proceed(t, next, met)
    PROVE  /\ task' \in [Task -> TaskRecord]
           /\ \A o \in Task : Shaped(task'[o])
           /\ raced' \in SUBSET User
           /\ NoneCounted
<1>1. task' \in [Task -> TaskRecord] /\ task' = [task EXCEPT ![t] = next]
  BY DEF Proceed, TasksOK, VoiceTypeOK, Fit
<1>2. raced' \in SUBSET User BY DEF Proceed, TasksOK, VoiceTypeOK, Collisions
<1>3. NoneCounted BY <1>1 DEF TasksOK, VoiceTypeOK, NoneCounted, Counted, CalmNext, CountedPc, Fit
<1>4. \A o \in Task : Shaped(task'[o]) BY <1>1 DEF TasksOK, VoiceTypeOK, Fit
<1> QED BY <1>1, <1>2, <1>3, <1>4

\* A step that moves one task and nothing else keeps all of it.
LEMMA TaskOnly ==
    ASSUME TasksOK, NEW t \in Task, NEW next, Fit(t, next),
           NEW met \in SUBSET User, Proceed(t, next, met),
           UNCHANGED <<redisVars, dbVars, socketVars, crowded>>
    PROVE  Kept
<1>1. /\ task' \in [Task -> TaskRecord]
      /\ \A o \in Task : Shaped(task'[o])
      /\ raced' \in SUBSET User
      /\ NoneCounted
  BY ProceedFrame
<1>2. VoiceTypeOK' BY <1>1 DEF TasksOK, VoiceTypeOK, redisVars, dbVars, socketVars
<1>3. UNCHANGED <<members, crowded>> BY DEF redisVars
<1>4. \A o \in Task : Shaped(task[o])' BY <1>1 DEF Shaped
<1> QED BY <1>1, <1>2, <1>3, <1>4 DEF Kept, TasksOK

\* The record of a task, and the user a handler in flight has.
LEMMA TaskTyped ==
    ASSUME TasksOK, NEW t \in Task
    PROVE  /\ task[t] \in TaskRecord /\ Shaped(task[t])
           /\ task[t].pc \notin {"idle", "loop"} => task[t].u \in User
           /\ task[t].val \in BOOLEAN /\ task[t].got \in Entry
           /\ task[t].keys \in SUBSET Channel
           /\ task[t].at \in Channel \cup {NoChannel}
  BY DEF TasksOK, VoiceTypeOK, Shaped, TaskRecord

------------------------------------------------------------
(* Handlers called on a socket.                                            *)

\* The record of a packet handler: the authenticated user of its socket, and the
\* channel of the packet.
LEMMA StartsTyped ==
    ASSUME NEW t \in Task, NEW k \in Socket, NEW c \in Channel \cup {NoChannel},
           NEW op \in {"join", "leave", "mute", "deafen", "drop"},
           op = "join" => c \in Channel
    PROVE  /\ Starts(t, op, k, c) \in TaskRecord
           /\ Starts(t, op, k, c).u \in User
           /\ Starts(t, op, k, c).k = k
           /\ Starts(t, op, k, c).op = op
           /\ Starts(t, op, k, c).pc = "idle"
           /\ Shaped(Starts(t, op, k, c))
           /\ Siblings(k) \in SUBSET User
<1>1. Owner[k] \in User BY VoiceAssumption
<1>2. Siblings(k) \in SUBSET User BY <1>1 DEF Siblings
<1> DEFINE r1 == [Idle EXCEPT !.op = op]
           r2 == [r1 EXCEPT !.k = k]
           r3 == [r2 EXCEPT !.u = Owner[k]]
           r4 == [r3 EXCEPT !.c = c]
<1>3. r1 \in TaskRecord /\ r1.pc = "idle" /\ r1.op = op BY IdleTyped, ZenonT(60) DEF TaskRecord, Idle
<1>4. r2 \in TaskRecord /\ r2.pc = "idle" /\ r2.op = op /\ r2.k = k
 <2> HIDE DEF r1
 <2> QED BY <1>3 DEF TaskRecord
<1>5. r3 \in TaskRecord /\ r3.pc = "idle" /\ r3.op = op /\ r3.k = k /\ r3.u = Owner[k]
 <2> HIDE DEF r2
 <2> QED BY <1>1, <1>4 DEF TaskRecord
<1>6. r4 \in TaskRecord /\ r4.pc = "idle" /\ r4.op = op /\ r4.k = k /\ r4.u = Owner[k] /\ r4.c = c
 <2> HIDE DEF r3
 <2> QED BY <1>5 DEF TaskRecord
<1>7. Starts(t, op, k, c) = r4 BY DEF Starts
<1> HIDE DEF r4
<1> QED BY <1>1, <1>2, <1>6, <1>7 DEF Shaped, JoinPc, UpdatePc

\* voice:join leaves first if the socket is in a channel, and validates otherwise.
LEMMA JoinKept ==
    ASSUME TasksOK, NEW t \in Task, NEW k \in Socket, NEW c \in Channel, Join(t, k, c)
    PROVE  Kept
<1> DEFINE q == Starts(t, "join", k, c)
           n == IF voiceChannel[k] # NoChannel
                THEN [q EXCEPT !.pc = "del", !.at = voiceChannel[k]]
                ELSE [q EXCEPT !.pc = "validate"]
<1>1. /\ q \in TaskRecord /\ q.u \in User /\ Shaped(q) /\ q.op = "join" /\ q.pc # "loop"
      /\ Siblings(k) \in SUBSET User
  BY StartsTyped
<1>2. voiceChannel[k] \in Channel \cup {NoChannel} BY DEF TasksOK, VoiceTypeOK
<1> HIDE DEF q
<1>3. /\ "del" \in Awaits /\ "del" \in Calm \ (JoinPc \cup UpdatePc)
      /\ "validate" \in Awaits /\ "validate" \in Calm \ UpdatePc
  BY DEF Calm, Awaits, CountedPc, JoinPc, UpdatePc
<1>4. Fit(t, n)
 <2>1. CASE voiceChannel[k] # NoChannel
  <3> DEFINE m == [q EXCEPT !.pc = "del", !.at = voiceChannel[k]]
  <3>1. Moves(m, q, "del", voiceChannel[k]) BY <1>1, <1>2, <1>3, MovedAt
  <3>2. n = m BY <2>1
  <3> HIDE DEF m, n
  <3>3. Fit(t, m) BY <1>1, <1>3, <3>1, CalmFit
  <3> QED BY <3>2, <3>3
 <2>2. CASE voiceChannel[k] = NoChannel
  <3>1. Moves(n, q, "validate", q.at) BY <1>1, <1>3, <2>2, PcTyped
  <3> HIDE DEF n
  <3> QED BY <1>1, <1>3, <3>1, CalmFit
 <2> QED BY <2>1, <2>2
<1>5. Proceed(t, n, Siblings(k)) /\ UNCHANGED <<redisVars, dbVars, socketVars, crowded>> BY DEF Join, q
<1> HIDE DEF n
<1> QED BY <1>1, <1>4, <1>5, TaskOnly

\* voice:leave.
LEMMA LeaveKept ==
    ASSUME TasksOK, NEW t \in Task, NEW k \in Socket, NEW c \in Channel, Leave(t, k, c)
    PROVE  Kept
<1> DEFINE q == Starts(t, "leave", k, c)
           n == [q EXCEPT !.pc = "del", !.at = c]
<1>1. /\ q \in TaskRecord /\ q.u \in User /\ Shaped(q) /\ q.pc # "loop"
      /\ Siblings(k) \in SUBSET User
  BY StartsTyped
<1> HIDE DEF q
<1>2. "del" \in Calm \ (JoinPc \cup UpdatePc) /\ "del" \in Awaits
  BY DEF Calm, Awaits, CountedPc, JoinPc, UpdatePc
<1>3. Moves(n, q, "del", c) BY <1>1, <1>2, MovedAt
<1>4. Proceed(t, n, Siblings(k)) /\ UNCHANGED <<redisVars, dbVars, socketVars, crowded>> BY DEF Leave, q
<1> HIDE DEF n
<1>5. Fit(t, n) BY <1>1, <1>2, <1>3, CalmFit
<1> QED BY <1>1, <1>4, <1>5, TaskOnly

\* voice:mute and voice:deafen.
LEMMA SetFlagKept ==
    ASSUME TasksOK, NEW t \in Task, NEW k \in Socket, NEW c \in Channel,
           NEW op \in {"mute", "deafen"}, NEW val \in BOOLEAN, SetFlag(t, op, k, c, val)
    PROVE  Kept
<1> DEFINE q == Starts(t, op, k, c)
           n == [q EXCEPT !.pc = "check", !.at = c, !.val = val]
<1>1. /\ q \in TaskRecord /\ q.u \in User /\ Shaped(q) /\ q.pc # "loop"
      /\ Siblings(k) \in SUBSET User
  BY StartsTyped
<1> HIDE DEF q
<1>2. "check" \in Calm \ JoinPc /\ "check" \in Awaits /\ c \in Channel \cup {NoChannel}
  BY DEF Calm, Awaits, CountedPc, JoinPc, UpdatePc
<1>3. Moves(n, q, "check", c)
 <2> DEFINE r == [q EXCEPT !.pc = "check", !.at = c]
 <2>1. Moves(r, q, "check", c) BY <1>1, <1>2, MovedAt
 <2>2. n = [r EXCEPT !.val = val] OBVIOUS
 <2> HIDE DEF r, n
 <2>3. Moves([r EXCEPT !.val = val], r, r.pc, r.at) BY <2>1, ValTyped DEF Moves
 <2> QED BY <2>1, <2>2, <2>3 DEF Moves, SameWho
<1>4. Proceed(t, n, Siblings(k)) /\ UNCHANGED <<redisVars, dbVars, socketVars, crowded>> BY DEF SetFlag, q
<1> HIDE DEF n
<1>5. Fit(t, n) BY <1>1, <1>2, <1>3, CalmFit
<1> QED BY <1>1, <1>4, <1>5, TaskOnly

\* A disconnect empties the rooms and starts its clean-up.
LEMMA DropKept ==
    ASSUME TasksOK, NEW t \in Task, NEW k \in Socket, Drop(t, k)
    PROVE  Kept
<1> DEFINE q == Starts(t, "drop", k, NoChannel)
           n == [q EXCEPT !.pc = "dropped"]
<1>1. q \in TaskRecord /\ q.u \in User /\ Shaped(q) /\ q.pc # "loop" /\ q.k = k BY StartsTyped
<1> HIDE DEF q
<1>2. "dropped" \in Calm \ (JoinPc \cup UpdatePc) /\ "dropped" \in Awaits
  BY DEF Calm, Awaits, CountedPc, JoinPc, UpdatePc
<1>3. Moves(n, q, "dropped", q.at) BY <1>1, <1>2, PcTyped
<1>4. Proceed(t, n, {}) BY DEF Drop, q
<1> HIDE DEF n
<1>5. Fit(t, n) BY <1>1, <1>2, <1>3, CalmFit
<1>6. /\ task' \in [Task -> TaskRecord]
      /\ \A o \in Task : Shaped(task'[o])
      /\ raced' \in SUBSET User
      /\ NoneCounted
  BY <1>4, <1>5, ProceedFrame
<1>7. VoiceTypeOK' /\ UNCHANGED <<members, crowded>> BY <1>6 DEF Drop, TasksOK, VoiceTypeOK, redisVars, dbVars
<1>8. \A o \in Task : Shaped(task[o])' BY <1>6 DEF Shaped
<1> QED BY <1>6, <1>7, <1>8 DEF Kept, TasksOK

------------------------------------------------------------
(* A handler in flight goes on.                                            *)

InFlight(t) == task[t].pc \notin {"idle", "loop"}

\* Which awaits are neither a join's nor a disconnect's, and which update an entry.
LEMMA CalmPcs ==
    /\ \A pc \in {"set", "del", "rem", "left", "keys", "find", "sweep"} :
          pc \in Calm \ (JoinPc \cup {"dropped", "perms"}) /\ pc \notin UpdatePc
    /\ UpdatePc \ {"perms"} \subseteq Calm \ (JoinPc \cup {"dropped", "perms"})
    /\ {"check", "muteSpeak", "muteMember", "get", "perms"} = UpdatePc
  BY DEF Calm, Awaits, CountedPc, JoinPc, UpdatePc

\* A handler in flight may be suspended at any such await ...
LEMMA StepPc ==
    ASSUME TasksOK, NEW t \in Task, InFlight(t),
           NEW pc \in Calm \ (JoinPc \cup {"dropped", "perms"}),
           pc \in UpdatePc => task[t].at \in Channel
    PROVE  Fit(t, [task[t] EXCEPT !.pc = pc])
<1> DEFINE q == task[t]
           n == [q EXCEPT !.pc = pc]
<1>1. /\ q \in TaskRecord /\ q.u \in User /\ Shaped(q) /\ q.pc # "loop"
      /\ pc \in UpdatePc => q.at \in Channel
  BY TaskTyped DEF InFlight
<1> HIDE DEF q
<1>2. Moves(n, q, pc, q.at) BY <1>1, PcTyped, CalmAwaits
<1> HIDE DEF n
<1>3. Fit(t, n) BY <1>1, <1>2, CalmFit
<1> QED BY <1>3 DEF n, q

\* ... with the channel it now works on ...
LEMMA StepAt ==
    ASSUME TasksOK, NEW t \in Task, InFlight(t),
           NEW pc \in Calm \ (JoinPc \cup {"dropped", "perms"}),
           NEW at \in Channel \cup {NoChannel},
           pc \in UpdatePc => at \in Channel
    PROVE  Fit(t, [task[t] EXCEPT !.pc = pc, !.at = at])
<1> DEFINE q == task[t]
           n == [q EXCEPT !.pc = pc, !.at = at]
<1>1. q \in TaskRecord /\ q.u \in User /\ Shaped(q) /\ q.pc # "loop" BY TaskTyped DEF InFlight
<1> HIDE DEF q
<1>2. Moves(n, q, pc, at) BY <1>1, MovedAt, CalmAwaits
<1> HIDE DEF n
<1>3. Fit(t, n) BY <1>1, <1>2, CalmFit
<1> QED BY <1>3 DEF n, q

\* ... with the flag it will write ...
LEMMA StepVal ==
    ASSUME TasksOK, NEW t \in Task, InFlight(t),
           NEW pc \in Calm \ (JoinPc \cup {"dropped", "perms"}), NEW val \in BOOLEAN,
           pc \in UpdatePc => task[t].at \in Channel
    PROVE  Fit(t, [task[t] EXCEPT !.pc = pc, !.val = val])
<1> DEFINE q == task[t]
           n == [q EXCEPT !.pc = pc, !.val = val]
<1>1. /\ q \in TaskRecord /\ q.u \in User /\ Shaped(q) /\ q.pc # "loop"
      /\ pc \in UpdatePc => q.at \in Channel
  BY TaskTyped DEF InFlight
<1> HIDE DEF q
<1>2. Moves(n, q, pc, q.at) BY <1>1, MovedVal, CalmAwaits
<1> HIDE DEF n
<1>3. Fit(t, n) BY <1>1, <1>2, CalmFit
<1> QED BY <1>3 DEF n, q

\* ... with the entry it read ...
LEMMA StepGot ==
    ASSUME TasksOK, NEW t \in Task, InFlight(t),
           NEW pc \in Calm \ (JoinPc \cup {"dropped", "perms"}), NEW got \in Entry,
           pc \in UpdatePc => task[t].at \in Channel
    PROVE  Fit(t, [task[t] EXCEPT !.pc = pc, !.got = got])
<1> DEFINE q == task[t]
           n == [q EXCEPT !.pc = pc, !.got = got]
<1>1. /\ q \in TaskRecord /\ q.u \in User /\ Shaped(q) /\ q.pc # "loop"
      /\ pc \in UpdatePc => q.at \in Channel
  BY TaskTyped DEF InFlight
<1> HIDE DEF q
<1>2. Moves(n, q, pc, q.at) BY <1>1, MovedGot, CalmAwaits
<1> HIDE DEF n
<1>3. Fit(t, n) BY <1>1, <1>2, CalmFit
<1> QED BY <1>3 DEF n, q

\* ... or with the keys it read.
LEMMA StepKeys ==
    ASSUME TasksOK, NEW t \in Task, InFlight(t),
           NEW pc \in Calm \ (JoinPc \cup {"dropped", "perms"}), NEW keys \in SUBSET Channel,
           pc \in UpdatePc => task[t].at \in Channel
    PROVE  Fit(t, [task[t] EXCEPT !.pc = pc, !.keys = keys])
<1> DEFINE q == task[t]
           n == [q EXCEPT !.pc = pc, !.keys = keys]
<1>1. /\ q \in TaskRecord /\ q.u \in User /\ Shaped(q) /\ q.pc # "loop"
      /\ pc \in UpdatePc => q.at \in Channel
  BY TaskTyped DEF InFlight
<1> HIDE DEF q
<1>2. Moves(n, q, pc, q.at) BY <1>1, MovedKeys, CalmAwaits
<1> HIDE DEF n
<1>3. Fit(t, n) BY <1>1, <1>2, CalmFit
<1> QED BY <1>3 DEF n, q

\* validateJoin up to its permission checks, ...
LEMMA JoinMemberKept ==
    ASSUME TasksOK, NEW t \in Task, JoinMember(t)
    PROVE  Kept
<1> DEFINE q == task[t]
           val == ServerMuted(q.u, q.c)
           m == [q EXCEPT !.pc = "connect", !.val = val]
<1>1. val \in BOOLEAN BY DEF ServerMuted
<1>2. /\ q \in TaskRecord /\ q.u \in User /\ Shaped(q) /\ InFlight(t)
      /\ q.op = "join" /\ q.pc # "loop"
  BY TaskTyped DEF InFlight, Shaped, JoinPc, UpdatePc, JoinMember
<1>3. UNCHANGED <<redisVars, dbVars, socketVars, crowded>> BY DEF JoinMember
<1>4. Proceed(t, m, {}) \/ Proceed(t, Idle, {}) BY DEF JoinMember
<1> HIDE DEF val, q
<1>5. "connect" \in Calm \ UpdatePc /\ "connect" \in Awaits BY DEF Calm, Awaits, CountedPc, UpdatePc
<1>6. Moves(m, q, "connect", q.at) BY <1>1, <1>2, <1>5, MovedVal
<1> HIDE DEF m
<1>7. Fit(t, m) /\ Fit(t, Idle) BY <1>2, <1>5, <1>6, CalmFit, IdleFit DEF q
<1> QED BY <1>3, <1>4, <1>7, TaskOnly

\* ... and up to its count.
LEMMA JoinConnectKept ==
    ASSUME TasksOK, NEW t \in Task, JoinConnect(t)
    PROVE  Kept
<1> DEFINE q == task[t]
           m == [q EXCEPT !.pc = "count"]
<1>1. /\ q \in TaskRecord /\ q.u \in User /\ Shaped(q) /\ InFlight(t)
      /\ q.op = "join" /\ q.pc # "loop"
  BY TaskTyped DEF InFlight, Shaped, JoinPc, UpdatePc, JoinConnect
<1>2. UNCHANGED <<redisVars, dbVars, socketVars, crowded>> BY DEF JoinConnect
<1>3. Proceed(t, m, {}) \/ Proceed(t, Idle, {}) BY DEF JoinConnect
<1> HIDE DEF q
<1>4. "count" \in Calm \ UpdatePc /\ "count" \in Awaits BY DEF Calm, Awaits, CountedPc, UpdatePc
<1>5. Moves(m, q, "count", q.at) BY <1>1, <1>4, PcTyped
<1> HIDE DEF m
<1>6. Fit(t, m) /\ Fit(t, Idle) BY <1>1, <1>4, <1>5, CalmFit, IdleFit DEF q
<1> QED BY <1>2, <1>3, <1>6, TaskOnly

\* From its count to its SADD a join stays counted.
LEMMA JoinCanSpeakKept ==
    ASSUME TasksOK, NEW t \in Task, JoinCanSpeak(t)
    PROVE  Kept
<1> DEFINE q == task[t]
           val == JoinsMuted(q.u, q.c, q.val)
           n == [q EXCEPT !.pc = "put", !.val = val]
<1>1. q \in TaskRecord /\ Shaped(q) /\ q.u \in User /\ q.val \in BOOLEAN /\ q.pc = "canSpeak"
  BY TaskTyped DEF JoinCanSpeak
<1>2. val \in BOOLEAN BY <1>1 DEF JoinsMuted
<1>3. Proceed(t, n, {}) /\ UNCHANGED <<redisVars, dbVars, socketVars, crowded>> BY DEF JoinCanSpeak
<1>4. "put" \in Awaits BY DEF Awaits
<1> HIDE DEF q, val
<1>5. Moves(n, q, "put", q.at) BY <1>1, <1>2, <1>4, MovedVal
<1> HIDE DEF n
<1>6. Fit(t, n) BY <1>1, <1>5 DEF Moves, Fit, Shaped, JoinPc, UpdatePc, SameWho, CalmNext, CountedPc, q
<1> QED BY <1>3, <1>6, TaskOnly

\* join writes the entry first.
LEMMA JoinPutKept ==
    ASSUME TasksOK, NEW t \in Task, JoinPut(t)
    PROVE  Kept
<1> DEFINE q == task[t]
           e == [in |-> TRUE, isMuted |-> q.val, isDeafened |-> FALSE]
           n == [q EXCEPT !.pc = "add"]
<1>1. q \in TaskRecord /\ Shaped(q) /\ q.u \in User /\ q.val \in BOOLEAN /\ q.pc = "put"
  BY TaskTyped DEF JoinPut
<1>2. e \in Entry BY <1>1 DEF Entry
<1>3. Proceed(t, n, {}) /\ UNCHANGED <<members, dbVars, socketVars, crowded>> BY DEF JoinPut
<1>4. state' = [state EXCEPT ![q.c][q.u] = e] BY DEF JoinPut
<1>5. "add" \in Awaits BY DEF Awaits
<1> HIDE DEF q, e
<1>6. Moves(n, q, "add", q.at) BY <1>1, <1>5, PcTyped
<1> HIDE DEF n
<1>7. Fit(t, n) BY <1>1, <1>6 DEF Moves, Fit, Shaped, JoinPc, UpdatePc, SameWho, CalmNext, CountedPc, q
<1>8. /\ task' \in [Task -> TaskRecord]
      /\ \A o \in Task : Shaped(task'[o])
      /\ raced' \in SUBSET User
      /\ NoneCounted
  BY <1>3, <1>7, ProceedFrame
<1>9. state' \in [Channel -> [User -> Entry]] BY <1>2, <1>4 DEF TasksOK, VoiceTypeOK
<1>10. VoiceTypeOK' BY <1>3, <1>8, <1>9 DEF TasksOK, VoiceTypeOK, dbVars, socketVars
<1>11. \A o \in Task : Shaped(task[o])' BY <1>8 DEF Shaped
<1> QED BY <1>3, <1>8, <1>10, <1>11 DEF Kept, TasksOK

\* The socket gets the channel and its room, and the handler ends.
LEMMA JoinDoneKept ==
    ASSUME TasksOK, NEW t \in Task, JoinDone(t)
    PROVE  Kept
<1> DEFINE q == task[t]
<1>1. q.c \in Channel BY TaskTyped DEF Shaped, JoinPc, UpdatePc, JoinDone
<1>2. /\ task' \in [Task -> TaskRecord]
      /\ \A o \in Task : Shaped(task'[o])
      /\ raced' \in SUBSET User
      /\ NoneCounted
  BY IdleFit, ProceedFrame DEF JoinDone
<1>3. voiceChannel' \in [Socket -> Channel \cup {NoChannel}] BY <1>1 DEF JoinDone, TasksOK, VoiceTypeOK
<1>4. rooms' \in [Socket -> SUBSET Channel] BY <1>1 DEF JoinDone, TasksOK, VoiceTypeOK
<1>5. VoiceTypeOK' /\ UNCHANGED <<members, crowded>>
  BY <1>2, <1>3, <1>4 DEF JoinDone, TasksOK, VoiceTypeOK, redisVars, dbVars
<1>6. \A o \in Task : Shaped(task[o])' BY <1>2 DEF Shaped
<1> QED BY <1>2, <1>5, <1>6 DEF Kept, TasksOK

------------------------------------------------------------
(* Walks over the connected sockets, and VoiceService.leave.               *)

\* The record a walk is back in its loop with.
LEMMA NextSocketFit ==
    ASSUME NEW t, NEW q \in TaskRecord, q.k \in Socket,
           q.op = "kick" => q.u \in User, q.op \in {"join", "permission"} => q.c \in Channel
    PROVE  Fit(t, NextSocket(q))
<1> DEFINE u == IF q.op = "kick" THEN q.u ELSE NoUser
           seen == q.seen \cup {q.k}
           r1 == [Idle EXCEPT !.pc = "loop"]
           r2 == [r1 EXCEPT !.op = q.op]
           r3 == [r2 EXCEPT !.s = q.s]
           r4 == [r3 EXCEPT !.c = q.c]
           r5 == [r4 EXCEPT !.u = u]
           r6 == [r5 EXCEPT !.seen = seen]
<1>1. /\ q.s \in Server \cup {NoServer} /\ q.c \in Channel \cup {NoChannel}
      /\ u \in User \cup {NoUser} /\ seen \in SUBSET Socket
      /\ q.op = "kick" => u \in User
  BY DEF TaskRecord
<1> HIDE DEF u, seen
<1>2. r1 \in TaskRecord /\ r1.pc = "loop" BY IdleTyped DEF TaskRecord
<1>3. r2 \in TaskRecord /\ r2.pc = "loop" /\ r2.op = q.op
 <2> HIDE DEF r1
 <2> QED BY <1>2 DEF TaskRecord
<1>4. r3 \in TaskRecord /\ r3.pc = "loop" /\ r3.op = q.op
 <2> HIDE DEF r2
 <2> QED BY <1>1, <1>3 DEF TaskRecord
<1>5. r4 \in TaskRecord /\ r4.pc = "loop" /\ r4.op = q.op /\ r4.c = q.c
 <2> HIDE DEF r3
 <2> QED BY <1>1, <1>4 DEF TaskRecord
<1>6. r5 \in TaskRecord /\ r5.pc = "loop" /\ r5.op = q.op /\ r5.c = q.c /\ r5.u = u
 <2> HIDE DEF r4
 <2> QED BY <1>1, <1>5 DEF TaskRecord
<1>7. r6 \in TaskRecord /\ r6.pc = "loop" /\ r6.op = q.op /\ r6.c = q.c /\ r6.u = u
 <2> HIDE DEF r5
 <2> QED BY <1>1, <1>6 DEF TaskRecord
<1>8. NextSocket(q) = r6 BY DEF NextSocket, u, seen
<1> HIDE DEF r6
<1> QED BY <1>1, <1>7, <1>8 DEF Fit, Shaped, JoinPc, UpdatePc, CalmNext, CountedPc

\* What the callers of VoiceService.leave go on as.
LEMMA AfterLeaveFit ==
    ASSUME TasksOK, NEW t \in Task, InFlight(t)
    PROVE  Fit(t, AfterLeave(task[t]))
<1> DEFINE q == task[t]
           n == [q EXCEPT !.pc = "validate", !.at = NoChannel]
<1>1. q \in TaskRecord /\ q.u \in User /\ Shaped(q) /\ q.pc # "loop" BY TaskTyped DEF InFlight
<1> HIDE DEF q
<1>2. CASE q.op = "join"
 <2>1. "validate" \in Calm \ UpdatePc /\ "validate" \in Awaits BY DEF Calm, Awaits, CountedPc, UpdatePc
 <2>2. Moves(n, q, "validate", NoChannel) BY <1>1, <2>1, MovedAt
 <2> HIDE DEF n
 <2>3. Fit(t, n) BY <1>1, <1>2, <2>1, <2>2, CalmFit
 <2>4. AfterLeave(q) = n BY <1>2 DEF AfterLeave, n
 <2> QED BY <2>3, <2>4 DEF q
<1>3. CASE q.op \in {"permission", "kick"}
 <2>1. q.k \in Socket /\ (q.op = "permission" => q.c \in Channel) BY <1>1, <1>3 DEF Shaped
 <2>2. Fit(t, NextSocket(q)) BY <1>1, <1>3, <2>1, NextSocketFit
 <2>3. AfterLeave(q) = NextSocket(q) BY <1>3 DEF AfterLeave
 <2> QED BY <2>2, <2>3 DEF q
<1>4. CASE q.op \notin {"join", "permission", "kick"}
 <2>1. AfterLeave(q) = Idle BY <1>4 DEF AfterLeave
 <2> QED BY <2>1, IdleFit DEF q
<1> QED BY <1>2, <1>3, <1>4

\* What the callers of updateMute and updateDeafen go on as.
LEMMA AfterUpdateFit ==
    ASSUME TasksOK, NEW t \in Task, InFlight(t)
    PROVE  Fit(t, AfterUpdate(task[t]))
<1>1. CASE task[t].op = "permission"
 <2>1. task[t] \in TaskRecord /\ task[t].k \in Socket /\ task[t].c \in Channel
   BY <1>1, TaskTyped DEF InFlight, Shaped
 <2>2. Fit(t, NextSocket(task[t])) BY <1>1, <2>1, NextSocketFit
 <2> QED BY <1>1, <2>2 DEF AfterUpdate
<1>2. CASE task[t].op # "permission" BY <1>2, IdleFit DEF AfterUpdate
<1> QED BY <1>1, <1>2

\* leave deletes the entry first.
LEMMA LeaveDelKept ==
    ASSUME TasksOK, NEW t \in Task, LeaveDel(t)
    PROVE  Kept
<1>1. Fit(t, [task[t] EXCEPT !.pc = "rem"]) BY StepPc, CalmPcs DEF LeaveDel, InFlight
<1>2. /\ task' \in [Task -> TaskRecord]
      /\ \A o \in Task : Shaped(task'[o])
      /\ raced' \in SUBSET User
      /\ NoneCounted
  BY <1>1, ProceedFrame DEF LeaveDel
<1>3. state' \in [Channel -> [User -> Entry]] BY IdleTyped DEF LeaveDel, TasksOK, VoiceTypeOK
<1>4. VoiceTypeOK' /\ UNCHANGED <<members, crowded>>
  BY <1>2, <1>3 DEF LeaveDel, TasksOK, VoiceTypeOK, dbVars, socketVars
<1>5. \A o \in Task : Shaped(task[o])' BY <1>2 DEF Shaped
<1> QED BY <1>2, <1>4, <1>5 DEF Kept, TasksOK

\* Its caller clears what the socket knows.
LEMMA LeaveDoneKept ==
    ASSUME TasksOK, NEW t \in Task, LeaveDone(t)
    PROVE  Kept
<1>1. Fit(t, AfterLeave(task[t])) /\ Proceed(t, AfterLeave(task[t]), {})
  BY AfterLeaveFit DEF LeaveDone, InFlight
<1>2. /\ task' \in [Task -> TaskRecord]
      /\ \A o \in Task : Shaped(task'[o])
      /\ raced' \in SUBSET User
      /\ NoneCounted
  BY <1>1, ProceedFrame
<1>3. rooms' \in [Socket -> SUBSET Channel] BY SMTT(30) DEF LeaveDone, LeavesRoom, TasksOK, VoiceTypeOK
<1>4. voiceChannel' \in [Socket -> Channel \cup {NoChannel}] BY DEF LeaveDone, TasksOK, VoiceTypeOK
<1>5. VoiceTypeOK' /\ UNCHANGED <<members, crowded>>
  BY <1>2, <1>3, <1>4 DEF LeaveDone, TasksOK, VoiceTypeOK, redisVars, dbVars
<1>6. \A o \in Task : Shaped(task[o])' BY <1>2 DEF Shaped
<1> QED BY <1>2, <1>5, <1>6 DEF Kept, TasksOK

------------------------------------------------------------
(* Mute and deafen.                                                        *)

\* A handler on its way to an update has a channel.
LEMMA UpdatesChannel ==
    ASSUME TasksOK, NEW t \in Task, task[t].pc \in UpdatePc
    PROVE  task[t].at \in Channel
  BY DEF TasksOK, Shaped

\* voice:mute and voice:deafen need an entry.
LEMMA FlagCheckKept ==
    ASSUME TasksOK, NEW t \in Task, FlagCheck(t)
    PROVE  Kept
<1>1. /\ Fit(t, [task[t] EXCEPT !.pc = "muteSpeak"])
      /\ Fit(t, [task[t] EXCEPT !.pc = "get"])
  BY StepPc, CalmPcs, UpdatesChannel DEF FlagCheck, InFlight
<1>2. /\ UNCHANGED <<redisVars, dbVars, socketVars, crowded>>
      /\ \/ Proceed(t, Idle, {})
         \/ Proceed(t, [task[t] EXCEPT !.pc = "muteSpeak"], {})
         \/ Proceed(t, [task[t] EXCEPT !.pc = "get"], {})
  BY DEF FlagCheck
<1> QED BY <1>1, <1>2, IdleFit, TaskOnly

\* Unmuting checks SPEAK.
LEMMA UnmuteCheckSpeakKept ==
    ASSUME TasksOK, NEW t \in Task, UnmuteCheckSpeak(t)
    PROVE  Kept
<1>1. Fit(t, [task[t] EXCEPT !.pc = "muteMember"])
  BY StepPc, CalmPcs, UpdatesChannel DEF UnmuteCheckSpeak, InFlight
<1>2. Fit(t, [task[t] EXCEPT !.pc = "get", !.val = TRUE])
  BY StepVal, CalmPcs, UpdatesChannel DEF UnmuteCheckSpeak, InFlight
<1>3. /\ UNCHANGED <<redisVars, dbVars, socketVars, crowded>>
      /\ \/ Proceed(t, [task[t] EXCEPT !.pc = "muteMember"], {})
         \/ Proceed(t, [task[t] EXCEPT !.pc = "get", !.val = TRUE], {})
  BY DEF UnmuteCheckSpeak
<1> QED BY <1>1, <1>2, <1>3, TaskOnly

\* Unmuting checks the server mute.
LEMMA UnmuteCheckMemberKept ==
    ASSUME TasksOK, NEW t \in Task, UnmuteCheckMember(t)
    PROVE  Kept
<1> DEFINE val == ServerMuted(task[t].u, task[t].c)
<1>1. val \in BOOLEAN BY DEF ServerMuted
<1>2. /\ UNCHANGED <<redisVars, dbVars, socketVars, crowded>>
      /\ Proceed(t, [task[t] EXCEPT !.pc = "get", !.val = val], {})
      /\ InFlight(t) /\ task[t].at \in Channel
  BY CalmPcs, UpdatesChannel DEF UnmuteCheckMember, InFlight
<1> HIDE DEF val
<1>3. Fit(t, [task[t] EXCEPT !.pc = "get", !.val = val]) BY <1>1, <1>2, StepVal, CalmPcs
<1> QED BY <1>2, <1>3, TaskOnly

\* The write of the read-modify-write.
LEMMA UpdateSetKept ==
    ASSUME TasksOK, NEW t \in Task, UpdateSet(t)
    PROVE  Kept
<1>1. Fit(t, AfterUpdate(task[t])) /\ Proceed(t, AfterUpdate(task[t]), {})
  BY AfterUpdateFit DEF UpdateSet, InFlight
<1>2. /\ task' \in [Task -> TaskRecord]
      /\ \A o \in Task : Shaped(task'[o])
      /\ raced' \in SUBSET User
      /\ NoneCounted
  BY <1>1, ProceedFrame
<1>3. Updated(task[t]) \in Entry BY TaskTyped DEF Updated, Entry
<1>4. state' \in [Channel -> [User -> Entry]] BY <1>3 DEF UpdateSet, TasksOK, VoiceTypeOK
<1>5. VoiceTypeOK' /\ UNCHANGED <<members, crowded>>
  BY <1>2, <1>4 DEF UpdateSet, TasksOK, VoiceTypeOK, dbVars, socketVars
<1>6. \A o \in Task : Shaped(task[o])' BY <1>2 DEF Shaped
<1> QED BY <1>2, <1>5, <1>6 DEF Kept, TasksOK

\* Without an entry nothing is written.
LEMMA UpdateGetKept ==
    ASSUME TasksOK, NEW t \in Task, UpdateGet(t)
    PROVE  Kept
<1> DEFINE e == state[task[t].at][task[t].u]
<1>1. InFlight(t) /\ task[t].u \in User /\ task[t].at \in Channel
  BY TaskTyped, UpdatesChannel, CalmPcs DEF UpdateGet, InFlight
<1>2. Fit(t, AfterUpdate(task[t])) BY <1>1, AfterUpdateFit
<1>3. /\ UNCHANGED <<redisVars, dbVars, socketVars, crowded>>
      /\ \/ e.in /\ Proceed(t, [task[t] EXCEPT !.pc = "set", !.got = e], {})
         \/ Proceed(t, AfterUpdate(task[t]), {})
  BY DEF UpdateGet
<1>4. e \in Entry BY <1>1 DEF TasksOK, VoiceTypeOK
<1> HIDE DEF e
<1>5. Fit(t, [task[t] EXCEPT !.pc = "set", !.got = e]) BY <1>1, <1>4, StepGot, CalmPcs
<1> QED BY <1>2, <1>3, <1>5, TaskOnly

------------------------------------------------------------
(* Disconnects and moderation.                                             *)

\* The clean-up of a disconnect leaves the channel the socket joined.
LEMMA DropLeavesKept ==
    ASSUME TasksOK, NEW t \in Task, DropLeaves(t)
    PROVE  Kept
<1> DEFINE c == ChannelToLeave(task[t].k)
           met == IF \E o \in Task \ {t} : task[o].k = task[t].k THEN {task[t].u} ELSE {}
<1>1. InFlight(t) /\ task[t].u \in User BY TaskTyped DEF DropLeaves, InFlight
<1>2. met \in SUBSET User BY <1>1
<1>3. /\ UNCHANGED <<redisVars, dbVars, socketVars, crowded>>
      /\ \/ Proceed(t, Idle, met)
         \/ c # NoChannel /\ Proceed(t, [task[t] EXCEPT !.pc = "del", !.at = c], met)
  BY DEF DropLeaves
<1>4. c \in Channel \cup {NoChannel} BY DEF ChannelToLeave, DropLeaves, Shaped, TasksOK, VoiceTypeOK
<1> HIDE DEF c, met
<1>5. Fit(t, [task[t] EXCEPT !.pc = "del", !.at = c]) BY <1>1, <1>4, StepAt, CalmPcs
<1> QED BY <1>2, <1>3, <1>5, IdleFit, TaskOnly

\* muteMember, and the search for the user's voice state.
LEMMA ModMuteKept ==
    ASSUME TasksOK, NEW t \in Task, NEW s \in Server, NEW u \in User, ModMute(t, s, u)
    PROVE  Kept
<1> DEFINE r1 == [Idle EXCEPT !.pc = "keys"]
           r2 == [r1 EXCEPT !.op = "modMute"]
           n == [r2 EXCEPT !.u = u]
<1>1. r1 \in TaskRecord /\ r1.pc = "keys" BY IdleTyped DEF TaskRecord
<1>2. r2 \in TaskRecord /\ r2.pc = "keys" /\ r2.op = "modMute"
 <2> HIDE DEF r1
 <2> QED BY <1>1 DEF TaskRecord
<1>3. n \in TaskRecord /\ n.pc = "keys" /\ n.op = "modMute" /\ n.u = u
 <2> HIDE DEF r2
 <2> QED BY <1>2 DEF TaskRecord
<1>4. Proceed(t, n, {}) BY DEF ModMute
<1> HIDE DEF n
<1>5. Fit(t, n) BY <1>3 DEF Fit, Shaped, JoinPc, UpdatePc, CalmNext, CountedPc
<1>6. /\ task' \in [Task -> TaskRecord]
      /\ \A o \in Task : Shaped(task'[o])
      /\ raced' \in SUBSET User
      /\ NoneCounted
  BY <1>4, <1>5, ProceedFrame
<1>7. VoiceTypeOK' /\ UNCHANGED <<members, crowded>>
  BY <1>6, VoiceAssumption DEF ModMute, TasksOK, VoiceTypeOK, redisVars, socketVars
<1>8. \A o \in Task : Shaped(task[o])' BY <1>6 DEF Shaped
<1> QED BY <1>6, <1>7, <1>8 DEF Kept, TasksOK

\* It lists the keys of the user's entries.
LEMMA ModMuteKeysKept ==
    ASSUME TasksOK, NEW t \in Task, ModMuteKeys(t)
    PROVE  Kept
<1> DEFINE keys == HasEntry(task[t].u)
           met == IF Busy(task[t].u) THEN {task[t].u} ELSE {}
<1>1. InFlight(t) /\ task[t].u \in User BY TaskTyped DEF ModMuteKeys, InFlight
<1>2. met \in SUBSET User /\ keys \in SUBSET Channel BY <1>1 DEF HasEntry
<1>3. /\ UNCHANGED <<redisVars, dbVars, socketVars, crowded>>
      /\ Proceed(t, [task[t] EXCEPT !.pc = "find", !.keys = keys], met)
  BY DEF ModMuteKeys
<1> HIDE DEF keys, met
<1>4. Fit(t, [task[t] EXCEPT !.pc = "find", !.keys = keys]) BY <1>1, <1>2, StepKeys, CalmPcs
<1> QED BY <1>2, <1>3, <1>4, TaskOnly

\* It reads them one by one, and updates the first entry it finds.
LEMMA ModMuteFindKept ==
    ASSUME TasksOK, NEW t \in Task, ModMuteFind(t)
    PROVE  Kept
<1> DEFINE q == task[t]
           Found(c) == [q EXCEPT !.pc = "get", !.at = c, !.val = TRUE, !.keys = {}]
           Skipped(c) == [q EXCEPT !.keys = @ \ {c}]
<1>1. /\ q \in TaskRecord /\ q.u \in User /\ Shaped(q) /\ q.pc = "find"
      /\ q.keys \in SUBSET Channel
  BY TaskTyped DEF ModMuteFind
<1>2. /\ UNCHANGED <<redisVars, dbVars, socketVars, crowded>>
      /\ \/ Proceed(t, Idle, {})
         \/ \E c \in q.keys : Proceed(t, Found(c), {}) \/ Proceed(t, Skipped(c), {})
  BY DEF ModMuteFind
<1> HIDE DEF q
<1>3. ASSUME NEW c \in q.keys PROVE Fit(t, Found(c))
 <2> DEFINE r1 == [q EXCEPT !.pc = "get", !.at = c]
            r2 == [r1 EXCEPT !.val = TRUE]
            r3 == [r2 EXCEPT !.keys = {}]
 <2>1. c \in Channel \cup {NoChannel} /\ "get" \in Awaits /\ "get" \in Calm \ JoinPc
   BY <1>1, CalmPcs, CalmAwaits
 <2>2. Moves(r1, q, "get", c) BY <1>1, <2>1, MovedAt
 <2>3. Moves(r2, r1, "get", c)
  <3> HIDE DEF r1
  <3> QED BY <2>2, ValTyped DEF Moves
 <2>4. Moves(r3, r2, "get", c)
  <3> HIDE DEF r2
  <3> QED BY <2>3, KeysTyped DEF Moves
 <2>5. Found(c) = r3 OBVIOUS
 <2> HIDE DEF r1, r2, r3, Found
 <2>6. Moves(Found(c), q, "get", c) BY <2>2, <2>3, <2>4, <2>5 DEF Moves, SameWho
 <2> QED BY <1>1, <2>1, <2>6, CalmFit
<1>4. ASSUME NEW c \in q.keys PROVE Fit(t, Skipped(c))
 <2>1. Moves(Skipped(c), q, "find", q.at)
  <3> DEFINE keys == q.keys \ {c}
  <3>1. keys \in SUBSET Channel /\ Skipped(c) = [q EXCEPT !.keys = keys] BY <1>1
  <3> HIDE DEF keys, Skipped
  <3> QED BY <1>1, <3>1, KeysTyped
 <2> HIDE DEF Skipped
 <2> QED BY <1>1, <2>1, CalmPcs, CalmFit
<1> HIDE DEF Found, Skipped
<1> QED BY <1>2, <1>3, <1>4, IdleFit, TaskOnly

\* unmuteMember changes the Member row only.
LEMMA ModUnmuteKept ==
    ASSUME TasksOK, NEW s \in Server, NEW u \in User, ModUnmute(s, u)
    PROVE  Kept
  BY DEF ModUnmute, TasksOK, VoiceTypeOK, Shaped, Kept, NoneCounted, Counted,
         redisVars, socketVars

\* A reconciliation starts.
LEMMA ChangePermissionKept ==
    ASSUME TasksOK, NEW t \in Task, NEW u \in User, NEW c \in Channel,
           NEW bits \in SUBSET Bits, ChangePermission(t, u, c, bits)
    PROVE  Kept
<1> DEFINE r1 == [Idle EXCEPT !.pc = "loop"]
           r2 == [r1 EXCEPT !.op = "permission"]
           n == [r2 EXCEPT !.c = c]
<1>1. r1 \in TaskRecord /\ r1.pc = "loop" BY IdleTyped DEF TaskRecord
<1>2. r2 \in TaskRecord /\ r2.pc = "loop" /\ r2.op = "permission"
 <2> HIDE DEF r1
 <2> QED BY <1>1 DEF TaskRecord
<1>3. n \in TaskRecord /\ n.pc = "loop" /\ n.op = "permission" /\ n.c = c
 <2> HIDE DEF r2
 <2> QED BY <1>2 DEF TaskRecord
<1>4. Proceed(t, n, {}) BY DEF ChangePermission
<1> HIDE DEF n
<1>5. Fit(t, n) BY <1>3 DEF Fit, Shaped, JoinPc, UpdatePc, CalmNext, CountedPc
<1>6. /\ task' \in [Task -> TaskRecord]
      /\ \A o \in Task : Shaped(task'[o])
      /\ raced' \in SUBSET User
      /\ NoneCounted
  BY <1>4, <1>5, ProceedFrame
<1>7. perm' \in [User -> [Channel -> SUBSET Bits]] BY DEF ChangePermission, TasksOK, VoiceTypeOK
<1>8. VoiceTypeOK' /\ UNCHANGED <<members, crowded>>
  BY <1>6, <1>7 DEF ChangePermission, TasksOK, VoiceTypeOK, redisVars, socketVars
<1>9. \A o \in Task : Shaped(task[o])' BY <1>6 DEF Shaped
<1> QED BY <1>6, <1>8, <1>9 DEF Kept, TasksOK

\* An eviction starts.
LEMMA KickKept ==
    ASSUME TasksOK, NEW t \in Task, NEW s \in Server, NEW u \in User,
           NEW deletes \in BOOLEAN, Kick(t, s, u, deletes)
    PROVE  Kept
<1> DEFINE r1 == [Idle EXCEPT !.pc = "loop"]
           r2 == [r1 EXCEPT !.op = "kick"]
           r3 == [r2 EXCEPT !.s = s]
           n == [r3 EXCEPT !.u = u]
<1>1. r1 \in TaskRecord /\ r1.pc = "loop" BY IdleTyped DEF TaskRecord
<1>2. r2 \in TaskRecord /\ r2.pc = "loop" /\ r2.op = "kick"
 <2> HIDE DEF r1
 <2> QED BY <1>1 DEF TaskRecord
<1>3. r3 \in TaskRecord /\ r3.pc = "loop" /\ r3.op = "kick"
 <2> HIDE DEF r2
 <2> QED BY <1>2 DEF TaskRecord
<1>4. n \in TaskRecord /\ n.pc = "loop" /\ n.op = "kick" /\ n.u = u
 <2> HIDE DEF r3
 <2> QED BY <1>3 DEF TaskRecord
<1>5. Proceed(t, n, {}) BY DEF Kick
<1> HIDE DEF n
<1>6. Fit(t, n) BY <1>4 DEF Fit, Shaped, JoinPc, UpdatePc, CalmNext, CountedPc
<1>7. /\ task' \in [Task -> TaskRecord]
      /\ \A o \in Task : Shaped(task'[o])
      /\ raced' \in SUBSET User
      /\ NoneCounted
  BY <1>5, <1>6, ProceedFrame
<1>8. perm' \in [User -> [Channel -> SUBSET Bits]] BY DEF Kick, TasksOK, VoiceTypeOK
<1>9. muted' \subseteq Server \X User BY DEF Kick, TasksOK, VoiceTypeOK
<1>10. VoiceTypeOK' /\ UNCHANGED <<members, crowded>>
  BY <1>7, <1>8, <1>9 DEF Kick, TasksOK, VoiceTypeOK, redisVars, socketVars
<1>11. \A o \in Task : Shaped(task[o])' BY <1>7 DEF Shaped
<1> QED BY <1>7, <1>10, <1>11 DEF Kept, TasksOK

\* The walk looks at one socket: it evicts, reads permissions, or goes on.
LEMMA VisitKept ==
    ASSUME TasksOK, NEW t \in Task, NEW k \in Socket, Visit(t, k)
    PROVE  Kept
<1> DEFINE r1 == [task[t] EXCEPT !.k = k]
           r2 == [r1 EXCEPT !.u = Owner[k]]
           q == [r2 EXCEPT !.at = voiceChannel[k]]
           met == IF Busy(Owner[k]) THEN {Owner[k]} ELSE {}
           Looks == [task[t] EXCEPT !.k = k, !.u = Owner[k], !.at = voiceChannel[k]]
<1>1. Owner[k] \in User /\ voiceChannel[k] \in Channel \cup {NoChannel}
  BY VoiceAssumption DEF TasksOK, VoiceTypeOK
<1>2. task[t] \in TaskRecord /\ Shaped(task[t]) /\ task[t].pc = "loop" BY TaskTyped DEF Visit
<1>3. r1 \in TaskRecord /\ r1.k = k /\ r1.op = task[t].op /\ r1.c = task[t].c BY <1>2 DEF TaskRecord
<1>4. /\ r2 \in TaskRecord /\ r2.k = k /\ r2.op = task[t].op /\ r2.c = task[t].c
      /\ r2.u = Owner[k]
 <2> HIDE DEF r1
 <2> QED BY <1>1, <1>3 DEF TaskRecord
<1>5. /\ q \in TaskRecord /\ q.k = k /\ q.op = task[t].op /\ q.c = task[t].c
      /\ q.u = Owner[k] /\ q.at = voiceChannel[k]
 <2> HIDE DEF r2
 <2> QED BY <1>1, <1>4 DEF TaskRecord
<1>6. q = Looks OBVIOUS
<1>7. met \in SUBSET User BY <1>1
<1>8. /\ UNCHANGED <<redisVars, dbVars, socketVars, crowded>>
      /\ \/ Looks.op = "kick" /\ Proceed(t, [Looks EXCEPT !.pc = "del"], met)
         \/ /\ Looks.op = "permission" /\ Looks.at = Looks.c
            /\ Proceed(t, [Looks EXCEPT !.pc = "perms"], met)
         \/ Proceed(t, NextSocket(Looks), met)
  BY DEF Visit
<1>9. ASSUME NEW pc \in {"del", "perms"}, pc = "perms" => q.at = q.c /\ q.op = "permission"
      PROVE  Fit(t, [q EXCEPT !.pc = pc])
 <2> DEFINE n == [q EXCEPT !.pc = pc]
 <2>1. q.u \in User /\ (pc = "perms" => q.at \in Channel) BY <1>1, <1>2, <1>5, <1>9 DEF Shaped
 <2>2. pc \in Awaits /\ pc \notin CountedPc \cup JoinPc BY <1>9 DEF Awaits, CountedPc, JoinPc
 <2> HIDE DEF q
 <2>3. Moves(n, q, pc, q.at) BY <1>5, <2>2, PcTyped
 <2> HIDE DEF n
 <2>4. n.op \in {"join", "permission"} => n.c \in Channel BY <1>2, <1>5, <2>3 DEF Shaped, Moves, SameWho
 <2> HIDE DEF Looks
 <2>5. Fit(t, n) BY <1>5, <1>9, <2>1, <2>2, <2>3, <2>4 DEF Fit, Shaped, CalmNext, Moves, SameWho, UpdatePc
 <2> QED BY <2>5 DEF n
<1>10. Fit(t, NextSocket(q))
 <2>1. q.op \in {"join", "permission"} => q.c \in Channel BY <1>2, <1>5 DEF Shaped
 <2> HIDE DEF q, Looks
 <2> QED BY <1>1, <1>5, <2>1, NextSocketFit
<1> HIDE DEF q, met, Looks
<1>11. CASE Proceed(t, NextSocket(q), met) BY <1>7, <1>8, <1>10, <1>11, TaskOnly
<1>12. CASE Proceed(t, [q EXCEPT !.pc = "del"], met) BY <1>7, <1>8, <1>9, <1>12, TaskOnly
<1>13. CASE q.op = "permission" /\ q.at = q.c /\ Proceed(t, [q EXCEPT !.pc = "perms"], met)
  BY <1>7, <1>8, <1>9, <1>13, TaskOnly
<1> QED BY <1>6, <1>8, <1>11, <1>12, <1>13

\* It evicts, mutes or goes on.
LEMMA VisitDecidesKept ==
    ASSUME TasksOK, NEW t \in Task, VisitDecides(t)
    PROVE  Kept
<1>1. /\ InFlight(t) /\ task[t] \in TaskRecord /\ Shaped(task[t])
      /\ task[t].at \in Channel /\ task[t].u \in User
  BY TaskTyped, UpdatesChannel, CalmPcs DEF VisitDecides, InFlight
<1>2. Fit(t, [task[t] EXCEPT !.pc = "del"]) BY <1>1, StepPc, CalmPcs
<1>3. Fit(t, [task[t] EXCEPT !.pc = "get", !.val = TRUE]) BY <1>1, StepVal, CalmPcs
<1>4. Fit(t, NextSocket(task[t])) BY <1>1, NextSocketFit DEF Shaped, VisitDecides
<1>5. /\ UNCHANGED <<redisVars, dbVars, socketVars, crowded>>
      /\ \/ Proceed(t, [task[t] EXCEPT !.pc = "del"], {})
         \/ Proceed(t, [task[t] EXCEPT !.pc = "get", !.val = TRUE], {})
         \/ Proceed(t, NextSocket(task[t]), {})
  BY DEF VisitDecides
<1> QED BY <1>2, <1>3, <1>4, <1>5, TaskOnly

\* After an eviction's last socket comes its sweep.
LEMMA WalkEndsKept ==
    ASSUME TasksOK, NEW t \in Task, WalkEnds(t)
    PROVE  Kept
<1> DEFINE q == task[t]
           r1 == [Idle EXCEPT !.pc = "sweep"]
           r2 == [r1 EXCEPT !.op = "sweep"]
           r3 == [r2 EXCEPT !.s = q.s]
           n == [r3 EXCEPT !.u = q.u]
<1>1. q \in TaskRecord /\ Shaped(q) BY TaskTyped
<1>2. /\ UNCHANGED <<redisVars, dbVars, socketVars, crowded>>
      /\ \/ q.op = "kick" /\ Proceed(t, n, {})
         \/ Proceed(t, Idle, {})
  BY DEF WalkEnds
<1>3. ASSUME q.op = "kick" PROVE Fit(t, n)
 <2> HIDE DEF q
 <2>1. q.s \in Server \cup {NoServer} /\ q.u \in User BY <1>1, <1>3 DEF TaskRecord, Shaped
 <2>2. r1 \in TaskRecord /\ r1.pc = "sweep" BY IdleTyped DEF TaskRecord
 <2>3. r2 \in TaskRecord /\ r2.pc = "sweep" /\ r2.op = "sweep"
  <3> HIDE DEF r1
  <3> QED BY <2>2 DEF TaskRecord
 <2>4. r3 \in TaskRecord /\ r3.pc = "sweep" /\ r3.op = "sweep"
  <3> HIDE DEF r2
  <3> QED BY <2>1, <2>3 DEF TaskRecord
 <2>5. n \in TaskRecord /\ n.pc = "sweep" /\ n.op = "sweep" /\ n.u \in User
  <3> HIDE DEF r3
  <3> QED BY <2>1, <2>4 DEF TaskRecord
 <2> HIDE DEF n
 <2> QED BY <2>5 DEF Fit, Shaped, JoinPc, UpdatePc, CalmNext, CountedPc
<1> HIDE DEF n, q
<1> QED BY <1>2, <1>3, IdleFit, TaskOnly

\* The sweep leaves one channel the user still has an entry in.
LEMMA SweepKept ==
    ASSUME TasksOK, NEW t \in Task, Sweep(t)
    PROVE  Kept
<1> DEFINE u == task[t].u
           met == IF Busy(u) THEN {u} ELSE {}
<1>1. InFlight(t) /\ u \in User BY TaskTyped DEF Sweep, InFlight
<1>2. met \in SUBSET User /\ {u} \in SUBSET User BY <1>1
<1>3. /\ UNCHANGED <<redisVars, dbVars, socketVars, crowded>>
      /\ \/ Proceed(t, Idle, met)
         \/ \E c \in Channel : Proceed(t, [task[t] EXCEPT !.pc = "del", !.at = c], {u})
  BY DEF Sweep, HasEntry
<1> HIDE DEF u, met
<1>4. ASSUME NEW c \in Channel
      PROVE  Fit(t, [task[t] EXCEPT !.pc = "del", !.at = c])
  BY <1>1, StepAt, CalmPcs
<1> QED BY <1>2, <1>3, <1>4, IdleFit, TaskOnly

------------------------------------------------------------
(* Connections and restarts.                                               *)

\* A new socket under a reused name has not been visited by any walk.
LEMMA ConnectKept ==
    ASSUME TasksOK, NEW k \in Socket, Connect(k)
    PROVE  Kept
<1> DEFINE Forgets(q) == [q EXCEPT !.seen = q.seen \ {k}]
<1>1. ASSUME NEW q \in TaskRecord
      PROVE  Moves(Forgets(q), q, q.pc, q.at)
  BY DEF TaskRecord, Moves, SameWho
<1>2. task' = [t \in Task |-> Forgets(task[t])] BY DEF Connect
<1> HIDE DEF Forgets
<1>3. ASSUME NEW t \in Task
      PROVE  /\ task'[t] \in TaskRecord /\ Shaped(task'[t])
             /\ task'[t].pc = task[t].pc /\ task'[t].op = task[t].op /\ task'[t].c = task[t].c
 <2>1. Moves(task'[t], task[t], task[t].pc, task[t].at) /\ Shaped(task[t]) BY <1>1, <1>2, TaskTyped
 <2> QED BY <2>1 DEF Moves, SameWho, Shaped
<1>4. task' \in [Task -> TaskRecord] BY <1>2, <1>3
<1>5. NoneCounted BY <1>3 DEF NoneCounted, Counted
<1>6. VoiceTypeOK' /\ UNCHANGED <<members, crowded>>
  BY <1>4 DEF Connect, TasksOK, VoiceTypeOK, redisVars, dbVars
<1>7. \A t \in Task : Shaped(task[t])' BY <1>3 DEF Shaped
<1> QED BY <1>5, <1>6, <1>7 DEF Kept, TasksOK

\* A restart ends every handler and keeps Redis.
LEMMA RestartKept ==
    ASSUME TasksOK, Restart
    PROVE  Kept
<1>1. task' = [t \in Task |-> Idle] BY DEF Restart
<1>2. task' \in [Task -> TaskRecord] /\ \A t \in Task : Shaped(task[t])' BY <1>1, IdleTyped DEF Shaped
<1>3. NoneCounted BY <1>1 DEF NoneCounted, Counted, Idle
<1>4. VoiceTypeOK' /\ UNCHANGED <<members, crowded>>
  BY <1>2 DEF Restart, TasksOK, VoiceTypeOK, redisVars, dbVars
<1> QED BY <1>2, <1>3, <1>4 DEF Kept, TasksOK

------------------------------------------------------------
(* The count and the set of members.                                       *)

\* Nothing that leaves the members and the counted joins alone takes the place a
\* join counted.
LEMMA KeptIInv ==
    ASSUME VoiceIInv, Kept
    PROVE  VoiceIInv'
<1>1. TasksOK' /\ NoneCounted /\ members' = members /\ crowded' = crowded BY DEF Kept
<1>2. VoiceTypeOK' /\ \A t \in Task : Shaped(task[t])' BY <1>1 DEF TasksOK
<1>3. (\A c \in Channel : IsFiniteSet(members[c]))' BY <1>1 DEF VoiceIInv
<1>4. PlaceKept' BY <1>1 DEF VoiceIInv, PlaceKept, NoneCounted
<1>5. CapacityUnlessJoinsMeet' BY <1>1 DEF VoiceIInv, CapacityUnlessJoinsMeet
<1> QED BY <1>2, <1>3, <1>4, <1>5 DEF VoiceIInv

\* The size of a finite set with one element more.
LEMMA OneMore ==
    ASSUME NEW S, IsFiniteSet(S), NEW x
    PROVE  /\ IsFiniteSet(S \cup {x})
           /\ Cardinality(S) \in Nat /\ Cardinality(S \cup {x}) \in Nat
           /\ Cardinality(S \cup {x}) <= Cardinality(S) + 1
  BY FS_AddElement, FS_CardinalityType

\* The same with one element less.
LEMMA OneLess ==
    ASSUME NEW S, IsFiniteSet(S), NEW x
    PROVE  /\ IsFiniteSet(S \ {x})
           /\ Cardinality(S) \in Nat /\ Cardinality(S \ {x}) \in Nat
           /\ Cardinality(S \ {x}) <= Cardinality(S)
<1>1. /\ IsFiniteSet(S \ {x})
      /\ Cardinality(S \ {x}) = IF x \in S THEN Cardinality(S) - 1 ELSE Cardinality(S)
  BY FS_RemoveElement
<1>2. Cardinality(S) \in Nat /\ Cardinality(S \ {x}) \in Nat BY <1>1, FS_CardinalityType
<1> QED BY <1>1, <1>2

\* A join that finds a place is the only one past its count, or the channel is
\* crowded from now on.
LEMMA JoinCountIInv ==
    ASSUME VoiceIInv, NEW t \in Task, JoinCount(t)
    PROVE  VoiceIInv'
<1> DEFINE q == task[t]
           n == [q EXCEPT !.pc = "canSpeak"]
           c == q.c
<1>1. TasksOK BY DEF VoiceIInv, TasksOK
<1>2. q \in TaskRecord /\ Shaped(q) /\ q.pc = "count" /\ q.op = "join" /\ c \in Channel
  BY <1>1, TaskTyped DEF JoinCount, Shaped, JoinPc
<1>3. CASE ChannelFull(c)
 <2>1. Proceed(t, Idle, {}) /\ UNCHANGED <<redisVars, dbVars, socketVars, crowded>> BY <1>3 DEF JoinCount
 <2>2. Kept BY <1>1, <2>1, IdleFit, TaskOnly
 <2> QED BY <2>2, KeptIInv
<1>4. CASE ~ChannelFull(c)
 <2>1. /\ Proceed(t, n, {}) /\ UNCHANGED <<redisVars, dbVars, socketVars>>
       /\ crowded' = crowded \cup {d \in {c} : \E o \in Task : Counted(o, c)}
   BY <1>4 DEF JoinCount
 <2>2. "canSpeak" \in Awaits BY DEF Awaits
 <2>3. n \in TaskRecord /\ Shaped(n) /\ n.op = "join" /\ n.c = c
  <3> HIDE DEF q
  <3>1. Moves(n, q, "canSpeak", q.at) BY <1>2, <2>2, PcTyped
  <3> HIDE DEF n
  <3> QED BY <1>2, <3>1 DEF Moves, SameWho, Shaped, JoinPc, UpdatePc
 <2> HIDE DEF n
 <2>4. task' = [task EXCEPT ![t] = n] /\ task' \in [Task -> TaskRecord]
   BY <1>1, <2>1, <2>3 DEF Proceed, TasksOK, VoiceTypeOK
 <2>5. raced' \in SUBSET User BY <1>1, <2>1 DEF Proceed, TasksOK, VoiceTypeOK, Collisions
 <2>6. VoiceTypeOK' BY <1>1, <1>2, <2>1, <2>4, <2>5 DEF TasksOK, VoiceTypeOK, redisVars, dbVars, socketVars
 <2>7. \A o \in Task : Shaped(task[o])' BY <1>1, <2>3, <2>4 DEF TasksOK, Shaped
 <2>8. members' = members /\ (\A d \in Channel : IsFiniteSet(members[d]))' BY <2>1 DEF redisVars, VoiceIInv
 <2>9. \A o \in Task, d \in Channel : Counted(o, d)' => Counted(o, d) \/ (o = t /\ d = c)
   BY <1>1, <2>3, <2>4 DEF Counted, TasksOK, VoiceTypeOK
 <2>10. Cardinality(members[c]) < Capacity
   BY <1>2, <1>4, VoiceAssumption, FS_CardinalityType DEF ChannelFull, VoiceIInv
 <2>11. PlaceKept'
  <3> SUFFICES ASSUME NEW d \in Channel, d \notin crowded'
               PROVE  /\ \A a, o \in Task : Counted(a, d)' /\ Counted(o, d)' => a = o
                      /\ \A a \in Task : Counted(a, d)' => Cardinality(members[d]) < Capacity
    BY <2>8 DEF PlaceKept
  <3>1. d \notin crowded BY <2>1
  <3>2. CASE d = c
   <4>1. \A o \in Task : ~Counted(o, c) BY <2>1, <3>2
   <4> HIDE DEF c
   <4> QED BY <2>9, <2>10, <3>2, <4>1
  <3>3. CASE d # c
   <4> HIDE DEF c
   <4> QED BY <2>9, <3>1, <3>3 DEF VoiceIInv, PlaceKept
  <3> QED BY <3>2, <3>3
 <2>12. CapacityUnlessJoinsMeet' BY <2>1, <2>8 DEF VoiceIInv, CapacityUnlessJoinsMeet
 <2> QED BY <2>6, <2>7, <2>8, <2>11, <2>12 DEF VoiceIInv
<1> QED BY <1>3, <1>4

\* Its SADD takes the place it counted.
LEMMA JoinAddIInv ==
    ASSUME VoiceIInv, NEW t \in Task, JoinAdd(t), NEW c \in Channel, c = task[t].c
    PROVE  VoiceIInv'
<1> DEFINE q == task[t]
           n == [q EXCEPT !.pc = "joined"]
           u == q.u
<1>1. TasksOK BY DEF VoiceIInv, TasksOK
<1>2. /\ q \in TaskRecord /\ Shaped(q) /\ q.pc = "add" /\ q.op = "join"
      /\ c = q.c /\ u \in User
  BY <1>1, TaskTyped DEF JoinAdd, Shaped, JoinPc
<1>3. "joined" \in Awaits /\ "joined" \in Calm \ UpdatePc BY DEF Awaits, Calm, CountedPc, UpdatePc
<1>4. Fit(t, n) /\ n.pc = "joined"
 <2> HIDE DEF q
 <2>1. Moves(n, q, "joined", q.at) BY <1>2, <1>3, PcTyped
 <2> HIDE DEF n
 <2> QED BY <1>2, <1>3, <2>1, CalmFit DEF Moves
<1>5. Proceed(t, n, {}) /\ UNCHANGED <<state, dbVars, socketVars, crowded>> BY DEF JoinAdd
<1>6. members' = [members EXCEPT ![c] = members[c] \cup {u}] BY <1>2 DEF JoinAdd
<1> HIDE DEF n, u
<1>7. /\ task' \in [Task -> TaskRecord]
      /\ \A o \in Task : Shaped(task'[o])
      /\ raced' \in SUBSET User
      /\ NoneCounted
  BY <1>1, <1>4, <1>5, ProceedFrame
<1>8. task'[t].pc = "joined" BY <1>1, <1>4, <1>5 DEF Proceed, TasksOK, VoiceTypeOK
<1>9. members \in [Channel -> SUBSET User] BY <1>1 DEF TasksOK, VoiceTypeOK
<1>10. Counted(t, c) BY <1>2 DEF Counted
<1> HIDE DEF q
<1>11. /\ members' \in [Channel -> SUBSET User]
       /\ members'[c] = members[c] \cup {u}
       /\ \A d \in Channel \ {c} : members'[d] = members[d]
  BY <1>2, <1>6, <1>9 DEF u
<1>12. VoiceTypeOK' BY <1>1, <1>5, <1>7, <1>11 DEF TasksOK, VoiceTypeOK, dbVars, socketVars
<1>13. \A o \in Task : Shaped(task[o])' BY <1>7 DEF Shaped
<1>14. /\ IsFiniteSet(members'[c])
       /\ Cardinality(members[c]) \in Nat
       /\ Cardinality(members'[c]) \in Nat
       /\ Cardinality(members'[c]) <= Cardinality(members[c]) + 1
 <2>1. IsFiniteSet(members[c]) BY <1>2 DEF VoiceIInv
 <2>2. /\ IsFiniteSet(members[c] \cup {u})
       /\ Cardinality(members[c]) \in Nat /\ Cardinality(members[c] \cup {u}) \in Nat
       /\ Cardinality(members[c] \cup {u}) <= Cardinality(members[c]) + 1
   BY <2>1, OneMore
 <2>3. members'[c] = members[c] \cup {u} BY <1>11
 <2> QED BY <2>2, <2>3
<1>15. (\A d \in Channel : IsFiniteSet(members[d]))' BY <1>11, <1>14 DEF VoiceIInv
<1>16. c \notin crowded =>
         /\ \A o \in Task : Counted(o, c) => o = t
         /\ Cardinality(members[c]) < Capacity
  BY <1>2, <1>10 DEF VoiceIInv, PlaceKept
<1>17. ~Counted(t, c)' BY <1>8 DEF Counted
<1>18. PlaceKept'
 <2> SUFFICES ASSUME NEW d \in Channel, d \notin crowded
              PROVE  /\ \A a, o \in Task : Counted(a, d)' /\ Counted(o, d)' => a = o
                     /\ \A a \in Task : Counted(a, d)' => Cardinality(members'[d]) < Capacity
   BY <1>5 DEF PlaceKept
 <2>1. CASE d = c
  <3>1. \A o \in Task : ~Counted(o, c)' BY <1>2, <1>7, <1>16, <1>17, <2>1 DEF NoneCounted
  <3> QED BY <2>1, <3>1
 <2>2. CASE d # c BY <1>7, <1>11, <2>2 DEF VoiceIInv, PlaceKept, NoneCounted
 <2> QED BY <2>1, <2>2
<1>19. CapacityUnlessJoinsMeet'
 <2> SUFFICES ASSUME NEW d \in Channel, Cardinality(members'[d]) > Capacity
              PROVE  d \in crowded
   BY <1>5 DEF CapacityUnlessJoinsMeet
 <2>1. CASE d = c BY <1>14, <1>16, <2>1, VoiceAssumption
 <2>2. CASE d # c BY <1>11, <2>2 DEF VoiceIInv, CapacityUnlessJoinsMeet
 <2> QED BY <2>1, <2>2
<1> QED BY <1>12, <1>13, <1>15, <1>18, <1>19 DEF VoiceIInv

\* A leave frees a place.
LEMMA LeaveRemIInv ==
    ASSUME VoiceIInv, NEW t \in Task, LeaveRem(t)
    PROVE  VoiceIInv'
<1> DEFINE c == task[t].at
           u == task[t].u
<1>1. TasksOK BY DEF VoiceIInv, TasksOK
<1>2. Fit(t, [task[t] EXCEPT !.pc = "left"]) BY <1>1, StepPc, CalmPcs DEF LeaveRem, InFlight
<1>3. /\ task' \in [Task -> TaskRecord]
      /\ \A o \in Task : Shaped(task'[o])
      /\ raced' \in SUBSET User
      /\ NoneCounted
  BY <1>1, <1>2, ProceedFrame DEF LeaveRem
<1>4. /\ members' = [members EXCEPT ![c] = members[c] \ {u}]
      /\ UNCHANGED <<state, dbVars, socketVars, crowded>>
  BY DEF LeaveRem
<1>5. members \in [Channel -> SUBSET User] BY <1>1 DEF TasksOK, VoiceTypeOK
<1> HIDE DEF c, u
<1>6. /\ members' \in [Channel -> SUBSET User]
      /\ \A d \in Channel : members'[d] = members[d] \/ members'[d] = members[d] \ {u}
  BY <1>4, <1>5
<1>7. VoiceTypeOK' BY <1>1, <1>3, <1>4, <1>6 DEF TasksOK, VoiceTypeOK, dbVars, socketVars
<1>8. \A o \in Task : Shaped(task[o])' BY <1>3 DEF Shaped
<1>9. ASSUME NEW d \in Channel
      PROVE  /\ IsFiniteSet(members'[d])
             /\ Cardinality(members[d]) \in Nat /\ Cardinality(members'[d]) \in Nat
             /\ Cardinality(members'[d]) <= Cardinality(members[d])
 <2>1. IsFiniteSet(members[d]) BY DEF VoiceIInv
 <2>2. CASE members'[d] = members[d] BY <2>1, <2>2, FS_CardinalityType
 <2>3. CASE members'[d] = members[d] \ {u} BY <2>1, <2>3, OneLess
 <2> QED BY <1>6, <2>2, <2>3
<1>10. PlaceKept'
 <2> SUFFICES ASSUME NEW d \in Channel, d \notin crowded
              PROVE  /\ \A a, o \in Task : Counted(a, d)' /\ Counted(o, d)' => a = o
                     /\ \A a \in Task : Counted(a, d)' => Cardinality(members'[d]) < Capacity
   BY <1>4 DEF PlaceKept
 <2>1. /\ \A a, o \in Task : Counted(a, d)' /\ Counted(o, d)' => a = o
       /\ \A a \in Task : Counted(a, d)' => Cardinality(members[d]) < Capacity
   BY <1>3 DEF VoiceIInv, PlaceKept, NoneCounted
 <2> QED BY <1>9, <2>1, VoiceAssumption
<1>11. CapacityUnlessJoinsMeet' BY <1>4, <1>9, VoiceAssumption DEF VoiceIInv, CapacityUnlessJoinsMeet
<1>12. (\A d \in Channel : IsFiniteSet(members[d]))' BY <1>9
<1> QED BY <1>7, <1>8, <1>10, <1>11, <1>12 DEF VoiceIInv

------------------------------------------------------------
(* The theorems.                                                           *)

\* The empty system satisfies the invariant.
LEMMA InitIInv == ASSUME Init PROVE VoiceIInv
<1>1. VoiceTypeOK BY IdleTyped DEF Init, VoiceTypeOK
<1>2. \A t \in Task : Shaped(task[t]) BY IdleTyped DEF Init
<1>3. \A t \in Task, c \in Channel : ~Counted(t, c) BY DEF Init, Counted, Idle
<1>4. \A c \in Channel : IsFiniteSet(members[c]) /\ Cardinality(members[c]) = 0 BY FS_EmptySet DEF Init
<1>5. PlaceKept BY <1>3 DEF PlaceKept
<1>6. CapacityUnlessJoinsMeet BY <1>4, VoiceAssumption DEF CapacityUnlessJoinsMeet
<1> QED BY <1>1, <1>2, <1>4, <1>5, <1>6 DEF VoiceIInv

\* A request opens a task.
LEMMA RequestKept ==
    ASSUME TasksOK, NEW t \in Task, Request(t)
    PROVE  Kept
<1>1. CASE \E k \in Socket, c \in Channel : Join(t, k, c) BY <1>1, JoinKept
<1>2. CASE \E k \in Socket, c \in Channel : Leave(t, k, c) BY <1>2, LeaveKept
<1>3. CASE \E k \in Socket, c \in Channel, op \in {"mute", "deafen"}, val \in BOOLEAN :
              SetFlag(t, op, k, c, val)
  BY <1>3, SetFlagKept
<1>4. CASE \E k \in Socket : Drop(t, k) BY <1>4, DropKept
<1>5. CASE \E u \in User, s \in Server : ModMute(t, s, u) BY <1>5, ModMuteKept
<1>6. CASE \E u \in User, s \in Server, deletes \in BOOLEAN : Kick(t, s, u, deletes) BY <1>6, KickKept
<1>7. CASE \E u \in User, c \in Channel, bits \in SUBSET Bits : ChangePermission(t, u, c, bits)
  BY <1>7, ChangePermissionKept
<1> QED BY <1>1, <1>2, <1>3, <1>4, <1>5, <1>6, <1>7 DEF Request

\* A task goes on.
LEMMA TaskStepIInv ==
    ASSUME VoiceIInv, NEW t \in Task, TaskStep(t)
    PROVE  VoiceIInv'
<1>1. TasksOK BY DEF VoiceIInv, TasksOK
<1>2. CASE JoinCount(t) BY <1>2, JoinCountIInv
<1>3. CASE JoinAdd(t)
 <2>1. task[t].c \in Channel BY <1>1, <1>3, TaskTyped DEF JoinAdd, Shaped, JoinPc
 <2> QED BY <1>3, <2>1, JoinAddIInv
<1>4. CASE LeaveRem(t) BY <1>4, LeaveRemIInv
<1>5. CASE JoinMember(t) \/ JoinConnect(t) \/ JoinCanSpeak(t) \/ JoinPut(t) \/ JoinDone(t)
  BY <1>1, <1>5, JoinMemberKept, JoinConnectKept, JoinCanSpeakKept, JoinPutKept, JoinDoneKept, KeptIInv
<1>6. CASE LeaveDel(t) \/ LeaveDone(t) BY <1>1, <1>6, LeaveDelKept, LeaveDoneKept, KeptIInv
<1>7. CASE \/ FlagCheck(t) \/ UnmuteCheckSpeak(t) \/ UnmuteCheckMember(t)
           \/ UpdateGet(t) \/ UpdateSet(t)
  BY <1>1, <1>7, FlagCheckKept, UnmuteCheckSpeakKept, UnmuteCheckMemberKept,
     UpdateGetKept, UpdateSetKept, KeptIInv
<1>8. CASE DropLeaves(t) \/ ModMuteKeys(t) \/ ModMuteFind(t)
  BY <1>1, <1>8, DropLeavesKept, ModMuteKeysKept, ModMuteFindKept, KeptIInv
<1>9. CASE (\E k \in Socket : Visit(t, k)) \/ VisitDecides(t) \/ WalkEnds(t) \/ Sweep(t)
  BY <1>1, <1>9, VisitKept, VisitDecidesKept, WalkEndsKept, SweepKept, KeptIInv
<1> QED BY <1>2, <1>3, <1>4, <1>5, <1>6, <1>7, <1>8, <1>9 DEF TaskStep

\* So does a system that has not moved.
LEMMA StutterIInv ==
    ASSUME VoiceIInv, UNCHANGED vars
    PROVE  VoiceIInv'
<1>1. TasksOK' /\ NoneCounted /\ UNCHANGED <<members, crowded>>
  BY DEF vars, VoiceIInv, TasksOK, VoiceTypeOK, Shaped, NoneCounted, Counted
<1> QED BY <1>1, KeptIInv DEF Kept

\* Every step keeps the invariant.
LEMMA NextIInv ==
    ASSUME VoiceIInv, [Next]_vars
    PROVE  VoiceIInv'
<1>1. TasksOK BY DEF VoiceIInv, TasksOK
<1>2. CASE \E t \in Task : Request(t) BY <1>1, <1>2, RequestKept, KeptIInv
<1>3. CASE \E t \in Task : TaskStep(t) BY <1>3, TaskStepIInv
<1>4. CASE \E k \in Socket : Connect(k) BY <1>1, <1>4, ConnectKept, KeptIInv
<1>5. CASE \E s \in Server, u \in User : ModUnmute(s, u) BY <1>1, <1>5, ModUnmuteKept, KeptIInv
<1>6. CASE Restart BY <1>1, <1>6, RestartKept, KeptIInv
<1>7. CASE UNCHANGED vars BY <1>7, StutterIInv
<1> QED BY <1>2, <1>3, <1>4, <1>5, <1>6, <1>7 DEF Next, Serve

\* For every set of users, sockets, channels and handlers, and every capacity:
\* unless two joins met in a channel, one join at most is past its count there and
\* the place it counted is still free, however its steps interleave with leaves,
\* evictions, sweeps and restarts.
THEOREM VoiceInductive == Spec => []VoiceIInv
  BY InitIInv, NextIInv, PTL DEF Spec

\* Redis, the sockets and the records of the handlers in flight keep their types.
THEOREM VoiceTypeCorrect == Spec => []VoiceTypeOK
<1>1. VoiceIInv => VoiceTypeOK BY DEF VoiceIInv
<1> QED BY <1>1, VoiceInductive, PTL

\* The SCARD of validateJoin and the SADD of join are two commands, and yet a
\* channel exceeds its capacity only through joins that were both between them.
THEOREM CapacityHeld == Spec => []CapacityUnlessJoinsMeet
<1>1. VoiceIInv => CapacityUnlessJoinsMeet BY DEF VoiceIInv
<1> QED BY <1>1, VoiceInductive, PTL
=============================================================================
