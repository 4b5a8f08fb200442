--------------------------- MODULE MemberContext ---------------------------
(***************************************************************************)
(* The members of the open server as a tab sees them                       *)
(* (hooks/useMemberContext.ts) and who is in its voice channels            *)
(* (hooks/useVoiceOccupancy.ts): lists read anew after every event, and    *)
(* the menu over a member, whose actions must not outlive what it showed.  *)
(***************************************************************************)
EXTENDS Naturals, Sequences, FiniteSets

CONSTANTS Fellow,                 \* the other users
          Membership, FellowOf,   \* the members, rows with an id of their own, and the user of each
          NotRead, NoFellow

ASSUME MemberContextAssumption ==
    /\ FellowOf \in [Membership -> Fellow]
    /\ NotRead # NoFellow /\ NoFellow \notin Fellow \cup Membership
    /\ \A list \in SUBSET Membership : list # NotRead /\ list # NoFellow
    /\ \A list \in SUBSET Fellow : list # NotRead /\ list # NoFellow

VARIABLES
    roster, banned,               \* the members of the server, and those that are banned
    voicing,                      \* the users in its voice channel
    tidings, inReach, beside,     \* events to the tab; its socket; whether it is in that channel too
    scoped,                       \* whether the server is open
    reading, snapshotRef,         \* the read that is not superseded, and what the last one said
    knownMembers, membersShown,   \* knownSnapshotRef, snapshot
    asking, occupancy, occupancyCurrent,
    entry, confirmation,          \* the menu, and the question before a member is removed
    operation,                    \* pendingRef: the action in flight
    painted                       \* whether what was set has been rendered

worldFacts == <<roster, banned, voicing, beside>>
listVarsOfMembers == <<reading, snapshotRef, knownMembers, membersShown>>
occupancyVars == <<asking, occupancy, occupancyCurrent>>
menuVars == <<entry, confirmation, operation>>
memberVars ==
    <<worldFacts, tidings, inReach, scoped, listVarsOfMembers, occupancyVars, menuVars, painted>>

UsersOf(members) == {FellowOf[m] : m \in members}

\* A read of members, roles and permissions. It is fresh until one of them changes; a removal the
\* tab made nothing of, or a return it was not told of, may be missed by it.
ReadList(r) == IF r.list \in {NotRead, NoFellow} THEN {} ELSE r.list
NoReading == [list |-> NoFellow, fresh |-> FALSE, missed |-> FALSE]
FreshReading == [NoReading EXCEPT !.list = NotRead, !.fresh = TRUE]
NothingHeard == [members |-> {}, ready |-> FALSE]

\* A menu: for whom, whether for a voice channel, whether its epoch is the present one, and whether
\* what it was rendered from is still what the tab knows.
NoMenu == [user |-> NoFellow, channel |-> FALSE, ok |-> FALSE, data |-> "none"]
NoOperation == [member |-> NoFellow, kind |-> "none", ok |-> FALSE, phase |-> "none", own |-> FALSE]

MemberContextTypeOK ==
    /\ roster \cup banned \subseteq Membership /\ voicing \subseteq UsersOf(roster)
    /\ {inReach, beside, scoped, painted} \subseteq BOOLEAN
    /\ \A i \in DOMAIN tidings :
          tidings[i].kind \in {"reconcile", "permissions", "removed", "left", "occupancy", "gone"}
    /\ {reading.list, snapshotRef.list} \subseteq (SUBSET Membership) \cup {NotRead, NoFellow}
    /\ knownMembers \subseteq Membership /\ membersShown \subseteq Membership
    /\ asking \in (SUBSET Fellow) \cup {NotRead, NoFellow}
    /\ occupancy.members \subseteq Fellow /\ occupancyCurrent \in {"no", "accepted", "yes"}
    /\ {entry.data, confirmation.data} \subseteq {"none", "current", "old"}
    /\ operation.phase \in {"none", "sent", "served", "refused", "refresh"}

MemberContextInit ==
    /\ roster \in {members \in SUBSET Membership :
                    UsersOf(members) = Fellow /\ \A m, n \in members : FellowOf[m] = FellowOf[n] => m = n}
    /\ banned = {} /\ voicing = {} /\ beside \in BOOLEAN
    /\ tidings = <<>> /\ inReach = FALSE /\ scoped = FALSE
    /\ reading = NoReading /\ snapshotRef = NoReading /\ knownMembers = {} /\ membersShown = {}
    /\ asking = NoFellow /\ occupancy = NothingHeard /\ occupancyCurrent = "no"
    /\ entry = NoMenu /\ confirmation = NoMenu /\ operation = NoOperation /\ painted = TRUE

------------------------------------------------------------
(* The server. Each change is told when it has been made.                  *)

\* What has been read when the members change, or what they may do, is of before; what has not is
\* read later.
ReadBefore(r) == [r EXCEPT !.fresh = FALSE]
MembersOutdated ==
    /\ snapshotRef' = ReadBefore(snapshotRef)
    /\ reading' \in IF reading.list = NotRead THEN {reading, [ReadBefore(reading) EXCEPT !.list = roster]}
                    ELSE {ReadBefore(reading)}
PermissionsOutdated == snapshotRef' = ReadBefore(snapshotRef) /\ reading' \in {reading, ReadBefore(reading)}

AskedBefore == asking' \in {asking, IF asking = NotRead THEN voicing ELSE asking}

WordOf(kind, of) == [kind |-> kind, of |-> of]
ToldTab(words) == tidings' = IF inReach THEN tidings \o words ELSE tidings

\* What is told when one leaves the voice channel.
LeftVoice(u) ==
    IF u \notin voicing THEN <<>>
    ELSE (IF beside THEN <<WordOf("left", u)>> ELSE <<>>) \o <<WordOf("occupancy", NoFellow)>>

UntouchedOfMembers == <<beside, inReach, scoped, knownMembers, membersShown, occupancy, occupancyCurrent>>

Joined(m, words) ==
    /\ roster' = roster \cup {m} /\ UNCHANGED voicing
    /\ ToldTab(words) /\ MembersOutdated /\ AskedBefore

Removed(m, words) ==
    /\ roster' = roster \ {m} /\ voicing' = voicing \ {FellowOf[m]}
    /\ ToldTab(LeftVoice(FellowOf[m]) \o words) /\ MembersOutdated /\ AskedBefore

\* A kick deletes the member, a ban keeps it; either is told with its id.
Ousted(m) == Removed(m, <<WordOf("removed", m)>>) /\ banned' \in {banned, banned \cup {m}}

\* The id of one who joins is new: nobody can have it from before.
IsNew(m) ==
    /\ m \notin roster \cup banned \cup knownMembers \cup membersShown \cup ReadList(reading)
    /\ operation.member # m

FellowJoins(m) ==
    /\ tidings = <<>> /\ IsNew(m) /\ FellowOf[m] \notin UsersOf(roster \cup banned)
    /\ Joined(m, <<WordOf("reconcile", NoFellow)>>)
    /\ UNCHANGED <<banned, UntouchedOfMembers, menuVars, painted>>

FellowLeaves(m) ==
    /\ tidings = <<>> /\ m \in roster /\ Removed(m, <<WordOf("reconcile", NoFellow)>>)
    /\ UNCHANGED <<banned, UntouchedOfMembers, menuVars, painted>>

FellowOusted(m) ==
    /\ tidings = <<>> /\ m \in roster /\ Ousted(m)
    /\ UNCHANGED <<UntouchedOfMembers, menuVars, painted>>

\* unbanMember tells no one.
Overlooks(r, list) == [r EXCEPT !.list = list, !.fresh = FALSE, !.missed = TRUE]
FellowUnbanned(m) ==
    /\ tidings = <<>> /\ m \in banned /\ banned' = banned \ {m} /\ roster' = roster \cup {m}
    /\ snapshotRef' = IF snapshotRef = NoReading THEN NoReading ELSE Overlooks(snapshotRef, snapshotRef.list)
    /\ reading' \in IF reading = NoReading THEN {NoReading}
                    ELSE IF reading.list = NotRead THEN {reading, Overlooks(reading, roster)}
                    ELSE {Overlooks(reading, reading.list)}
    /\ UNCHANGED <<voicing, tidings, asking, UntouchedOfMembers, menuVars, painted>>

PermissionsChange ==
    /\ tidings = <<>> /\ ToldTab(<<WordOf("permissions", NoFellow), WordOf("occupancy", NoFellow)>>)
    /\ PermissionsOutdated
    /\ UNCHANGED <<roster, banned, voicing, asking, UntouchedOfMembers, menuVars, painted>>

EntersVoice(u) ==
    /\ tidings = <<>> /\ u \in UsersOf(roster) \ voicing /\ voicing' = voicing \cup {u}
    /\ ToldTab(<<WordOf("occupancy", NoFellow)>>) /\ AskedBefore
    /\ UNCHANGED <<roster, banned, UntouchedOfMembers, reading, snapshotRef, menuVars, painted>>

LeavesVoice(u) ==
    /\ tidings = <<>> /\ u \in voicing /\ voicing' = voicing \ {u}
    /\ ToldTab(LeftVoice(u)) /\ AskedBefore
    /\ UNCHANGED <<roster, banned, UntouchedOfMembers, reading, snapshotRef, menuVars, painted>>

\* The user loses the server.
LosesServer ==
    /\ tidings = <<>> /\ ToldTab(<<WordOf("gone", NoFellow)>>)
    /\ UNCHANGED <<roster, banned, voicing, asking, reading, snapshotRef, UntouchedOfMembers, menuVars, painted>>

\* The action asked for, served or refused.
ServeOperation ==
    /\ operation.phase = "sent" /\ tidings = <<>>
    /\ \/ /\ operation.member \in roster /\ operation.kind = "kick" /\ Ousted(operation.member)
          /\ operation' = [operation EXCEPT !.phase = "served"]
       \/ /\ operation.member \in roster /\ operation.kind = "role" /\ PermissionsOutdated
          /\ ToldTab(<<WordOf("permissions", NoFellow), WordOf("occupancy", NoFellow)>>)
          /\ operation' = [operation EXCEPT !.phase = "served"] /\ UNCHANGED <<roster, banned, voicing, asking>>
       \/ /\ operation' = [operation EXCEPT !.phase = "refused"]
          /\ UNCHANGED <<roster, banned, voicing, asking, tidings, reading, snapshotRef>>
    /\ UNCHANGED <<UntouchedOfMembers, entry, confirmation, painted>>

------------------------------------------------------------
(* invalidate, refresh and their counterparts for the voice channel.       *)

\* The menu goes when rendered next; until then its epoch is a former one.
Former(menu) == [menu EXCEPT !.ok = FALSE, !.data = IF @ = "current" THEN "old" ELSE @]

InvalidateMenu ==
    /\ entry' = Former(entry) /\ confirmation' = Former(confirmation)
    /\ operation' = [operation EXCEPT !.ok = FALSE, !.own = FALSE]

\* The read before is superseded; none is made out of reach.
RefreshMembers(reach) ==
    /\ snapshotRef' = NoReading
    /\ reading' = IF reach THEN FreshReading ELSE NoReading

\* The channel is asked for anew: an answer on its way is dropped.
AsksAnew(reach) == IF reach THEN NotRead ELSE NoFellow

\* queueRefresh, with what is shown until the answer.
QueueRefresh(members) ==
    /\ asking' = AsksAnew(inReach) /\ occupancyCurrent' = "no"
    /\ occupancy' = [members |-> members, ready |-> FALSE]

------------------------------------------------------------
(* What the tab hears and does.                                            *)

\* A removal names no server: it is taken when the last list has a member of that id and user.
RemovalHeard(m) ==
    IF m \in knownMembers
    THEN /\ InvalidateMenu /\ RefreshMembers(inReach) /\ membersShown' = membersShown \ {m} /\ painted' = FALSE
    ELSE /\ reading' = [reading EXCEPT !.missed = @ \/ m \in ReadList(reading)]
         /\ UNCHANGED <<snapshotRef, membersShown, menuVars, painted>>

HearTidings ==
    /\ tidings # <<>> /\ tidings' = Tail(tidings)
    /\ LET word == Head(tidings) IN
       \/ ~scoped /\ UNCHANGED <<scoped, reading, snapshotRef, membersShown, occupancyVars, menuVars, painted>>
       \/ /\ scoped /\ word.kind = "reconcile" /\ InvalidateMenu /\ RefreshMembers(inReach) /\ painted' = FALSE
          /\ UNCHANGED <<scoped, membersShown, occupancyVars>>
       \/ /\ scoped /\ word.kind = "permissions" /\ InvalidateMenu /\ RefreshMembers(inReach) /\ QueueRefresh({})
          /\ painted' = FALSE /\ UNCHANGED <<scoped, membersShown>>
       \/ /\ scoped /\ word.kind = "removed" /\ RemovalHeard(word.of) /\ UNCHANGED <<scoped, occupancyVars>>
       \/ /\ scoped /\ word.kind \in {"left", "occupancy"} /\ painted' = FALSE
          /\ QueueRefresh(occupancy.members \ (IF word.kind = "left" THEN {word.of} ELSE {}))
          /\ UNCHANGED <<scoped, reading, snapshotRef, membersShown, menuVars>>
       \* the page leaves the server
       \/ /\ scoped /\ word.kind = "gone" /\ scoped' = FALSE /\ InvalidateMenu /\ RefreshMembers(FALSE)
          /\ asking' = NoFellow /\ occupancy' = NothingHeard /\ occupancyCurrent' = "no" /\ painted' = FALSE
          /\ UNCHANGED membersShown
    /\ UNCHANGED <<worldFacts, inReach, knownMembers>>

\* The page opens the server or another, or the socket comes or goes: everything begins anew.
BeginsAnew(open, reach) ==
    /\ scoped' = open /\ inReach' = reach /\ InvalidateMenu /\ RefreshMembers(open /\ reach)
    /\ asking' = AsksAnew(open /\ reach) /\ occupancy' = NothingHeard /\ occupancyCurrent' = "no"
    /\ painted' = FALSE /\ UNCHANGED <<worldFacts, knownMembers, membersShown>>
ScopeChanges == BeginsAnew(~scoped, inReach) /\ UNCHANGED tidings
ReachChanges == BeginsAnew(scoped, ~inReach) /\ tidings' = <<>>

\* The lists are answered, or not.
ReadAnswered ==
    /\ reading # NoReading /\ reading' = NoReading /\ painted' = FALSE
    /\ LET list == IF reading.list = NotRead THEN roster ELSE reading.list IN
       \/ /\ snapshotRef' = [reading EXCEPT !.list = list] /\ knownMembers' = list /\ membersShown' = list
       \/ UNCHANGED <<snapshotRef, knownMembers, membersShown>>
    /\ operation' = IF operation.own THEN NoOperation ELSE operation
    /\ UNCHANGED <<worldFacts, tidings, inReach, scoped, occupancyVars, entry, confirmation>>

OccupancyAnswered ==
    /\ asking # NoFellow /\ asking' = NoFellow /\ painted' = FALSE
    /\ \/ /\ occupancy' = [members |-> IF asking = NotRead THEN voicing ELSE asking, ready |-> TRUE]
          /\ occupancyCurrent' = "accepted"
       \/ occupancy' = NothingHeard /\ occupancyCurrent' = "no"
    /\ UNCHANGED <<worldFacts, tidings, inReach, scoped, listVarsOfMembers, menuVars>>

\* What a menu needs to stay: its epoch, the socket, and its member in the channel and in the list.
InChannel(menu) == menu.channel => menu.user \in occupancy.members
StaysOpen(menu) ==
    menu.ok /\ InChannel(menu) /\ (snapshotRef # NoReading => menu.user \in UsersOf(snapshotRef.list))

Paint ==
    /\ ~painted /\ painted' = TRUE
    /\ LET shown == IF entry.ok THEN entry ELSE NoMenu
           asked == IF confirmation.ok THEN confirmation ELSE NoMenu
           context == IF shown # NoMenu THEN shown ELSE asked
       IN
       IF context # NoMenu /\ ~StaysOpen(context)
       THEN /\ entry' = NoMenu /\ confirmation' = NoMenu /\ snapshotRef' = NoReading /\ reading' = NoReading
            /\ operation' = [operation EXCEPT !.ok = FALSE, !.own = FALSE]
       ELSE /\ entry' = IF shown = NoMenu THEN NoMenu
                        ELSE [shown EXCEPT !.data = IF snapshotRef = NoReading THEN "none" ELSE "current"]
            /\ confirmation' = asked /\ UNCHANGED <<operation, snapshotRef, reading>>
    /\ occupancyCurrent' = IF occupancyCurrent = "accepted" THEN "yes" ELSE occupancyCurrent
    /\ UNCHANGED <<worldFacts, tidings, inReach, scoped, knownMembers, membersShown, asking, occupancy>>

\* A menu is opened over a member of the list, or of the voice channel.
OpensMenu(u, origin) ==
    /\ scoped /\ inReach /\ operation = NoOperation
    /\ \/ origin = "member" /\ u \in UsersOf(membersShown)
       \/ origin = "voice" /\ u \in occupancy.members /\ occupancyCurrent = "yes"
    /\ confirmation' = Former(confirmation)
    /\ entry' = [user |-> u, ok |-> TRUE, data |-> "none",
                 channel |-> origin = "voice" \/ (occupancy.ready /\ u \in occupancy.members)]
    /\ RefreshMembers(TRUE) /\ painted' = FALSE
    /\ UNCHANGED <<worldFacts, tidings, inReach, scoped, knownMembers, membersShown, occupancyVars, operation>>

\* dispatchValid
Dispatches(menu) ==
    /\ menu # NoMenu /\ menu.ok /\ inReach /\ menu.data = "current"
    /\ InChannel(menu) /\ (menu.channel => occupancyCurrent = "yes")

StartsOperation(menu, kind) ==
    \E m \in Membership :
        /\ m \in snapshotRef.list /\ FellowOf[m] = menu.user
        /\ operation' = [member |-> m, kind |-> kind, ok |-> TRUE, phase |-> "sent", own |-> FALSE]

Invoke(kind) ==
    /\ Dispatches(entry) /\ entry.user \in UsersOf(snapshotRef.list) /\ entry' = NoMenu
    /\ \/ kind = "kick" /\ confirmation' = entry /\ UNCHANGED operation
       \/ kind = "role" /\ operation = NoOperation /\ StartsOperation(entry, kind) /\ UNCHANGED confirmation
    /\ UNCHANGED <<worldFacts, tidings, inReach, scoped, listVarsOfMembers, occupancyVars, painted>>

ConfirmAction ==
    /\ Dispatches(confirmation) /\ operation = NoOperation /\ StartsOperation(confirmation, "kick")
    /\ UNCHANGED <<worldFacts, tidings, inReach, scoped, listVarsOfMembers, occupancyVars, entry, confirmation,
                   painted>>

ClosesMenu ==
    /\ \/ entry # NoMenu /\ entry' = NoMenu /\ UNCHANGED confirmation
       \/ confirmation # NoMenu /\ operation = NoOperation /\ confirmation' = NoMenu /\ UNCHANGED entry
    /\ UNCHANGED <<worldFacts, tidings, inReach, scoped, listVarsOfMembers, occupancyVars, operation, painted>>

\* The lists are read again.
RetriesMenu ==
    /\ entry # NoMenu /\ entry.ok /\ reading = NoReading /\ snapshotRef = NoReading /\ painted
    /\ RefreshMembers(inReach) /\ painted' = FALSE
    /\ UNCHANGED <<worldFacts, tidings, inReach, scoped, knownMembers, membersShown, occupancyVars, menuVars>>

\* Served in the epoch it was asked in, the action is followed by a read that it waits for.
OperationAnswered ==
    /\ operation.phase \in {"served", "refused"}
    /\ \/ /\ operation.ok /\ operation.phase = "served"
          /\ entry' = Former(entry) /\ confirmation' = Former(confirmation) /\ RefreshMembers(inReach)
          /\ operation' = [operation EXCEPT !.ok = FALSE, !.phase = "refresh", !.own = TRUE] /\ painted' = FALSE
       \/ /\ ~(operation.ok /\ operation.phase = "served")
          /\ operation' = NoOperation /\ UNCHANGED <<entry, confirmation, reading, snapshotRef, painted>>
    /\ UNCHANGED <<worldFacts, tidings, inReach, scoped, knownMembers, membersShown, occupancyVars>>

\* The read it waited for was superseded, and is answered.
OperationEnds ==
    /\ operation.phase = "refresh" /\ (~operation.own \/ reading = NoReading) /\ operation' = NoOperation
    /\ UNCHANGED <<worldFacts, tidings, inReach, scoped, listVarsOfMembers, occupancyVars, entry, confirmation,
                   painted>>

MemberContextNext ==
    \/ \E m \in Membership : FellowJoins(m) \/ FellowLeaves(m) \/ FellowOusted(m) \/ FellowUnbanned(m)
    \/ \E u \in Fellow : EntersVoice(u) \/ LeavesVoice(u) \/ OpensMenu(u, "member") \/ OpensMenu(u, "voice")
    \/ PermissionsChange \/ LosesServer \/ ServeOperation \/ HearTidings
    \/ ScopeChanges \/ ReachChanges
    \/ ReadAnswered \/ OccupancyAnswered \/ Paint \/ Invoke("kick") \/ Invoke("role") \/ ConfirmAction
    \/ ClosesMenu \/ RetriesMenu \/ OperationAnswered \/ OperationEnds

MemberContextSpec == MemberContextInit /\ [][MemberContextNext]_memberVars

------------------------------------------------------------
\* What a tab acts on is as new as all it has heard: when the members or their permissions have
\* changed since, it has yet to hear of it. Not so for a removal of a member it did not know, heard
\* while the list was read, nor for the end of a ban.
ActionsAreInformed ==
    snapshotRef # NoReading => snapshotRef.fresh \/ snapshotRef.missed \/ tidings # <<>>

MembersQuiet ==
    /\ tidings = <<>> /\ reading = NoReading /\ asking = NoFellow /\ operation = NoOperation
    /\ scoped /\ inReach /\ painted

\* When all is answered, the members shown are those of the server and those shown in voice are in
\* voice, unless they could not be read or their read was given up with a menu; and a menu is open
\* only over one who is there.
MembersSettle ==
    MembersQuiet =>
        /\ snapshotRef # NoReading /\ ~snapshotRef.missed => membersShown = roster
        /\ occupancy.ready => occupancy.members = voicing /\ occupancyCurrent = "yes"
        /\ \A menu \in {entry, confirmation} \ {NoMenu} : menu.ok /\ InChannel(menu)
        /\ entry # NoMenu /\ snapshotRef # NoReading => entry.user \in UsersOf(snapshotRef.list)
=============================================================================
