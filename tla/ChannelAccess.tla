--------------------------- MODULE ChannelAccess ---------------------------
(***************************************************************************)
(* ChannelService: channels, categories and their permission overwrites in *)
(* one server. A synced channel is governed by its category's overwrites,  *)
(* any other by its own. The server's roles and members stand still here;  *)
(* Roles changes them.                                                     *)
(*                                                                         *)
(* A request reads its channel or category row, checks its authority and   *)
(* reads the overwrite it replaces in one step, and writes in a later one, *)
(* a serializable transaction where the code has one.                      *)
(***************************************************************************)
EXTENDS Permissions

CONSTANTS
    ServerTables,    \* the tables Permissions reads
    Actor,           \* members who call ChannelService
    ActorOf,         \* the caller of a request
    Channel, Category,
    Target,          \* roles and members that overwrites name in the instance
    Masks,           \* the allow and deny masks that requests carry
    ChannelReq,      \* requests in flight at once
    NoCategory, NoChannel, NoTarget

AllTargets == DOMAIN ServerTables.grants \cup ServerTables.members

\* An upsert of two empty masks leaves a row that changes nothing; requests
\* carry at least one bit, so that NoMasks is the absence of a row. The roles of
\* the tables are the server's; channels and categories have ids of their own. The
\* masks of a private channel are some that a request may carry.
ASSUME ChannelAccessAssumption ==
    /\ ServerTables.everyone \in DOMAIN ServerTables.grants
    /\ \A u \in ServerTables.members : ServerTables.assigned[u] \subseteq DOMAIN ServerTables.grants
    /\ Channel \cap Category = {}
    /\ Target \subseteq AllTargets /\ Actor \subseteq ServerTables.members
    /\ ActorOf \in [ChannelReq -> Actor]
    /\ \A masks \in Masks : ValidMasks(masks) /\ masks # NoMasks
    /\ [allow |-> {}, deny |-> {"VIEW_CHANNEL"}] \in Masks
    /\ NoCategory \notin Category /\ NoChannel \notin Channel
    /\ NoTarget \notin AllTargets

VARIABLES
    channelRow,     \* the Channel rows
    categories,     \* the ChannelCategory rows
    overwriteRows,  \* the overwrites of every channel and category
    channelReq      \* requests in flight

channelVars == <<channelRow, categories, overwriteRows, channelReq>>

Place == Channel \cup Category

ChannelRow ==
    [live : BOOLEAN, category : Category \cup {NoCategory}, permissionsSynced : BOOLEAN]
NoChannelRow == [live |-> FALSE, category |-> NoCategory, permissionsSynced |-> FALSE]

\* row, was: what the request read. place: the channel or category it is about.
ChannelRequest ==
    [op : {"none", "upsert", "remove", "move", "sync", "unsync"},
     place : Place \cup {NoChannel},
     to : Category \cup {NoCategory}, target : Target \cup {NoTarget},
     masks : Masks \cup {NoMasks}, was : Masks \cup {NoMasks}, row : ChannelRow]

NoChannelRequest ==
    [op |-> "none", place |-> NoChannel, to |-> NoCategory,
     target |-> NoTarget, masks |-> NoMasks, was |-> NoMasks, row |-> NoChannelRow]

ChannelTypeOK ==
    /\ channelRow \in [Channel -> ChannelRow]
    /\ categories \subseteq Category
    /\ overwriteRows \in [Place -> [AllTargets -> Masks \cup {NoMasks}]]
    /\ channelReq \in [ChannelReq -> ChannelRequest]

NoOverwrites == [t \in AllTargets |-> NoMasks]

ChannelInit ==
    /\ channelRow = [c \in Channel |-> NoChannelRow]
    /\ categories = Category
    /\ overwriteRows = [p \in Place |-> NoOverwrites]
    /\ channelReq = [q \in ChannelReq |-> NoChannelRequest]

------------------------------------------------------------
(* Resolution                                                              *)

CategoryIsSource(row) == row.permissionsSynced /\ row.category # NoCategory

OverwriteSource(c) ==
    IF CategoryIsSource(channelRow[c]) THEN channelRow[c].category ELSE c

Effective(c, u) == ChannelPermissions(ServerTables, overwriteRows[OverwriteSource(c)], u)

Can(a, bit) == HasServerPermission(ServerTables, a, {bit})

CanManageChannel(c, a) == {"VIEW_CHANNEL", "MANAGE_CHANNELS"} \subseteq Effective(c, a)

CanAdministerPermissions(c, a) == Can(a, "MANAGE_ROLES") /\ "VIEW_CHANNEL" \in Effective(c, a)

CanAdministerTarget(a, t) ==
    IF t \in ServerTables.members
    THEN CanManageMember(ServerTables, a, t, "MANAGE_ROLES")
    ELSE CanManageRole(ServerTables, a, t)

\* assertCanApplyOverwriteSourceTransition
CanChangeSource(a, current, next) ==
    LET changed == {t \in AllTargets : current[t] # next[t]} IN
    /\ \A t \in changed : CanAdministerTarget(a, t)
    /\ CanGrantPermissions(ServerTables, a,
           UNION {PotentiallyGrantedBits(current[t], next[t]) : t \in changed})

------------------------------------------------------------
(* Requests that one step completes                                        *)

Finish(q) == channelReq' = [channelReq EXCEPT ![q] = NoChannelRequest]

ChannelUnused(c) == \A q \in ChannelReq : channelReq[q].place # c

\* Plausible bug: the grant of the chosen targets put on @everyone's row.
PrivateGrants == [allow |-> {"VIEW_CHANNEL"}, deny |-> {"VIEW_CHANNEL"}]

\* A private channel denies VIEW_CHANNEL to @everyone; the rows that allow chosen
\* roles and members to see it are as after the same number of upserts.
PrivateMasks == [allow |-> {}, deny |-> {"VIEW_CHANNEL"}]

CreateChannel(a, c, k, private) ==
    /\ ~channelRow[c].live /\ ChannelUnused(c)
    /\ Can(a, "MANAGE_CHANNELS")
    /\ k \in categories \cup {NoCategory}
    /\ private => /\ CanGrantPermissions(ServerTables, a, {"VIEW_CHANNEL"})
                  /\ CanManageRole(ServerTables, a, ServerTables.everyone)
    /\ channelRow' = [channelRow EXCEPT ![c] =
           [live |-> TRUE, category |-> k,
            permissionsSynced |-> ~private /\ k # NoCategory]]
    /\ overwriteRows' = [overwriteRows EXCEPT ![c] =
           IF private THEN [NoOverwrites EXCEPT ![ServerTables.everyone] = PrivateMasks]
           ELSE NoOverwrites]
    /\ UNCHANGED <<categories, channelReq>>

DeleteChannel(a, c) ==
    /\ channelRow[c].live /\ CanManageChannel(c, a)
    /\ channelRow' = [channelRow EXCEPT ![c] = NoChannelRow]
    /\ overwriteRows' = [overwriteRows EXCEPT ![c] = NoOverwrites]
    /\ UNCHANGED <<categories, channelReq>>

CreateCategory(a, k) ==
    /\ k \notin categories /\ Can(a, "MANAGE_CHANNELS")
    /\ \A q \in ChannelReq : channelReq[q].place # k /\ channelReq[q].to # k
                             /\ channelReq[q].row.category # k
    /\ categories' = categories \cup {k}
    /\ UNCHANGED <<channelRow, overwriteRows, channelReq>>

\* One transaction copies the category's overwrites to its synced channels.
DeleteCategory(a, k) ==
    LET in == {c \in Channel : channelRow[c].category = k}
        synced == {c \in in : channelRow[c].permissionsSynced} IN
    /\ k \in categories /\ Can(a, "MANAGE_CHANNELS")
    /\ categories' = categories \ {k}
    /\ channelRow' = [c \in Channel |->
           IF c \in in THEN [channelRow[c] EXCEPT !.category = NoCategory,
                                                  !.permissionsSynced = FALSE]
           ELSE channelRow[c]]
    /\ overwriteRows' = [p \in Place |->
           IF p = k THEN NoOverwrites
           ELSE IF p \in synced THEN overwriteRows[k] ELSE overwriteRows[p]]
    /\ UNCHANGED channelReq

------------------------------------------------------------
(* Overwrites                                                              *)

Free(q) == channelReq[q].op = "none"

Begin(q, r) ==
    /\ channelReq' = [channelReq EXCEPT ![q] = r]
    /\ UNCHANGED <<channelRow, categories, overwriteRows>>

\* Whether a may edit the overwrites kept at place p.
MayEdit(a, p) ==
    IF p \in Channel
    THEN channelRow[p].live /\ CanAdministerPermissions(p, a) /\ ~channelRow[p].permissionsSynced
    ELSE p \in categories /\ Can(a, "MANAGE_ROLES")

EditOverwrite(q, p, t, op, masks) ==
    LET was == overwriteRows[p][t]
        a == ActorOf[q] IN
    /\ Free(q)
    /\ op = "remove" => masks = NoMasks /\ was # NoMasks
    /\ MayEdit(a, p) /\ CanAdministerTarget(a, t)
    /\ CanGrantPermissions(ServerTables, a, PotentiallyGrantedBits(was, masks))
    /\ Begin(q, [NoChannelRequest EXCEPT !.op = op, !.place = p, !.target = t,
                                         !.masks = masks, !.was = was])

\* An update or delete by the id of a row that is gone fails, and so does the
\* insert of a row that has come to exist.
WriteOverwrite(q) ==
    LET r == channelReq[q]
        there == r.place \in categories \/ (r.place \in Channel /\ channelRow[r.place].live)
    IN
    /\ r.op \in {"upsert", "remove"}
    /\ overwriteRows' =
           IF there /\ ((r.was = NoMasks) <=> (overwriteRows[r.place][r.target] = NoMasks))
           THEN [overwriteRows EXCEPT ![r.place][r.target] = r.masks]
           ELSE overwriteRows
    /\ Finish(q)
    /\ UNCHANGED <<channelRow, categories>>

------------------------------------------------------------
(* Moves and synchronisation                                               *)

LeavesSource(row, to) == CategoryIsSource(row) /\ to # row.category

StartMove(q, c, to) ==
    LET a == ActorOf[q] IN
    /\ Free(q) /\ channelRow[c].live /\ CanManageChannel(c, a)
    /\ to \in categories \cup {NoCategory}
    /\ LeavesSource(channelRow[c], to) /\ to # NoCategory => CanAdministerPermissions(c, a)
    /\ Begin(q, [NoChannelRequest EXCEPT !.op = "move", !.place = c, !.to = to,
                                         !.row = channelRow[c]])

StartSync(q, c, op) ==
    LET a == ActorOf[q] IN
    /\ Free(q) /\ channelRow[c].live /\ CanAdministerPermissions(c, a)
    /\ channelRow[c].category # NoCategory
    /\ channelRow[c].permissionsSynced = (op = "unsync")
    /\ Begin(q, [NoChannelRequest EXCEPT !.op = op, !.place = c,
                                         !.row = channelRow[c]])

\* Plausible bug: the copy is added to whatever rows the channel still has.
CopyAdded(k, local) ==
    [t \in AllTargets |-> IF overwriteRows[k][t] = NoMasks THEN local[t] ELSE overwriteRows[k][t]]

\* The channel's rows after they were replaced by a copy of category k's.
Copied(k, local) == overwriteRows[k]

\* Plausible bug: the table without its constraint.
AnyRow(row) == TRUE

\* channels_permissions_synced_requires_category: the database refuses a synced
\* channel without a category.
RowAllowed(row) == row.permissionsSynced => row.category # NoCategory

\* The transaction uses the row the request read, but reads overwrites afresh.
CommitMove(q) ==
    LET r == channelReq[q]
        c == r.place IN
    /\ r.op = "move" /\ channelRow[c].live /\ r.to \in categories \cup {NoCategory}
    /\ LeavesSource(r.row, r.to) /\ r.to # NoCategory =>
           CanChangeSource(ActorOf[q], overwriteRows[r.row.category], overwriteRows[r.to])
    /\ overwriteRows' =
           IF LeavesSource(r.row, r.to) /\ r.to = NoCategory
           THEN [overwriteRows EXCEPT ![c] = Copied(r.row.category, @)] ELSE overwriteRows
    /\ channelRow' = [channelRow EXCEPT
           ![c].category = r.to,
           ![c].permissionsSynced = r.to # NoCategory /\ r.row.permissionsSynced]
    /\ Finish(q)
    /\ UNCHANGED categories

CommitSync(q) ==
    LET r == channelReq[q]
        c == r.place IN
    /\ r.op = "sync" /\ channelRow[c].live
    /\ RowAllowed([channelRow[c] EXCEPT !.permissionsSynced = TRUE])
    /\ CanChangeSource(ActorOf[q], overwriteRows[c], overwriteRows[r.row.category])
    /\ overwriteRows' = [overwriteRows EXCEPT ![c] = NoOverwrites]
    /\ channelRow' = [channelRow EXCEPT ![c].permissionsSynced = TRUE]
    /\ Finish(q)
    /\ UNCHANGED categories

CommitUnsync(q) ==
    LET r == channelReq[q]
        c == r.place IN
    /\ r.op = "unsync" /\ channelRow[c].live
    /\ overwriteRows' = [overwriteRows EXCEPT ![c] = Copied(r.row.category, @)]
    /\ channelRow' = [channelRow EXCEPT ![c].permissionsSynced = FALSE]
    /\ Finish(q)
    /\ UNCHANGED categories

\* A transaction that fails, by its checks, a serialization failure or a row
\* that is gone, changes nothing.
CommitFails(q) ==
    /\ channelReq[q].op \in {"move", "sync", "unsync"}
    /\ Finish(q)
    /\ UNCHANGED <<channelRow, categories, overwriteRows>>

ChannelNext ==
    \/ \E a \in Actor, c \in Channel :
           \/ \E k \in Category \cup {NoCategory}, private \in BOOLEAN :
                  CreateChannel(a, c, k, private)
           \/ DeleteChannel(a, c)
    \/ \E a \in Actor, k \in Category : CreateCategory(a, k) \/ DeleteCategory(a, k)
    \/ \E q \in ChannelReq, p \in Place, t \in Target :
           \/ \E masks \in Masks : EditOverwrite(q, p, t, "upsert", masks)
           \/ EditOverwrite(q, p, t, "remove", NoMasks)
    \/ \E q \in ChannelReq, c \in Channel :
           \/ \E to \in Category \cup {NoCategory} : StartMove(q, c, to)
           \/ \E op \in {"sync", "unsync"} : StartSync(q, c, op)
    \/ \E q \in ChannelReq :
           WriteOverwrite(q) \/ CommitMove(q) \/ CommitSync(q) \/ CommitUnsync(q) \/ CommitFails(q)

ChannelSpec == ChannelInit /\ [][ChannelNext]_channelVars

------------------------------------------------------------
(* Properties                                                              *)

Ends(q) == channelReq[q].op # "none" /\ channelReq'[q].op = "none"

\* What request q read is still so: nobody changed it while q was in flight.
UpToDate(q) ==
    LET r == channelReq[q] IN
    IF r.op \in {"upsert", "remove"} THEN overwriteRows[r.place][r.target] = r.was
    ELSE channelRow[r.place] = r.row

\* A channel that stops being governed by its category (unsync, a move out of
\* it, the category's deletion) keeps everybody's effective permissions, even if
\* it has local rows left over from a request that lost a race: unless the step
\* belongs to a request that acts on a row somebody else has changed since.
DetachPreservesAccess ==
    [][\A c \in Channel :
           (/\ CategoryIsSource(channelRow[c])
            /\ channelRow'[c].live /\ ~CategoryIsSource(channelRow'[c])
            /\ \A q \in ChannelReq : Ends(q) => UpToDate(q))
           => \A u \in ServerTables.members : Effective(c, u)' = Effective(c, u)]_channelVars

\* Whatever a member changes about overwrites, nobody gains a channel permission
\* that this member does not have in the server: again for requests that act on
\* what still is so.
GrantCeiling ==
    [][\A q \in ChannelReq, c \in Channel :
           (Ends(q) /\ UpToDate(q) /\ channelRow[c].live /\ channelRow'[c].live)
           => \A u \in ServerTables.members :
                  Effective(c, u)' \ Effective(c, u)
                      \subseteq ServerPermissions(ServerTables, ActorOf[q])]_channelVars
=============================================================================
