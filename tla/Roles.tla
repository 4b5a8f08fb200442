------------------------------- MODULE Roles -------------------------------
(***************************************************************************)
(* RoleService: the roles of one server, who has them and in which order   *)
(* they rank. Members come and go in Invites; here they stay.              *)
(*                                                                         *)
(* A request makes its reads and checks in one step and writes in a later  *)
(* one; `fresh` tells whether nobody else has written in between.          *)
(***************************************************************************)
EXTENDS Permissions

CONSTANTS
    RoleOwner,      \* the owner of the server
    RoleMember,     \* its members, the owner among them
    Assignee,       \* bound: the members whose roles change
    CustomRole,     \* ids of roles other than @everyone
    Everyone,       \* the default role
    EveryoneGrants, \* its permissions
    RoleGrants,     \* the permissions that requests ask for a role
    MaxPosition,    \* bound: the highest position
    RoleReq,        \* requests in flight at once
    RoleActorOf,    \* the caller of a request
    NoRole, NoRoleMember

ASSUME RoleAssumption ==
    /\ RoleOwner \in RoleMember /\ Assignee \subseteq RoleMember
    /\ NoRoleMember \notin RoleMember
    /\ Everyone \notin CustomRole /\ NoRole \notin CustomRole \cup {Everyone}
    /\ RoleGrants \subseteq SUBSET ALL_SERVER_PERMISSIONS
    /\ EveryoneGrants \subseteq ALL_SERVER_PERMISSIONS
    /\ IsFiniteSet(CustomRole) /\ Cardinality(CustomRole) <= MaxPosition
    /\ MaxPosition \in Nat /\ RoleActorOf \in [RoleReq -> RoleMember]

VARIABLES
    roleLive,      \* ids of the custom roles that exist
    rolePosition, roleGrants,
    assigned,      \* MemberRole: the custom roles of each member
    roleReq

roleVars == <<roleLive, rolePosition, roleGrants, assigned, roleReq>>
roleTables == <<roleLive, rolePosition, roleGrants, assigned>>

AnyRole == CustomRole \cup {Everyone}

NoOrder == <<>>
Orders(S) == {f \in [1..Cardinality(S) -> S] : \A i, j \in DOMAIN f : f[i] = f[j] => i = j}

\* order is the list of a reorder, bits the permissions of a create or update.
RoleRequest ==
    [op : {"none", "create", "update", "delete", "assign", "unassign", "reorder"},
     role : AnyRole \cup {NoRole}, member : RoleMember \cup {NoRoleMember},
     position : 0..MaxPosition, bits : SUBSET ALL_SERVER_PERMISSIONS,
     order : UNION {Orders(S) : S \in SUBSET CustomRole}, fresh : BOOLEAN]

NoRoleRequest ==
    [op |-> "none", role |-> NoRole, member |-> NoRoleMember, position |-> 0,
     bits |-> {}, order |-> NoOrder, fresh |-> TRUE]

RoleTypeOK ==
    /\ roleLive \subseteq CustomRole
    /\ rolePosition \in [AnyRole -> 0..MaxPosition]
    /\ roleGrants \in [AnyRole -> RoleGrants \cup {{}, EveryoneGrants}]
    /\ assigned \in [RoleMember -> SUBSET CustomRole]
    /\ \A q \in RoleReq : roleReq[q].op \in {"none", "create", "update", "delete", "assign",
                                             "unassign", "reorder"}

RoleInit ==
    /\ roleLive = {}
    /\ rolePosition = [r \in AnyRole |-> 0]
    /\ roleGrants = [r \in AnyRole |-> IF r = Everyone THEN EveryoneGrants ELSE {}]
    /\ assigned = [u \in RoleMember |-> {}]
    /\ roleReq = [q \in RoleReq |-> NoRoleRequest]

Tables ==
    [owner |-> RoleOwner, members |-> RoleMember, banned |-> {}, assigned |-> assigned,
     everyone |-> Everyone, grants |-> roleGrants, position |-> rolePosition]

Rank(u) == HighestPosition(Tables, u, FALSE)

------------------------------------------------------------
(* Requests                                                                *)

Idle(q) == roleReq[q].op = "none"

Started(q, r) ==
    /\ roleReq' = [roleReq EXCEPT ![q] = r]
    /\ UNCHANGED roleTables

\* A write makes what every other request has read out of date.
Written(q) ==
    roleReq' = [p \in RoleReq |->
        IF p = q \/ Idle(p) THEN NoRoleRequest ELSE [roleReq[p] EXCEPT !.fresh = FALSE]]

MayManage(a, r) == CanManageRole(Tables, a, r)
MayGrant(a, bits) == CanGrantPermissions(Tables, a, bits)

\* Without a position in the request: above all others for the owner, just below
\* its highest role for anybody else.
DefaultPosition(a) ==
    IF a = RoleOwner
    THEN CHOOSE p \in 1..MaxPosition + 1 :
             /\ \A r \in roleLive : rolePosition[r] < p
             /\ p = 1 \/ \E r \in roleLive : rolePosition[r] = p - 1
    ELSE IF Rank(a) > 2 THEN Rank(a) - 1 ELSE 1

\* No role and no request refers to r.
FreeRoleId(r) ==
    /\ r \notin roleLive
    /\ \A q \in RoleReq : roleReq[q].role # r /\ \A i \in DOMAIN roleReq[q].order : roleReq[q].order[i] # r

StartCreate(q, r, bits) ==
    LET a == RoleActorOf[q] IN
    /\ Idle(q) /\ FreeRoleId(r) /\ MayGrant(a, bits)
    /\ \E p \in 1..MaxPosition \cup {DefaultPosition(a)} :
           /\ p <= MaxPosition /\ CanPlaceRole(Tables, a, p)
           /\ Started(q, [NoRoleRequest EXCEPT !.op = "create", !.role = r, !.position = p, !.bits = bits])

StartUpdate(q, r, bits) ==
    LET a == RoleActorOf[q] IN
    /\ Idle(q) /\ r \in roleLive \cup {Everyone}
    /\ MayManage(a, r) /\ MayGrant(a, bits \ roleGrants[r])
    /\ Started(q, [NoRoleRequest EXCEPT !.op = "update", !.role = r, !.bits = bits])

StartDelete(q, r) ==
    /\ Idle(q) /\ r \in roleLive /\ MayManage(RoleActorOf[q], r)
    /\ Started(q, [NoRoleRequest EXCEPT !.op = "delete", !.role = r])

\* What assignToMember and removeFromMember both ask for.
MayChangeMember(a, u, r) == MayManage(a, r) /\ CanManageMember(Tables, a, u, "MANAGE_ROLES")

StartAssign(q, u, r) ==
    LET a == RoleActorOf[q] IN
    /\ Idle(q) /\ r \in roleLive /\ r \notin assigned[u]
    /\ MayChangeMember(a, u, r) /\ MayGrant(a, roleGrants[r])
    /\ Started(q, [NoRoleRequest EXCEPT !.op = "assign", !.role = r, !.member = u])

StartUnassign(q, u, r) ==
    /\ Idle(q) /\ r \in roleLive /\ MayChangeMember(RoleActorOf[q], u, r)
    /\ Started(q, [NoRoleRequest EXCEPT !.op = "unassign", !.role = r, !.member = u])

\* The roles as the query lists them, highest first; how it breaks ties, by
\* creation, is left open.
Listed(order) == \A i, j \in DOMAIN order : i < j => rolePosition[order[i]] >= rolePosition[order[j]]

\* Plausible bug: the roles at the bottom are the ones that must stay.
KeepsJuniorRoles(a, listed, order) ==
    \A i \in DOMAIN order : rolePosition[listed[i]] < Rank(a) => order[i] = listed[i]

\* Equal and higher roles stay at their places in the list.
KeepsSeniorRoles(a, listed, order) ==
    \A i \in DOMAIN order : rolePosition[listed[i]] >= Rank(a) => order[i] = listed[i]

StartReorder(q) ==
    LET a == RoleActorOf[q] IN
    /\ Idle(q) /\ HasServerPermission(Tables, a, {"MANAGE_ROLES"})
    /\ \E listed, order \in Orders(roleLive) :
           /\ Listed(listed)
           /\ a = RoleOwner \/ KeepsSeniorRoles(a, listed, order)
           /\ Started(q, [NoRoleRequest EXCEPT !.op = "reorder", !.order = order])

------------------------------------------------------------
(* Writes                                                                  *)

WriteCreate(q) ==
    LET req == roleReq[q] IN
    /\ req.op = "create"
    /\ roleLive' = roleLive \cup {req.role}
    /\ rolePosition' = [rolePosition EXCEPT ![req.role] = req.position]
    /\ roleGrants' = [roleGrants EXCEPT ![req.role] = req.bits]
    /\ Written(q)
    /\ UNCHANGED assigned

WriteUpdate(q) ==
    LET req == roleReq[q] IN
    /\ req.op = "update" /\ req.role \in roleLive \cup {Everyone}
    /\ roleGrants' = [roleGrants EXCEPT ![req.role] = req.bits]
    /\ Written(q)
    /\ UNCHANGED <<roleLive, rolePosition, assigned>>

\* The rows of MemberRole go with the role.
WriteDelete(q) ==
    LET r == roleReq[q].role IN
    /\ roleReq[q].op = "delete" /\ r \in roleLive
    /\ roleLive' = roleLive \ {r}
    /\ rolePosition' = [rolePosition EXCEPT ![r] = 0]
    /\ roleGrants' = [roleGrants EXCEPT ![r] = {}]
    /\ assigned' = [u \in RoleMember |-> assigned[u] \ {r}]
    /\ Written(q)

WriteMember(q) ==
    LET req == roleReq[q] IN
    /\ req.op \in {"assign", "unassign"} /\ req.role \in roleLive
    /\ assigned' = [assigned EXCEPT ![req.member] =
           IF req.op = "assign" THEN @ \cup {req.role} ELSE @ \ {req.role}]
    /\ Written(q)
    /\ UNCHANGED <<roleLive, rolePosition, roleGrants>>

\* One batch; a listed role that is gone by now rolls all of it back.
WriteReorder(q) ==
    LET order == roleReq[q].order IN
    /\ roleReq[q].op = "reorder"
    /\ \A i \in DOMAIN order : order[i] \in roleLive
    /\ rolePosition' = [r \in AnyRole |->
           IF \E i \in DOMAIN order : order[i] = r
           THEN Len(order) + 1 - CHOOSE i \in DOMAIN order : order[i] = r
           ELSE IF r = Everyone THEN 0 ELSE rolePosition[r]]
    /\ Written(q)
    /\ UNCHANGED <<roleLive, roleGrants, assigned>>

\* The row to write is gone.
RoleRequestFails(q) ==
    LET req == roleReq[q] IN
    /\ ~Idle(q) /\ req.op # "create"
    /\ \/ req.role \notin roleLive \cup {Everyone, NoRole}
       \/ \E i \in DOMAIN req.order : req.order[i] \notin roleLive
    /\ roleReq' = [roleReq EXCEPT ![q] = NoRoleRequest]
    /\ UNCHANGED roleTables

RoleNext ==
    \E q \in RoleReq :
        \/ \E r \in CustomRole, bits \in RoleGrants : StartCreate(q, r, bits)
        \/ \E r \in AnyRole, bits \in RoleGrants : StartUpdate(q, r, bits)
        \/ \E r \in CustomRole : StartDelete(q, r)
        \/ \E r \in CustomRole, u \in Assignee : StartAssign(q, u, r) \/ StartUnassign(q, u, r)
        \/ StartReorder(q)
        \/ WriteCreate(q)
        \/ WriteUpdate(q) \/ WriteDelete(q) \/ WriteMember(q) \/ WriteReorder(q)
        \/ RoleRequestFails(q)

RoleSpec == RoleInit /\ [][RoleNext]_roleVars

------------------------------------------------------------
(* Properties                                                              *)

Writes(q) == ~Idle(q) /\ roleReq'[q].op = "none" /\ roleReq[q].fresh

\* What a member that is not the owner writes on an up-to-date reading leaves all
\* that is senior to it alone: the roles above its own stay above it, with their
\* permissions and their members; the owner and whoever ranks no lower than it
\* keep their roles and get no other, unless a role is deleted; and nobody gains
\* a permission that the writer does not have.
SeniorsUntouched ==
    [][\A q \in RoleReq :
           LET a == RoleActorOf[q] IN
           (Writes(q) /\ a # RoleOwner) =>
               /\ \A r \in roleLive : rolePosition[r] > Rank(a) =>
                      /\ r \in roleLive' /\ rolePosition'[r] > Rank(a)'
                      /\ roleGrants'[r] = roleGrants[r]
                      /\ \A u \in RoleMember : (r \in assigned'[u]) = (r \in assigned[u])
               /\ \A u \in RoleMember \ {a} : (u = RoleOwner \/ Rank(u) >= Rank(a)) =>
                      assigned'[u] = assigned[u] \cap roleLive'
               /\ \A u \in RoleMember :
                      ServerPermissions(Tables, u)' \ ServerPermissions(Tables, u)
                          \subseteq ServerPermissions(Tables, a)]_roleVars
=============================================================================
