---------------------------- MODULE Permissions ----------------------------
(***************************************************************************)
(* PermissionService: what a user may do in a server and in one of its     *)
(* channels, and whom it may manage. A permission mask is the set of the   *)
(* permissions whose bits are set. The operators read the tables of one    *)
(* server, given as a record:                                              *)
(*   owner     the server's ownerId                                        *)
(*   members   users with a Member row, banned those with isBanned         *)
(*   assigned  the roles of a member, without @everyone                    *)
(*   everyone  the default role                                            *)
(*   grants    a role's permissions, position its position                 *)
(* Every role of the record belongs to the server, and none but `everyone` *)
(* is a default role.                                                      *)
(***************************************************************************)
EXTENDS Integers, Sequences, FiniteSets

CHANNEL_OVERRIDE_PERMISSION_MASK ==
    {"MANAGE_CHANNELS", "SEND_MESSAGES", "MANAGE_MESSAGES", "ATTACH_FILES",
     "VIEW_CHANNEL", "CONNECT", "SPEAK", "READ_MESSAGE_HISTORY", "STREAM"}

ALL_SERVER_PERMISSIONS ==
    CHANNEL_OVERRIDE_PERMISSION_MASK \cup
    {"ADMINISTRATOR", "MANAGE_SERVER", "MANAGE_ROLES", "KICK_MEMBERS", "BAN_MEMBERS",
     "CREATE_INVITE", "MUTE_MEMBERS", "DEAFEN_MEMBERS", "MOVE_MEMBERS"}

IsOwner(sv, u) == u = sv.owner
IsActiveMember(sv, u) == u \in sv.members \ sv.banned
CanAccessServer(sv, u) == IsOwner(sv, u) \/ IsActiveMember(sv, u)

MemberPermissions(sv, u) ==
    sv.grants[sv.everyone] \cup UNION {sv.grants[r] : r \in sv.assigned[u]}

ServerPermissions(sv, u) ==
    IF IsOwner(sv, u) THEN ALL_SERVER_PERMISSIONS
    ELSE IF ~IsActiveMember(sv, u) THEN {}
    ELSE IF "ADMINISTRATOR" \in MemberPermissions(sv, u) THEN ALL_SERVER_PERMISSIONS
    ELSE MemberPermissions(sv, u) \cap ALL_SERVER_PERMISSIONS

HasServerPermission(sv, u, bits) == bits \subseteq ServerPermissions(sv, u)

------------------------------------------------------------
(* Channel permissions. An overwrite set maps every role and member of the *)
(* server to the bits it allows and denies; no overwrite does neither.     *)

NoMasks == [allow |-> {}, deny |-> {}]

\* assertValidChannelOverwriteMasks
ValidMasks(masks) ==
    /\ masks.allow \cup masks.deny \subseteq CHANNEL_OVERRIDE_PERMISSION_MASK
    /\ masks.allow \cap masks.deny = {}

ApplyOverwrite(bits, masks) ==
    LET deny == masks.deny \cap CHANNEL_OVERRIDE_PERMISSION_MASK
        allow == masks.allow \cap CHANNEL_OVERRIDE_PERMISSION_MASK
    IN (bits \ deny) \cup (allow \ deny)

\* Denials of all roles first, then their allowances.
ApplyRoles(bits, overwrites, roles) ==
    LET deny == (UNION {overwrites[r].deny : r \in roles}) \cap CHANNEL_OVERRIDE_PERMISSION_MASK
        allow == (UNION {overwrites[r].allow : r \in roles}) \cap CHANNEL_OVERRIDE_PERMISSION_MASK
    IN (bits \ deny) \cup allow

ChannelPermissions(sv, overwrites, u) ==
    LET base == ServerPermissions(sv, u) IN
    IF ~CanAccessServer(sv, u) \/ IsOwner(sv, u) \/ "ADMINISTRATOR" \in base
    THEN base
    ELSE ApplyOverwrite(ApplyRoles(ApplyOverwrite(base, overwrites[sv.everyone]),
                                   overwrites, sv.assigned[u]),
                        overwrites[u])

\* The bits somebody may gain when `next` replaces `current`.
PotentiallyGrantedBits(current, next) ==
    (next.allow \ current.allow) \cup (current.deny \ next.deny)

------------------------------------------------------------
(* Hierarchy                                                               *)

NoPosition == -1

\* getHighestRoleForUser: ties in position do not matter to its callers.
HighestPosition(sv, u, includeBanned) ==
    IF u \notin sv.members \/ (u \in sv.banned /\ ~includeBanned) THEN NoPosition
    ELSE CHOOSE p \in {sv.position[r] : r \in sv.assigned[u] \cup {sv.everyone}} :
             \A r \in sv.assigned[u] \cup {sv.everyone} : sv.position[r] <= p

CanManageRole(sv, actor, role) ==
    /\ HasServerPermission(sv, actor, {"MANAGE_ROLES"})
    /\ \/ IsOwner(sv, actor)
       \/ /\ HighestPosition(sv, actor, FALSE) # NoPosition
          /\ HighestPosition(sv, actor, FALSE) > sv.position[role]

CanPlaceRole(sv, actor, position) ==
    /\ HasServerPermission(sv, actor, {"MANAGE_ROLES"})
    /\ IsOwner(sv, actor) \/ position < HighestPosition(sv, actor, FALSE)

CanGrantPermissions(sv, actor, bits) ==
    /\ bits \subseteq ALL_SERVER_PERMISSIONS
    /\ HasServerPermission(sv, actor, {"MANAGE_ROLES"})
    /\ IsOwner(sv, actor) \/ bits \subseteq ServerPermissions(sv, actor)

CanManageMember(sv, actor, target, bit) ==
    /\ HasServerPermission(sv, actor, {bit})
    /\ IF IsOwner(sv, target) THEN IsOwner(sv, actor) /\ bit = "MANAGE_ROLES"
       ELSE \/ IsOwner(sv, actor)
            \/ /\ actor # target
               /\ HighestPosition(sv, actor, FALSE) # NoPosition
               /\ HighestPosition(sv, target, TRUE) # NoPosition
               /\ HighestPosition(sv, actor, FALSE) > HighestPosition(sv, target, TRUE)
=============================================================================
