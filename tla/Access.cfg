SPECIFICATION MCSpec
SYMMETRY Symmetry
CONSTANTS
    x1 = x1
    x2 = x2
    y1 = y1
    y2 = y2
    z1 = z1
    z2 = z2
    q1 = q1
    q2 = q2
    boss = boss
    mod = mod
    ann = ann
    everyone = everyone
    modRole = modRole
    \* Invites
    Guest = {x1, x2, boss}
    ServerOwner = boss
    Invite = {y1, y2}
    InviteReq = {z1, z2}
    UseLimit = {1}
    MaxAttempts = 2
    MaxJoins = 2
    NoGuest = NoGuest
    NoInvite = NoInvite
    NoRequest = NoRequest
    \* ChannelAccess
    ServerTables <- SmallServer
    Actor = {boss, mod}
    Channel = {c1}
    Category = {x1, x2}
    Target = {everyone}
    Masks <- SmallMasks
    ChannelReq = {q1, q2}
    ActorOf <- Callers
    NoCategory = NoCategory
    NoChannel = NoChannel
    NoTarget = NoTarget
    \* Roles
    RoleOwner = boss
    RoleMember = {boss, mod, ann}
    Assignee = {mod, ann}
    CustomRole = {x1, x2}
    Everyone = everyone
    EveryoneGrants = {}
    RoleGrants <- SmallGrants
    MaxPosition = 2
    RoleReq = {q1, q2}
    RoleActorOf <- Callers
    NoRole = NoRole
    NoRoleMember = NoRoleMember
    \* ChannelRooms
    RoomUser = {ann}
    RoomSocket = {x1, x2}
    UserOfSocket <- SocketsOfAnn
    Walk = {y1, y2}
    MaxChanges = 3
    NoWalkUser = NoWalkUser
    NoWalkSocket = NoWalkSocket
    \* CredentialRateLimit
    Attempt = {x1, x2, y1}
    REAUTH_LIMIT = 2
    MUTATION_LIMIT = 2
    MaxLifetimes = 3
    \* RequestRateLimit
    LimitedCall = {x1, x2}
    Points = 2
    MaxHits = 3
    MaxStops = 1
    \* AppPage
    PageServer = {boss, mod}
    PageChannel <- TextChannels
    Revocable = {boss}
    NoPageServer = NoPageServer
    NoPageChannel = NoPageChannel
    MaxPageCalls = 1
INVARIANTS
    AccessTypeOK
    InviteUsesCountJoins
    OneDefaultInvite
    NobodyOverhears
    AccessIsShown
    CredentialBudget
    BucketsExpire
PROPERTIES
    DetachPreservesAccess
    GrantCeiling
    SeniorsUntouched
