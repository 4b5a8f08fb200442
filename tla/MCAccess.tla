------------------------------ MODULE MCAccess ------------------------------
(***************************************************************************)
(* Small instances of what decides who may do what: invites, channels and  *)
(* their overwrites, roles, the rooms of the gateway and the rate limits,  *)
(* and of the page that shows it. They share no variable, so the run       *)
(* explores one of them per behaviour.                                     *)
(***************************************************************************)
EXTENDS Invites, ChannelAccess, Roles, ChannelRooms, CredentialRateLimit, RequestRateLimit,
        AppPage, TLC

\* x1 and x2 stand for two of a kind that may be exchanged: guests, categories,
\* roles, sockets or requests; so do z1 and z2, requests for invites.
CONSTANTS x1, x2, y1, y2, z1, z2, q1, q2, boss, mod, ann, everyone, modRole

VARIABLE focus

SmallServer ==
    [owner |-> boss, members |-> {boss, mod, ann}, banned |-> {},
     assigned |-> boss :> {} @@ mod :> {modRole} @@ ann :> {},
     everyone |-> everyone,
     grants |-> everyone :> {"VIEW_CHANNEL"} @@ modRole :> {"MANAGE_ROLES", "MANAGE_CHANNELS"},
     position |-> everyone :> 0 @@ modRole :> 1]
SmallMasks == {[allow |-> {}, deny |-> {"VIEW_CHANNEL"}], [allow |-> {"SEND_MESSAGES"}, deny |-> {}]}
SmallGrants == {{"MANAGE_ROLES"}, {"MANAGE_ROLES", "KICK_MEMBERS"}}
Callers == q1 :> mod @@ q2 :> boss
TextChannels == {<<boss, y1>>}
SocketsOfAnn == x1 :> ann @@ x2 :> ann

Components ==
    {"Invites", "ChannelAccess", "Roles", "ChannelRooms", "CredentialRateLimit", "RequestRateLimit",
     "AppPage"}

MCInit ==
    /\ focus \in Components
    /\ InviteInit /\ ChannelInit /\ RoleInit
    /\ ChannelRoomsInit /\ CredentialInit /\ RequestLimitInit /\ AppPageInit

MCVars == <<focus, inviteVars, channelVars, roleVars, roomVars, credentialVars, limitVars, pageVars>>

\* Bound: the calls of the page that are in flight at once.
PageInBounds == ~offTrack /\ Len(calls) <= 3

MCNext ==
    \/ /\ focus = "Invites" /\ InviteNext
       /\ UNCHANGED <<focus, channelVars, roleVars, roomVars, credentialVars, limitVars, pageVars>>
    \/ /\ focus = "ChannelAccess" /\ ChannelNext
       /\ UNCHANGED <<focus, inviteVars, roleVars, roomVars, credentialVars, limitVars, pageVars>>
    \/ /\ focus = "Roles" /\ RoleNext
       /\ UNCHANGED <<focus, inviteVars, channelVars, roomVars, credentialVars, limitVars, pageVars>>
    \/ /\ focus = "ChannelRooms" /\ ChannelRoomsNext
       /\ UNCHANGED <<focus, inviteVars, channelVars, roleVars, credentialVars, limitVars, pageVars>>
    \/ /\ focus = "CredentialRateLimit" /\ CredentialNext
       /\ UNCHANGED <<focus, inviteVars, channelVars, roleVars, roomVars, limitVars, pageVars>>
    \/ /\ focus = "RequestRateLimit" /\ RequestLimitNext
       /\ UNCHANGED <<focus, inviteVars, channelVars, roleVars, roomVars, credentialVars, pageVars>>
    \/ /\ focus = "AppPage" /\ PageInBounds /\ AppPageNext
       /\ UNCHANGED <<focus, inviteVars, channelVars, roleVars, roomVars, credentialVars, limitVars>>
    \* what has strayed, or asks for more at once, is not explored further
    \/ ~PageInBounds /\ UNCHANGED MCVars

MCSpec == MCInit /\ [][MCNext]_MCVars

Symmetry == Permutations({x1, x2}) \union Permutations({z1, z2})

\* The type of what is explored: the others stay as they start.
AccessTypeOK ==
    /\ focus = "Invites" => InviteTypeOK
    /\ focus = "ChannelAccess" => ChannelTypeOK
    /\ focus = "Roles" => RoleTypeOK
    /\ focus = "ChannelRooms" => ChannelRoomsTypeOK
    /\ focus = "CredentialRateLimit" => CredentialTypeOK
    /\ focus = "RequestRateLimit" => RequestLimitTypeOK
    /\ focus = "AppPage" => AppPageTypeOK

\* Who is told of a server, and what the page shows of it: members' sockets are in its rooms
\* when nothing is under way, and the page has then caught up with what it was told.
AccessIsShown == MembersHearTheirServer /\ RouteSettles
=============================================================================
