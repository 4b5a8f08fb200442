------------------------------ MODULE Invites ------------------------------
(***************************************************************************)
(* The invites and the memberships of one server: InviteService and the    *)
(* calls of ServerService that create and delete the server and its Member *)
(* rows. An acceptance is a serializable transaction, retried when it      *)
(* loses to another one; ensureDefault holds the server row's lock.        *)
(*                                                                         *)
(* Every other call is one step: what it writes does not depend on what it *)
(* read, and who may call it is the subject of Permissions and Roles.      *)
(***************************************************************************)
EXTENDS Naturals, FiniteSets

CONSTANTS
    Guest,           \* users who become members, leave, are kicked or banned
    ServerOwner,     \* the guest who owns the server
    Invite,          \* invite ids
    InviteReq,       \* requests in flight at once
    UseLimit,        \* the maxUses an invite may be created with
    MaxAttempts,     \* maxAttempts of acceptWithRetry
    MaxJoins,        \* bound: how often one invite is accepted
    NoGuest, NoInvite, NoRequest

\* maxUses = null.
Unlimited == 0

ASSUME InviteAssumption ==
    /\ ServerOwner \in Guest
    /\ NoGuest \notin Guest /\ NoInvite \notin Invite /\ NoRequest \notin InviteReq
    /\ UseLimit \subseteq Nat
    /\ MaxAttempts \in Nat \ {0} /\ MaxJoins \in Nat

VARIABLES
    serverLive,   \* the Server row exists
    memberRow,    \* the Member row of a guest
    inviteRow,    \* the Invite rows
    serverLock,   \* the request that holds the Server row FOR UPDATE
    inviteReq,    \* the requests in flight
    joined        \* history: how often an invite made somebody a member

inviteVars == <<serverLive, memberRow, inviteRow, serverLock, inviteReq, joined>>

Membership == {"none", "active", "banned"}

\* by: creatorId. closed: revoked or past expiresAt. byDefault is history: ensureDefault created it.
InviteRow ==
    [live : BOOLEAN, by : Guest \cup {NoGuest}, maxUses : UseLimit \cup {Unlimited},
     useCount : Nat, closed : BOOLEAN, byDefault : BOOLEAN]

NoInviteRow ==
    [live |-> FALSE, by |-> NoGuest, maxUses |-> Unlimited, useCount |-> 0,
     closed |-> FALSE, byDefault |-> FALSE]

\* A request of user u; row and found are what its transaction has read.
InviteRequest ==
    [pc : {"idle", "commit", "lock", "create"},
     u : Guest \cup {NoGuest}, i : Invite \cup {NoInvite}, attempt : 0..MaxAttempts,
     row : InviteRow, found : BOOLEAN]

NoInviteRequest ==
    [pc |-> "idle", u |-> NoGuest, i |-> NoInvite, attempt |-> 0,
     row |-> NoInviteRow, found |-> FALSE]

InviteTypeOK ==
    /\ serverLive \in BOOLEAN
    /\ memberRow \in [Guest -> Membership]
    /\ inviteRow \in [Invite -> InviteRow]
    /\ serverLock \in InviteReq \cup {NoRequest}
    /\ inviteReq \in [InviteReq -> InviteRequest]
    /\ joined \in [Invite -> Nat]

OnlyOwner == [u \in Guest |-> IF u = ServerOwner THEN "active" ELSE "none"]

InviteInit ==
    /\ serverLive = TRUE
    /\ memberRow = OnlyOwner
    /\ inviteRow = [i \in Invite |-> NoInviteRow]
    /\ serverLock = NoRequest
    /\ inviteReq = [q \in InviteReq |-> NoInviteRequest]
    /\ joined = [i \in Invite |-> 0]

------------------------------------------------------------
(* The rows                                                                *)

\* An id that no row and no request uses.
FreeInvite(i) == ~inviteRow[i].live /\ \A q \in InviteReq : inviteReq[q].i # i

UsesLeft(row) == row.maxUses = Unlimited \/ row.useCount < row.maxUses

IsAvailable(row) == row.live /\ ~row.closed /\ UsesLeft(row)

NewInvite(i, u, max, byDefault) ==
    /\ inviteRow' = [inviteRow EXCEPT ![i] =
           [NoInviteRow EXCEPT !.live = TRUE, !.by = u, !.maxUses = max,
                               !.byDefault = byDefault]]
    /\ joined' = [joined EXCEPT ![i] = 0]

\* Plausible bug: ensureDefault without FOR UPDATE.
NoLock == TRUE

\* An insert that references the Server row waits while the row is locked.
LockFree == serverLock = NoRequest

CreateInvite(u, i, max) ==
    /\ serverLive /\ LockFree /\ memberRow[u] = "active" /\ FreeInvite(i)
    /\ NewInvite(i, u, max, FALSE)
    /\ UNCHANGED <<serverLive, memberRow, serverLock, inviteReq>>

RevokeInvite(i) ==
    /\ inviteRow[i].live
    /\ inviteRow' = [inviteRow EXCEPT ![i].closed = TRUE]
    /\ UNCHANGED <<serverLive, memberRow, serverLock, inviteReq, joined>>

\* The clock passes expiresAt of an invite that has one; ensureDefault's have none.
InviteExpires(i) ==
    /\ inviteRow[i].live /\ ~inviteRow[i].byDefault
    /\ inviteRow' = [inviteRow EXCEPT ![i].closed = TRUE]
    /\ UNCHANGED <<serverLive, memberRow, serverLock, inviteReq, joined>>

------------------------------------------------------------
(* ensureDefault                                                           *)

EnsureDefault(q, u) ==
    /\ inviteReq[q].pc = "idle"
    /\ serverLive /\ memberRow[u] = "active"
    /\ inviteReq' = [inviteReq EXCEPT ![q] = [@ EXCEPT !.pc = "lock", !.u = u]]
    /\ UNCHANGED <<serverLive, memberRow, inviteRow, serverLock, joined>>

\* SELECT ... FOR UPDATE, and the query for candidates under the lock.
EnsureLock(q) ==
    LET u == inviteReq[q].u IN
    /\ inviteReq[q].pc = "lock" /\ LockFree
    /\ IF \E i \in Invite : IsAvailable(inviteRow[i]) /\ inviteRow[i].by = u
       THEN /\ inviteReq' = [inviteReq EXCEPT ![q] = NoInviteRequest]
            /\ UNCHANGED serverLock
       ELSE /\ inviteReq' = [inviteReq EXCEPT ![q].pc = "create"]
            /\ serverLock' = q
    /\ UNCHANGED <<serverLive, memberRow, inviteRow, joined>>

\* The insert and the commit, which releases the lock. The server may have been
\* deleted while the request waited for the row: the insert then fails.
EnsureCreate(q) ==
    /\ inviteReq[q].pc = "create"
    /\ \/ /\ serverLive
          /\ \E i \in Invite : FreeInvite(i) /\ NewInvite(i, inviteReq[q].u, Unlimited, TRUE)
       \/ /\ ~serverLive
          /\ UNCHANGED <<inviteRow, joined>>
    /\ inviteReq' = [inviteReq EXCEPT ![q] = NoInviteRequest]
    /\ serverLock' = IF serverLock = q THEN NoRequest ELSE serverLock
    /\ UNCHANGED <<serverLive, memberRow>>

------------------------------------------------------------
(* accept                                                                  *)

\* The transaction's snapshot and the refusals decided on it.
Snapshot(r) ==
    IF memberRow[r.u] = "none" /\ IsAvailable(inviteRow[r.i])
    THEN [r EXCEPT !.pc = "commit", !.row = inviteRow[r.i]] ELSE NoInviteRequest

Accept(q, u, i) ==
    /\ inviteReq[q].pc = "idle" /\ inviteRow[i].live
    /\ inviteReq' = [inviteReq EXCEPT ![q] = Snapshot([@ EXCEPT !.u = u, !.i = i, !.attempt = 1])]
    /\ UNCHANGED <<serverLive, memberRow, inviteRow, serverLock, joined>>

\* Plausible bug: read committed instead of serializable, which leaves only the
\* unique index to object.
LostUniqueRace(r) == memberRow[r.u] # "none"

\* P2034: the invite row changed after the snapshot; P2002: the member exists.
LostRace(r) == inviteRow[r.i] # r.row \/ memberRow[r.u] # "none"

AcceptCommits(q) ==
    LET r == inviteReq[q] IN
    /\ r.pc = "commit" /\ inviteRow[r.i].live /\ ~LostRace(r) /\ LockFree
    /\ joined[r.i] < MaxJoins
    /\ inviteRow' = [inviteRow EXCEPT ![r.i].useCount = @ + 1]
    /\ memberRow' = [memberRow EXCEPT ![r.u] = "active"]
    /\ joined' = [joined EXCEPT ![r.i] = @ + 1]
    /\ inviteReq' = [inviteReq EXCEPT ![q] = NoInviteRequest]
    /\ UNCHANGED <<serverLive, serverLock>>

\* A conflict, seen or (as the database may) suspected, starts the next attempt at
\* once; a row that is gone is no conflict, and the request fails.
AcceptAborts(q) ==
    LET r == inviteReq[q] IN
    /\ r.pc = "commit"
    /\ inviteReq' = [inviteReq EXCEPT ![q] =
           IF r.attempt < MaxAttempts THEN Snapshot([r EXCEPT !.attempt = @ + 1])
           ELSE NoInviteRequest]
    /\ UNCHANGED <<serverLive, memberRow, inviteRow, serverLock, joined>>

------------------------------------------------------------
(* Memberships and the server                                              *)

SetMember(u, from, to) ==
    /\ serverLive /\ u # ServerOwner /\ memberRow[u] \in from
    /\ memberRow' = [memberRow EXCEPT ![u] = to]
    /\ UNCHANGED <<serverLive, inviteRow, serverLock, inviteReq, joined>>

\* leaveServer deletes the row of a banned member as well.
LeaveServer(u) == SetMember(u, {"active", "banned"}, "none")
RemoveMember(u) == SetMember(u, {"active", "banned"}, "none")
BanMember(u) == SetMember(u, {"active", "banned"}, "banned")
UnbanMember(u) == SetMember(u, {"banned"}, "active")

\* The cascade takes members and invites; a lock on the row delays it.
DeleteServer ==
    /\ serverLive /\ LockFree
    /\ serverLive' = FALSE
    /\ memberRow' = [u \in Guest |-> "none"]
    /\ inviteRow' = [i \in Invite |-> NoInviteRow]
    /\ joined' = [i \in Invite |-> 0]
    /\ UNCHANGED <<serverLock, inviteReq>>

\* Another server takes the place of the deleted one.
CreateServer ==
    /\ ~serverLive
    /\ \A q \in InviteReq : inviteReq[q].pc = "idle"
    /\ serverLive' = TRUE
    /\ memberRow' = OnlyOwner
    /\ UNCHANGED <<inviteRow, serverLock, inviteReq, joined>>

InviteNext ==
    \/ \E u \in Guest, i \in Invite, max \in UseLimit : CreateInvite(u, i, max)
    \/ \E i \in Invite : RevokeInvite(i) \/ InviteExpires(i)
    \/ \E q \in InviteReq, u \in Guest : EnsureDefault(q, u)
    \/ \E q \in InviteReq : EnsureLock(q) \/ EnsureCreate(q)
    \/ \E q \in InviteReq, u \in Guest, i \in Invite : Accept(q, u, i)
    \/ \E q \in InviteReq : AcceptCommits(q) \/ AcceptAborts(q)
    \/ \E u \in Guest : LeaveServer(u) \/ RemoveMember(u) \/ BanMember(u) \/ UnbanMember(u)
    \/ DeleteServer \/ CreateServer

InviteSpec == InviteInit /\ [][InviteNext]_inviteVars

------------------------------------------------------------
(* Properties                                                              *)

\* An invite's useCount is the number of memberships it created, whichever
\* acceptances raced and were retried, and never exceeds its maxUses.
InviteUsesCountJoins ==
    \A i \in Invite :
        /\ inviteRow[i].useCount = joined[i]
        /\ inviteRow[i].maxUses # Unlimited => joined[i] <= inviteRow[i].maxUses

\* A member has at most one usable invite that ensureDefault created: two calls
\* that find none do not both create one.
OneDefaultInvite ==
    \A i, j \in Invite :
        (/\ inviteRow[i].byDefault /\ inviteRow[j].byDefault
         /\ IsAvailable(inviteRow[i]) /\ IsAvailable(inviteRow[j])
         /\ inviteRow[i].by = inviteRow[j].by) => i = j

=============================================================================
