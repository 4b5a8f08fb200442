# A verification project for Likecord

Likecord is a self-hosted chat and voice service: a NestJS API (`src/apps/api`)
over PostgreSQL and Redis with a Socket.IO gateway, and a Next.js web client
(`src/apps/web`). One API process serves one installation. This directory holds
TLA+ modules translated from that code, the TLC configurations that check them on
small instances, and proofs that hold for every value of their constants.

```
tlc -workers 2 -config Sessions.cfg MCSessions     # model-check one run
tlapm SessionsProofs.tla                           # check the proofs of one module
```

Paths below are relative to `src/apps/api/src` or, for the web client, to
`src/apps/web/src`, unless they start with `src/`.

## 1. Inventory

### Where state lives

| store | what | lost when the API restarts |
|---|---|---|
| PostgreSQL | users, refresh sessions, servers, members, roles, overwrites, channels, messages, attachments, invites | no |
| Redis | `voice:*`, `screen:*`, `presence:*`, rate limits, link-preview cache and locks | no |
| API process | Socket.IO sockets and rooms, `client.voiceChannel`, the session registry, handlers in flight | yes |
| browser tab | access token in memory, optimistic state, peer connections, audio graph | its own lifetime |

Node runs one handler at a time but switches at every `await`. So the unit of
atomicity is: one SQL statement or transaction, one Redis command or script, one
synchronous stretch of JavaScript. Most hazards here are an `await` between a
check and the act it allows.

### Components of the API

| component | state | what is hard | what makes it correct |
|---|---|---|---|
| Sessions (`session/`, `auth/`) | `refresh_sessions`, `users` | races between requests of one account; a change that commits and then fails to answer | refresh single-use; a change revokes every other session and never its own |
| Session registry (`ws/ws-session-registry.service.ts`) | socket ↔ session maps | handshake racing revocation; a throwing disconnect | sockets of revoked sessions are silenced, others untouched |
| Voice (`voice/`, `ws/ws.gateway.ts`) | `voice:{channel}:{user}`, `voice:channel:{channel}:members`, `client.voiceChannel`, rooms | two-command writes, read-modify-write, several tabs, walks that await | Redis, sockets, rooms and permissions agree; capacity; mutes stick |
| Screen sharing (same files) | seven kinds of `screen:*` keys | non-atomic indexes, removals overlapping starts and joins | one share per user and channel; shares and viewers name each other |
| Channel rooms (`ws/`) | `server:*`, `channel:*` rooms | check-then-join against eviction | no one hears what they may not view; members hear their server |
| Presence (`presence/`) | counter and status keys with TTL | lost decrements, expiry, departures during a greeting | present iff a socket is connected |
| Permissions (`server/guards/permission.service.ts`) | none (reads roles and overwrites) | order of overwrites, owner, administrator, synced channels | nobody gains what the writer lacks |
| Invites, membership (`invite/`, `server/`) | invite, member and server rows | serializable retry, last use, lock of the server row | `useCount` counts memberships and stays ≤ `maxUses` |
| Roles (`role/`) | role rows, assignments, positions | hierarchy checks on reads made before the write | seniors keep roles, rank and permissions |
| Channels (`channel/`) | channel rows, overwrites, sync flag | reads outside the transaction | leaving a category changes nobody's access |
| Messages, attachments (`message/`, `upload/`) | message and attachment rows, objects | idempotent retry, two stores, edit against delete, sweeps | a live message keeps its attachments; deletion is final |
| Avatars (`user/avatar/`) | `users.avatarUrl`, objects | commit of unknown outcome; sweep against commit | a referenced object is never deleted |
| Preferences, voice mix (`user/`) | JSON and rows per user | concurrent merges, aborted writes | what is shown saved is saved |
| Link previews (`link-preview/`) | cache, lock, slots | lease, late answer of Redis | one fetch of a link at a time |
| Rate limits (`auth/credential-rate-limit.service.ts`, `rate-limit/`) | counters with TTL | window boundaries, two-command expiry, reservations | at most N successes per window; nobody is limited for good |
| Others | | CSRF, validation, bootstrap, navigation, audit, health: one request, no state of their own | |

### Components of the web client

| component | what is hard |
|---|---|
| `lib/api.ts`, `hooks/useAuth.tsx` | refresh is single-flight per tab, but tabs share the cookie |
| `hooks/useVoice.ts` | late acknowledgements, renegotiation glare, requests racing moderators, screen pickers, late tracks |
| `lib/callTransport.ts` | sender parameter changes with timeouts and rollback |
| `lib/voiceCapture.ts`, `lib/callSenders.ts` | takes superseded while they are committed, compensation |
| `lib/audioOutput.ts`, `lib/voicePlayback.ts`, `lib/voiceSounds.ts` | adapters brought to a profile together or not at all; timely cues |
| `hooks/useMessages.ts`, `hooks/useMemberContext.ts`, `hooks/useVoiceOccupancy.ts` | answers racing events |
| `hooks/useUserPreferences.tsx`, `hooks/useVoicePersonalMix.ts` | optimistic writes, queues, account switch |
| `app/app/page.tsx` | the route, the server list and the channels are read by calls answered in any order |
| other components | rendering |

### How they interact

A request is authorised against the session row (`sid`, `sv`). A credential
change or a logout commits in PostgreSQL first and reaches into the gateway
afterwards, through the registry. Server, role and channel services commit first
and then call the gateway, which walks its connected sockets, asks the permission
service about each one and calls the voice service for those in voice. The voice
service alone writes the voice and screen keys. The web client reacts to the events
the gateway emits and calls the API for snapshots.

## 2. Modules

| module | models | extends |
|---|---|---|
| `AccountSessions` | abstract: the access tokens of an account that authorise | |
| `Sessions` | sessions of one account, refined to `AccountSessions` | |
| `SessionSockets` | registry, handshake and disconnect, composed with `Sessions` | `Sessions` |
| `VoiceRooms` | voice membership, mute, moderation, reconciliation | |
| `Permissions` | operators of the permission service over a server's tables | |
| `ChannelAccess` | channels, categories, overwrites | `Permissions` |
| `Roles` | roles, their order and who has them | `Permissions` |
| `Invites`, `ChannelRooms`, `CredentialRateLimit`, `RequestRateLimit` | as named | |
| `ScreenShares`, `Presence`, `Messages`, `Avatars`, `LinkPreviews` | as named (`Messages` with attachments) | |
| `Preferences`, `VoiceMix` | client and service together | |
| `WebSession`, `VoiceClient`, `VoiceCapture`, `VoicePeers`, `CallTransport`, `AudioOutput`, `ScreenPresenter`, `RemoteMedia`, `SoundCues`, `MessageList`, `MemberContext`, `AppPage` | the web client, with as much of the API as answers it | |
| `MCSessions`, `MCSessionSockets`, `MCVoiceRooms` | bounds and symmetry of one module | that module |
| `MCAccess`, `MCContent`, `MCWebClient` | small instances of a group of modules | the group |
| `SessionsProofs`, `VoiceRoomsProofs`, `VoiceSettledProofs`, `AdmissionProofs`, `GrantProofs`, `ContentProofs`, `ClientProofs`, `VoicePeersProofs` | proofs, section 4 | what they prove about |

Where code awaits, a module has a record per request or handler: `pc` or a stage
names the `await`, the other fields are the local variables kept across it.
Histories (called so at their declaration) record what a property makes an
exception of; no action reads one to decide anything.

### Sessions

`row` is the `refresh_sessions` table by id, `user` the account's row, and `req`
what each HTTP request in flight holds. A credential and the hash stored of it are
one value. A password is the number of the credential change that set it.

| action | code |
|---|---|
| `LoginVerify`, `LoginCreate` | `login`: find and verify, then the transaction that creates the row |
| `RefreshRead`, `RefreshRotate`, `RefreshLost` | `rotateRefreshCredential`: read and check; conditional update; `REFRESH_SESSION_REUSED` |
| `Authorize` | `JwtStrategy.validate` of a protected request |
| `LogoutRevoke` | `revokeCurrentSession` |
| `ChangeVerify`, `ChangeCommit` | `changePassword` and `changeEmail`: reads and argon2 outside, the serializable transaction |
| `Refuse` | every way a protected request or a login ends without effect |
| `Reply` | after commit: `disconnectRevokedSessions`, then the response; `ok = FALSE` is the 503 |
| `Expire`, `Cleanup` | thirty days pass; `RefreshCleanupService` |
| `Restart` | the process dies; rows stay |

The transactions of a change are atomic steps because they are serializable. They
update the caller's session row first, then end the other sessions, and last update
the user row (`auth.service.ts:139-141`); each update of a session row is conditional on
`revokedAt`, `accessVersion` and expiry. A serialization failure is a `Refuse`.
One account suffices: every statement carries the user's id or the id of a row of
that user. Access tokens do not expire in the model (they do after fifteen minutes
in the code), which only adds behaviours. Email uniqueness and the two credential
rate limits appear as refusals that may happen at any time. Registration is left
out: before it there is no session.

### SessionSockets

`up`, `hand`, `sockSid`, `authRevoked` and `registry` are the sockets of the single
API process. `Connect` is `handleConnection` up to its first answer, `Associate`
the rest of it, `HandshakeFails` its catch block, `Drop` a disconnect.
`Reconcile(r, closed)` is `disconnectRevokedSessions` inside `Reply`: all registered
sockets of the revoked sessions are quarantined, then they are disconnected session
by session; `closed` is where a throwing `disconnect` makes it stop. `late` remembers
which sockets were still in their handshake then.

### VoiceRooms

`state` and `members` are the two Redis keys of a user in a channel, `perm` what the
permission service answers (CONNECT, standing for VIEW_CHANNEL and CONNECT, which
the code only tests together, and SPEAK), `muted` the member rows with `isMuted`,
`voiceChannel` and `rooms` the socket's fields. A handler in flight is a record in
`task`. Each Redis command and each permission or row read is a step.

| actions | code |
|---|---|
| `Join` … `JoinDone` | `handleVoiceJoin`, `validateJoin`, `join` |
| `Leave`, `LeaveDel`, `LeaveRem`, `LeaveDone` | `handleVoiceLeave`, `VoiceService.leave` and what each of its callers does after it |
| `SetFlag`, `FlagCheck`, `UnmuteCheck*`, `UpdateGet`, `UpdateSet` | `handleVoiceMute`, `handleVoiceDeafen`, `updateMute`, `updateDeafen` |
| `Connect`, `Drop`, `DropLeaves` | `handleConnection`, `handleDisconnect` |
| `ModMute`, `ModMuteKeys`, `ModMuteFind`, `ModUnmute` | `muteMember` (row, `KEYS`, one `GET` per key, update), `unmuteMember` |
| `ChangePermission`, `Visit`, `VisitDecides`, `WalkEnds` | an overwrite or role change, then `reconcileChannelPermissions` |
| `Kick`, `Visit`, `WalkEnds`, `Sweep` | `removeMember`, `banMember`: row, `evictUserFromServer`, `VoiceService.handleDisconnect` |
| `Restart` | sockets and handlers go, Redis stays |

Left out: broadcasts (nothing reads them back), permission changes that touch several
channels in one walk, channel and server deletion and a member leaving (the same
eviction walk with another reason). The screen keys the same handlers clean up are in
`ScreenShares`.

### Who may do what: Permissions, ChannelAccess, Roles, Invites, ChannelRooms, rate limits

*Permissions* has no state: a server's tables are a record (owner, members, bans,
assignments, grants, positions), and `MemberPermissions`, `ChannelPermissions`,
`HighestPosition`, `CanManageRole`, `CanGrantPermissions`, `CanManageMember` and the
others are the methods of the same name. A permission set is a set of names where the
code has bits.

*ChannelAccess* keeps the channel and category rows and the overwrites of both. A
request reads its row and checks its authority in one step (`EditOverwrite`,
`StartMove`, `StartSync`), and writes in another (`WriteOverwrite`, `CommitMove`,
`CommitSync`, `CommitUnsync`, or `CommitFails`); creation and deletion are single
transactions. Between the two another request may have moved, synced or deleted the
channel: `UpToDate` in the properties singles out the requests whose reads still hold.
The migration's CHECK (no synced channel without a category) is `RowAllowed`. Names,
topics and the order of channels are left out.

*Roles* has one `Start…` step (reads and checks) and one `Write…` step per operation
of `RoleService`. Two roles may have one position; `reorder` renumbers the
list it was given, so it also breaks such ties. `fresh` tells the requests nobody
else has written under from the others.

*Invites* has `Accept`, `Snapshot`, `AcceptCommits`, `AcceptAborts`, `LostRace` for
`acceptWithRetry` (a serializable transaction: it commits only if nothing it read has
been written since its snapshot), `EnsureDefault`, `EnsureLock`, `EnsureCreate` for
`ensureDefault` under `FOR UPDATE` on the server row, and one step for every other
call. An insert that refers to the server row waits while that row is locked.
`leaveServer` has no `ServerAccessGuard`: a banned member can delete its own row, and
its ban with it, which is modelled as it is.

*ChannelRooms* has `Identify`, `ReadMemberships`, `JoinServerRooms` for
`handleConnection`, `SubscribeChecks` and `SubscribeJoins` for `handleSubscribe`, and
walks over the connected sockets (`EvictVisits`, `ReconcileVisits`,
`ReconcileLeaves`) that await at every socket. A socket whose connection or
subscription had passed its check before access went, and joined after, overhears:
the properties except it (`lateServer`, `lateChannel`), and a user readmitted during
its own eviction loses rooms (`rejoined`). The eviction before a channel is deleted
and the list of memberships a socket keeps for presence are left out.

*CredentialRateLimit* has the two counters and the reservation that `AuthService`
takes before its transaction and releases when it fails; `lifetime` numbers the keys,
because a reservation may be released into a later key than it was taken from, which
frees one commit there. *RequestRateLimit* has `INCR` and `EXPIRE` as two commands (an
API that stops in between leaves a bucket without expiry) and the script of the avatar
routes.

### What is kept: ScreenShares, Presence, Messages, Avatars, LinkPreviews

*ScreenShares* has the keys of one voice channel, and a task per handler that awaits
between commands; the channel's list and the user's index are written, and removed, as
one step, which leaves out what a reader between the two commands would see. A start
compares the socket's channel (`ShareStart`), awaits `validateStream`, and then goes on
without a second look (`ShareFind`): when the socket leaves or disconnects within that
await, the share outlives it. `clash` and `torn` record a start, from its first check
on, or a viewer's join, that overlapped another start or a removal concerning
it: the code takes no lock, and the keys then stay inconsistent. The keys' 24 hours
are modelled only with everybody gone: a share that is live for longer than that loses
its keys, which is left out.

*Presence* has the counter and status keys, a greeting and a parting per socket, a
heartbeat per user and both expiries. The counter's ten minutes restart only on
connect, so a user whose tabs stay for longer loses it, is marked OFFLINE when one of
two tabs leaves, and no heartbeat restores that (`miscounted`).

*Messages* has message rows, attachment rows and objects. A send checks its
attachments (`Send`), looks for its idempotency key (`FindKey`) and inserts
(`Insert`); the unique index refuses a loser of a race. The check precedes the look-up
in the code, so a retried send with attachments is refused with `ATTACHMENT_LINKED`
instead of getting its message. What a request commits it tells later (`Tell`), so that
another may commit and tell in between. Uploads go through `Prepare`, `UploadFile` or
`BrowserPut`, `HeadObject`, `MarkProcessed`; clean-ups first condemn pairs of key and
row, then delete objects and rows one by one and may fail at each. The browser puts
what it likes as often as it likes until the URL expires, also after the file was
checked, linked or deleted. The histories are
facts about the code: two sends, or a send and the orphan sweep, can take one
attachment (`fought`); the browser can replace an object once its check has read it
(`overwritten`); the local driver's delete swallows every error, so that "retry
handles" are kept only with the remote driver, and a put that meets or follows a delete
leaves an object without a row (`leaked`); an edit in flight over a delete writes text
back (`revived`), and what is told after the deletion though committed before it is heard
last (`misheard`). That a file is 24 hours old is a choice made once its URL, valid for
300 s, has expired.

*Avatars* has a task per request (upload of one or two objects, transaction, clean-up)
and the sweep. A transaction whose answer is lost may be decided later, while its row
lock still holds back others (`undecided`). A version is "young" for the five minutes
in which a request may use it and "old" when the sweep may find it 24 hours old; a
transaction's few seconds are taken to end before that.

*LinkPreviews* has the executor's slots and queue, the lock with its owner and time to
live, the cache entry, and jobs whose `SET NX` may be executed or answered late. Time
passes in ticks, and a timer that is due fires before the next one.

### Client and service: Preferences, VoiceMix

The client's queues, timers, optimistic values and aborted requests with the services'
merge. A write that was aborted may still be applied later (`stray`, `overtaken`,
`lateWrites`, `crossed`). An appearance change that fails while a newer one is queued
is forgotten without a word although the newer one is reported saved; an edit made
within 200 ms of a logout is lost: both are as in the code.

### The web client

| module | state and actions | left out |
|---|---|---|
| `WebSession` | cookie jar, `useAuth`'s user per tab, calls and the shared refresh; the API's answers | forms and routing |
| `VoiceClient` | join attempts, `VoiceState`, capture policy, packets and events of a gateway abstracted to serve one packet of the socket after the other, each at once | the awaits of its handlers, which are in `VoiceRooms` |
| `VoiceCapture` | takes, the commit queue, native constraints, gate, senders and swaps with compensation | meters, device refresh |
| `VoicePeers` | two callers' connections, offers and answers relayed in order, queued renegotiation | ICE candidates, more than two |
| `CallTransport` | the wishes, one sender's parameter transaction, the codec's negotiation and statistics, the hint | receivers, adaptive packet time |
| `AudioOutput` | profile, the reconcile loop over two adapters, the receive graph, the picker | account switch |
| `ScreenPresenter` | the presenting tab's start, picker, stop, viewers; the gateway's shares | |
| `RemoteMedia` | the watching tab's tracks, streams, audio elements and policies; the answers to `screen:share-state` and `screen:viewer-state`, read and sent in two steps | the steps of watching (`ScreenShares`) |
| `SoundCues` | one cue at a time in ticks of 50 ms, the audio context's states | envelopes |
| `MessageList` | the list of the open channel, its calls and events, subscription | order of an upsert |
| `MemberContext` | members (rows with an id, so that a user who comes back is another one), occupancy, the menu and its operation | copying, role details |
| `AppPage` | route, server list and channels with the calls that read them | categories, the remembered channel |

Each keeps its facts about the code as a history that its properties except; what
those are is in section 6.

## 3. Runs

| run | instance | result |
|---|---|---|
| `Sessions` | 2 sessions, 4 credentials, 2 requests | holds, 221,000 states |
| `SessionSockets` | 2 sessions, 3 credentials, 1 request, 1 socket | holds, 596,000 states |
| `VoiceRooms` | 2 users, 3 sockets, 2 servers with a channel each, 2 handlers, capacity 1 | holds, 406,000 states |
| `Access` | `Invites`, `ChannelAccess`, `Roles`, `ChannelRooms`, the two rate limits, `AppPage` | holds, 1,251,000 states |
| `Content` | `ScreenShares`, `Presence`, `Messages`, `Avatars`, `LinkPreviews`, `Preferences`, `VoiceMix`, `MessageList`, `MemberContext` | holds, 2,200,000 states |
| `WebClient` | the other nine modules of the client | holds, 1,226,000 states |
| `SessionsLoginRace`, `SocketHandshakeRace`, `SocketRegistryLeak`, `VoiceGhost`, `VoiceUnmuteRace`, `VoiceKickScope` | the first three modules | each finds a counterexample, section 5 |

The modules of a group share no variable, so `focus` names the one that moves in a
behaviour: every reachable state of every module is explored, but not their product,
which no property speaks of.

### Bounds

*Sessions*: two requests race in every pair of operations; two sessions are a retained
one and another; four credentials allow two logins, a refresh and a change in one
behaviour, so a credential can be lost, replaced and raced for. The number of
credentials bounds logins, refreshes and changes, and so the versions. *SessionSockets*:
one request is enough for a reply to race a handshake, as the handshake is the other
actor. *VoiceRooms*: the first user has a tab that talks in two servers and one that
only comes and goes, the second competes for the same channel; two handlers interleave
at every `await`. `Sends`, `Moderated` and `Task` bound who does what. `NoneRaced`
prunes the successors of states in which a user has been raced, since the settled
properties then say nothing of that user.

| in `Access` | bounds |
|---|---|
| `Invites` | 3 users with the owner, 2 invites, 2 requests, `maxUses` 1 or unlimited, 2 attempts, 2 joins: two acceptances race for the last use and one is retried |
| `ChannelAccess` | an owner, a moderator who holds MANAGE_ROLES and MANAGE_CHANNELS, a member; 1 channel, 2 categories, 1 overwrite target, 2 masks, 2 requests: a move, a sync or an edit races any other |
| `Roles` | 2 custom roles, 2 sets of grants, positions up to 2, 2 requests |
| `ChannelRooms` | 1 user, 2 sockets, 2 walks, 3 changes of access: access goes, returns and goes |
| `CredentialRateLimit` | 3 attempts, limits of 2, 3 lifetimes of the key |
| `RequestRateLimit` | 2 calls, 2 points, counts up to 3, 1 stop |
| `AppPage` | 2 servers, one of which may be lost and entered again, here or elsewhere; 1 text channel; the route or the servers change, and the socket goes, with 1 call or event on its way, the user asks for something with no call on its way; states with more than 3 calls are not left again |

| in `Content` | bounds |
|---|---|
| `ScreenShares` | 1 presenter with 2 sockets, 2 shares, 2 handlers |
| `Presence` | 1 user, 2 sockets, 2 statuses, counter up to 3 |
| `Messages` | 2 messages, 1 attachment, 2 tasks, 1 key, both drivers; not followed past `fought` or `leaked` (`FileAstray`), and past `misheard` only to the end of what is under way (`WindsUp`) |
| `Avatars` | 2 versions, 2 tasks and the sweep |
| `LinkPreviews` | 3 jobs, 2 slots, 1 place in the queue, lease 2 and lock 5 ticks |
| `Preferences`, `VoiceMix` | 1 account, 1 lane, 2 edits; 2 listeners, 1 target, 2 volumes |
| `MessageList` | 2 rooms, 2 messages, 2 texts, 2 calls, pages of 1 |
| `MemberContext` | 1 other user with 2 memberships, one after the other; the tab in the voice channel it observes |

| in `WebClient` | bounds |
|---|---|
| `WebSession` | 2 tabs, 2 calls, 2 logins, 1 rotation per session, one session renewed or ended before a step |
| `VoiceClient` | 2 channels, 2 attempts, 1 unmute, 2 packets or events on their way; restrictions, attempts and other pending things two at most before a step |
| `VoiceCapture` | 2 takes, 2 peers, 1 queued job, one thing out of the ordinary before a step |
| `VoicePeers` | 2 callers, 3 joins, 1 view |
| `CallTransport` | 1 rate, 2 codecs of which one is lacking, 2 tracks |
| `AudioOutput` | 1 output beside the usual one, two odd things before a step |
| `ScreenPresenter` | 2 shares, 2 clicks, 3 notices, 1 further session |
| `RemoteMedia` | 2 shares, 2 sendings, 2 events on their way; what is on its way and what is besides, three together before a step |
| `SoundCues` | distances of 5, expiry of 10 and cues of 4 ticks |

Two of a kind are there wherever two may race; third parties would only repeat them.
The restrictions "before a step" are conjuncts of the `MC` module's next-state relation:
states one step beyond them are still explored and checked, only not left again. In the
same way a behaviour whose history says that the page or the tab has strayed
(`offTrack`, `amiss`, `doubted`, `astray`, …) is not followed further: the properties
say nothing of it from there.

Symmetry is used for sets whose members are interchangeable, in runs without liveness
properties. Deadlock is checked in every passing run but `WebClient`, where an
exploration ends where a bound or such a history ends it.

### Properties

Sessions, sockets and voice:

- `RefreshSingleUse`, `OnlyKeeperSurvives`, `RetainedTokenMatchesRow`,
  `DeadTokensStayDead`, `ChangeVerifiedCurrentPassword`: a credential is exchanged
  once; after a credential change only the session it was made from is left of the
  earlier ones, with a token that works; a token that stopped working never works
  again; a change has verified the password that was current when it committed.
- `ImplementsAccountSessions`: with `valid` mapped to the pairs of active rows and
  their versions, every step is a start, a change, an end, or nothing.
- `OnlyLateHandshakesServe`: however reconciliation fails, a reconciled session is
  served on no socket but those that were in their handshake.
- `ActiveSessionsKeepTheirSockets`: only sessions that ended are quarantined.
- `RevokedSocketsAreCutOff` (liveness): a registered socket of a revoked session is
  cut off in the end.
- `SettledMembership`, `SettledPermission`, `SettledMute`, `SettledRooms`: once all
  handlers are done, a user none of whose handlers ever met another one, another tab
  in voice or a restart, is a member exactly where one of its sockets is, is nowhere
  it may not connect, is muted where it is silenced, and its sockets are in the room of
  the channel they hold and in no other.
  The condition is not decoration: without it each of these is false, because the
  code takes no lock, and the run says precisely that a meeting of two handlers is
  the *only* way to break them. Handlers of other users, walks over other sockets and
  an unrelated tab's disconnect do run in parallel.
- `CapacityUnlessJoinsMeet`: a channel exceeds its capacity only if two joins were
  both between their `SCARD` and their `SADD`.

Access:

- `InviteUsesCountJoins`, `OneDefaultInvite`: a use count is the number of memberships
  the invite made, at most its limit; a member has one usable default invite.
- `NobodyOverhears`, `AccessIsShown` (`MembersHearTheirServer` and `RouteSettles`):
  nobody hears what it lost, members hear their server, and the page shows it: also when
  a server is entered in another tab or on another device, though not before the list is
  asked for again.
- `CredentialBudget`, `BucketsExpire`: the limits limit, and nobody for good.
- `DetachPreservesAccess`, `GrantCeiling`, `SeniorsUntouched` (action properties): what
  a step of a request that acts on up-to-date reads may never do. A stale one may: a
  move that commits after a concurrent sync can leave the channel unsynced with its own
  overwrites deleted.

Content:

- `SettledShares`, `SettledPresence`, `MessagesKeepTheirAttachments`,
  `DeletionIsFinal`, `ReferencedAvatarIsStored`, `OneFetchAtATime`: what is kept in two
  places agrees, but for the overlaps that section 2 names.
- `PageSettles` (`PreferencesSettle`, `VoiceMixSettles`, `MessagesSettle`,
  `MembersSettle`, `ActionsAreInformed`): what the page shows once nothing is under way
  is what the API has, and a member is not acted upon from a list heard to be old.

Web client:

- `TabShowsItsSession`: a user who logged out is not shown again by what was on its way;
  a tab shows the user whose session the cookies are of, and nobody only when they
  authorise nothing. It holds at all times, of every tab that was not misled.
- `MicrophoneIsShown`, `OneOpenMicrophone`: a microphone that transmits is shown so, in
  a call that permits it, and all peers hear the same one.
- `CallSettles` (`VoiceSettles`, `ScreenSettles`, `RemoteMediaSettles`,
  `MicrophoneSettles`, `OutputSettles`, `CuesAreTimely`): tab and gateway agree on the
  call, the screen and what is watched; the recording and the output shown are used.
- `TransportSettles`: what is shown of the wishes for a sender is so.
- `PeersAgree`: two members end with one session both agreed on.

`TypeOK`, `AccessTypeOK`, `ContentTypeOK`, `ClientTypeOK` are the type invariants.

### Fairness

Only `SessionSockets` has a liveness property. It assumes weak fairness of
`ReconcileSome(r)`: after the transaction commits, `disconnectRevokedSessions` is
the synchronous continuation of the request, with no further event to wait for. No
client, timer or handshake is assumed to do anything. Everything else is stated of
states in which nothing is under way, which needs no fairness.

## 4. Proofs

| theorem | module |
|---|---|
| `TypeCorrect`, `Inductive`, `SingleUse`, `KeeperSurvives`, `RetainedToken`, `DeadTokens`, `CurrentPasswordProved`, `Implementation` | `SessionsProofs` |
| `SocketsImplementSessions`, `SocketInductive`, `RevokedSocketsSilenced`, `RetainedSocketsKept` | `SessionsProofs`, its second part |
| `VoiceInductive`, `VoiceTypeCorrect`, `CapacityHeld` | `VoiceRoomsProofs` |
| `WhereInductive`, `SettledMembershipHolds`, `SettledRoomsHolds`, `RulesInductive`, `SettledPermissionHolds`, `SettledMuteHolds` | `VoiceSettledProofs` |
| `EveryBucketExpires`, `CredentialBudgetKept`, `InviteUsesCounted`, `DefaultInviteUnique`, `RoomsAreLeft`, `MembersAreHeard` | `AdmissionProofs` |
| `ChannelRowsSound`, `DetachingPreservesAccess`, `GrantsStayBelowTheirCaller`, `MembersHaveLiveRoles`, `SeniorsStayUntouched`, `MembersInductive`, `ActionsAreInformedAlways`, `MembersSettleAlways` | `GrantProofs` |
| `FetchersHoldTheLock`, `ReferencedAvatarsStored`, `AttachmentsKept`, `DeletionsFinal`, `PresenceSettles`, `SharesSettle`, `VoiceMixSettlesAlways` | `ContentProofs` |
| `CallInductive`, `MicrophoneShown`, `CaptureInductive`, `MicrophoneIsOne`, `TabsInductive`, `TabsShowTheirSession` | `ClientProofs` |
| `PeersInductive`, `PeersAgreeAlways`, `TransportInductive`, `TransportSettlesAlways`, `CuesTimely` | `VoicePeersProofs` |

They hold for every value of the constants. The only assumptions are the named
`ASSUME`s of the modules: the `No…` values are in none of the sets they stand beside,
functions on constants have the domains they need (every socket an owner, every
channel a server), limits are positive, the lease is shorter than the lock
(`LP_LIMITS`), and the statuses of `Presence` are none of the model's own tags.
`Attempt` (credential changes in flight) is finite, since the proof counts it.

Every theorem of the form `Spec => []P` rests on an inductive invariant: a lemma says
that the initial states satisfy it, one lemma per action that the action keeps it, and
the last step combines them. Each invariant was checked with TLC on the run of its
module before it was proved.

*Sessions.* `IInv` adds three parts to the properties. `VersionsReached`: tokens and
requests hold only versions their row has reached, so a version never comes back;
`DeadTokensStayDead` follows because rows are never reused and versions only grow.
`CredentialsFresh`: a credential is generated once, sits in at most one row and has
not been exchanged while it sits there; so the exchange that removes it is its only
one. `VerifiedStillCurrent`: while the row of a request still has the version in its
token, the password it verified is current, because every change raises the version
of its own row and ends all others. `Implementation` maps each action to an abstract
step or a stutter.

*SessionSockets.* Every step is a `Sessions` step or a stutter, so the theorems above
carry over. `SocketIInv` adds that the sessions a reply is about to close, or has
closed, have ended for good, and that a connected socket past its handshake is in the
registry: quarantine then reaches every serving socket that is not late.

*VoiceRooms, capacity.* A handler is resumed in a later state than the one it was
suspended in, so even typing needs an invariant: `Shaped` says which of user, socket
and channel its record has at each await. `PlaceKept` says that in a channel where no
two joins met after their counts, one join at most is between its count and its
`SADD`, and the set has room for it. Only the count, the `SADD` and the `SREM` touch
what it speaks of; every other step is shown to leave the members alone and to bring
no join past its count.

*VoiceRooms, settled users.* `WhereIInv` says for a user that is not raced which one
handler works on it and what that handler has still to do: between its commands a
join has put the entry but not the member, or both but not the socket's field
(`JoinPhase`), a leave has taken away the entry (`LeavePhase`), and otherwise keys,
rooms and sockets agree (`StillPhase`); a socket that is down but still in voice has
its disconnect pending. With no handler left the phases collapse into
`SettledMembership` and `SettledRooms`. `RulesIInv` says of a socket that holds a
channel it may not connect to, or an entry unmuted against the rules, that something
on its way will take that away: a walk that has yet to visit it, a decision made, a
moderator's call still to reach the key, a disconnect. What a handler has decided to
write respects the rules or is overruled likewise (`Vows`), and `Suits` ties each
call to the awaits it can be in. With nothing under way, `SettledPermission` and
`SettledMute` remain.

*Admission.* For the credential counters: the mutation count is at most the limit, and
what is committed in a key's lifetime and what is reserved in it, together, are at most
the count and the strays released from it. For invites: a request about to commit read
a row that is still usable, and a request about to create a default invite holds the
server row's lock while its user has no usable one. For rooms: a socket in a room is
connected, and has access or a walk that has yet to reach it.

*Grants.* `ChannelIInv` says that dead rows are empty, that no row without a category
is synced, and what a request's reads promise as long as they hold (`GoodRead`): a
move was allowed to change the source, an edit gives only bits within the caller's own
permissions (`PotentiallyGrantedBits`). The lemmas on `Permissions` say that resolution
is monotone (a bit that no row newly allows and none stops denying is gained by
nobody) and that it depends on the governing overwrites alone. Copying the category's
overwrites on the way out therefore preserves everybody's permissions, and an edit
gives nobody more than its caller has. For roles, `RoleIInv` says that assigned roles
exist and that what a fresh request checked still is so. A member's highest role exists
(shown by strict inclusion of the sets of higher roles, which needs no order on
positions but the natural numbers'); an order sent to `reorder` is a permutation, and a
role of the caller that passed a senior one would have to stand before it in the list,
at a senior's place, which the check refuses.

*Members and their menu* (`GrantProofs`). `MemberIInv` speaks of the words on their way to
the tab: a list it holds or reads is of the present members, or a word still to be heard
will have it read anew (`Outdates`), or what was heard while it was read was not acted on
(`missed`); likewise for who is in voice (`Requeues`). Every change on
the server is shown to put such a word behind the others, and hearing one either starts
a read or marks the one under way. Once painted, a menu that is open may stay open, and
of the two menus one at most may act (`MenusStay`). With nothing on its way and nothing
being read this is `MembersSettle`; `ActionsAreInformed` needs it at all times.

*Content.* Previews: a job at work has its slot, a queued one is in the queue once, and
the job with the lock has less time left than the lock. Avatars: references are whole
and what a lost transaction may write is young; a request's candidate is its own and
complete while young; a discarded version is referenced by nothing; the sweep looks at
old objects only. Messages: pairs that a clean-up has condemned belong to no live
message; what is processed is stored as it was checked, unless the browser put another
object since, and save between the deletion of its object and of its row; attachments a send has checked are processed or gone; nothing is stored
without a row unless it leaked. Presence: the counter is the number of sockets counted
and not yet forgotten, an uncounted socket that left is being counted out or was
missed, and the status follows the counter up to a pending write. Screen shares: a
removal is of its own socket's shares; a start that did not clash is alone with what
its user has, and the index names the one share up to what is being indexed; a share
is listed and its socket connected, or a handler sees to it; unless torn, a viewer and
its share name each other, and whoever removes the share removes the view. Voice mix:
what is pending has a timer or a write before it, and a wish that is neither pending nor
in error is stored or is what the write under way carries.

*Client, the call.* `CallIInv`: an open microphone was let open by the policy it is
judged under (`OpenIsAllowed`); one attempt at most is still waited for, and it is of
the call (`OneAttempt`); a request of an attempt is its only one and what it awaits
(`AsksMatch`), so that no answer is taken for another's. A call is shown once it is
joined (`CallIsShown`), a tab that connects shows itself deafened only where a click
made it so (`ConnectsUndeafened`), and what is shown as restricted is restricted in the
policy (`RestrictionsBind`). What transmits is therefore shown to transmit.

*Client, the microphone.* `CaptureIInv`: an open gate is that of the graph in use, in a
call that permits it, and never while there is a transition (`Gated`). A swap of the
senders is of the take at the head of the queue and keeps the gate shut (`Swapping`);
going forward, every sender is still to be swapped or carries that take (`Forward`);
so a sender carries the graph in use, nothing, a take that is over, or the one being
swapped in (`Carried`). What applies constraints stands at the head of the queue
(`Applying`), and a reset that nothing cancelled is of the graph in use (`Intact`).
Hence one microphone at most is heard.

*Client, the session.* `WebIInv`: as long as some tab is not misled, nothing overlapped,
so one writer of credentials at most is at work (`OneWriter`) and a session's newest
credential is in the jar or on its way there (`NewestArrives`). A refresh that is
refused therefore means that the session is over, not that the credential was used.
`ShownIsCarried`: whatever in the browser may still authorise, or is still to change
the jar, is of the session the tab shows. `NobodyIsGone` and `LateAnswersAreOld`: once a
tab logged out, or is about to hear that it did, nothing in the browser authorises, and
what it still waits for is outdated. That a new login takes a session nothing names yet
is `NamedExist`.

*Client, the peers.* `PeersAgree` speaks of the end of a negotiation, so the invariant
has to say where each negotiation stands. `PeerLocal` speaks of one side: what it
awaits fits its signalling state (`SideHolds`), it does one thing at a time unless
descriptions met (`Orderly`), and a change of its screen is in the session, in the
pending offer, queued, or in an offer still to be made (`OfferCarries`, `ScreenDue`); an
offer that is about is of its maker's connection as it was, or of an earlier one
(`OffersKnown`). `PeerPairs` speaks of both. What comes in an inbox after its last
"left" is of the other's present stay in the call, and `Stays` says what either can
still believe of the other's stays. An offer that is pending is on its way, held by the
other or answered, and only one of these (`Awaited`): it is in exactly one place, and
the answer on its way is what the other took for the session. Two connections have one
session or one of them is to call (`SessionsMatch`); who has a connection calls who has
none, or is to be called (`NotForgotten`). The converse is the hard part: an offer that
waits is of a connection that still calls, or its maker is to hear of the join that
ended it before any answer, or it is to meet another offer (`OfferStands`, `HeldStands`,
`AnewOffers`), and the last makes `collided` true. With nothing on its way the
disjunctions collapse into `PeersAgree`. The numbers of joins and of views are any.

*Client, senders and sounds* (`VoicePeersProofs`). `TransportIInv`: an application under
way aims at the wish in force or has a newer one behind it (`SetterAims`); it knows the
value before it, and a value of the sender that is not recorded as managed slipped
(`SetterKnows`); so whether it is answered, fails, times out or is taken back, what it
shows at the end is the sender's or is about to be corrected (`RateSettled`). The codec
preference written is the wish unless the browser lacks it (`CodecWritten`). For the
sounds it suffices to add that nothing waits from an earlier session and that whatever
sounds has a timer to end it (`CueIInv`).

### What is not proved

Liveness (`RevokedSocketsAreCutOff`) needs fairness and `ENABLED`, which this prover
does not do. Model-checked only: of `CallSettles` all but `CuesAreTimely`; of
`PageSettles` the parts `PreferencesSettle` and `MessagesSettle`; `AccessIsShown` as far
as the page is concerned (its other conjunct is `MembersAreHeard`); and the group type
invariants where they go beyond the modules above. They speak of components with a state
of their own for every answer still on its way, whose inductive invariants are yet to be
found; `AppPage` also filters its list by a condition (`SelectSeq`), of which the library
has no facts that can be used here. What `Permissions`
computes is compared with nothing but the code: no second definition is at hand, and
its properties are those of its callers.

What the proofs asked of the model, besides assumptions and types: `SeniorsUntouched` got
its second conjunct, and in `WebSession` the history was too narrow. When two tabs write
credentials at once, the stale one left in the jar misleads a third tab too, which an
instance with two tabs cannot show: an overlap now counts against every tab.

## 5. Where the code and its documents differ

Each is a run that finds the counterexample.

- `SessionsLoginRace`: a login in flight during a password change survives it.
  `src/apps/api/test/account-security.e2e-spec.ts:247-248` expects the old password to
  be refused.
- `SocketHandshakeRace`: a handshake in flight during a revocation leaves a serving
  socket of a revoked session. `docs/product/account-security.md:291-293` says it
  must fail closed.
- `SocketRegistryLeak`: a disconnect during the handshake leaves a dead socket in the
  registry, which `docs/product/account-security.md:342-344` says holds authenticated
  sockets only.
- `VoiceGhost`: a disconnect during `voice:join` leaves a member nobody removes
  (`docs/product/f6-voice-ux.md:228-229`).
- `VoiceUnmuteRace`: a self-unmute in flight during a moderator's mute wins, against
  the comment at `ws/ws.gateway.ts:363`.
- `VoiceKickScope`: a kick's final clean-up is not limited to its server
  (`docs/product/permissions-model.md:246`).

## 6. What the models show besides

These came up as counterexamples while a property was being stated; the properties
except them by the history named.

- Messages: history pages are cut by `id < before` although ids are random and the
  order is by `createdAt` (`message/message.service.ts:34-48` against the cursor of
  `docs/api-spec.md:435`), so older pages may skip or repeat. A retried send with
  attachments is refused. The presigned URL (`upload.service.ts:88-96`) takes a PUT for
  300 s whatever has become of the file. `fought`, `overwritten`, `leaked`, `revived`,
  `misheard`: section 2.
- Invites: `leaveServer` by a banned member removes its ban.
- Web session (`strayed`): a logout whose access cookie has expired, or that fails,
  leaves the session alive; two tabs that refresh at once can log one out, and a third
  one after them; a late refresh can overwrite the cookies of a new login.
- Voice client (`doubted`): mute or deafen chosen while connecting is overruled by the
  join's answer; a join that times out leaves its seat; a late leave can end a newer
  join of the same channel.
- Capture (`astray`): a graph that fails while it waits for its commit is committed;
  a swap whose compensation fails leaves a peer on a dead track.
- Peers (`collided`, `early`): offers that meet are not resolved; signals do not name
  their connection; a screen added before the first offer is applied is not sent.
- Sender parameters (`slipped`, `unread`): one set by a superseded transaction is not
  recorded as managed; a dropped statistics read leaves the codec pending.
- Output (`outdated`, `lost`): a graph on its way is reported as applied although it was
  made for older settings.
- Screens (`marred`, `crossedMedia`, `overtaken`): a start granted after its timeout
  leaves a share nobody ends; unwatching and watching again at once keeps a dead stream's
  element; the gateway reads the shares or the viewers first and sends them after awaits
  (`ws.gateway.ts:545-550`), and the tab takes them in place of what it was told in between
  (`useVoice.ts:2155`).
- Shares (`clash`): a share started by a socket that left or disconnected while
  `validateStream` was awaited (`ws.gateway.ts:413-425`) has nobody to end it.
- Message list and members (`amiss`, `missed`): an answer replaces what events said
  meanwhile; nothing is read again after a reconnection. The removal of a member is acted
  on if the list shown has that member, with this user (`useMemberContext.ts:116`): while
  the first list, or the first with a member who came back, is being read, it is ignored.
  An unban is told to no one.
- Page (`offTrack`): answers are taken in any order, a failed list is shown as empty,
  and a second answer can leave the page loading. A server entered elsewhere is shown when
  the list is asked for again, at the latest on Home or when the socket is ready
  (`page.tsx:331-338`); and if the page had dealt with its removal before, a later one is
  disregarded (`page.tsx:266`). A removal answered or heard after the user came back
  removes the server.

## 7. Plan

1. Done: sections 2 to 4.
2. To prove next: the settling of `CallTransport`, `VoiceMix` and `Preferences`.
3. To model next: `ServerService` beyond memberships, avatar editing, the eviction
   before a channel is deleted, `MessageLinkPreviewService`'s check before its emit.

## 8. Not modelled

Rendering and layout, image decoding and animation limits, WebRTC media, URL policy
and transport of link previews, storage providers beyond put, head and delete, CSRF
and validation of a single request, the first-user bootstrap, navigation, audit and
health, deployment, backup and the spikes under `src/tools`. They are stateless, pure
I/O or computation on bytes. A restart of the API that leaves voice entries in Redis
(`ws/ws.gateway.ts:223`) is in `VoiceRooms`, but the settled properties except the
users it concerns: the repository lists it as an open defect. Data that no property
tells apart is abstracted: ids, names and contents are model values, times are
"expired" or not.
