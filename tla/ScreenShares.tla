---------------------------- MODULE ScreenShares ----------------------------
(***************************************************************************)
(* The screen shares of one voice channel: what VoiceService keeps in      *)
(* Redis about shares and viewers, and the handlers of WsGateway that      *)
(* start, stop, watch and clean up. A handler awaits between its commands. *)
(* Who may share or watch is VoiceRooms' and Permissions' business.        *)
(***************************************************************************)
EXTENDS Integers, FiniteSets

CONSTANTS
    Presenter,      \* users
    ShareSocket,
    PresenterOf,    \* [ShareSocket -> Presenter]
    Share,          \* share ids, drawn again only when no key names them
    ShareTask,      \* handlers in flight at once
    NoShare, NoShareSocket

ASSUME ScreenShareAssumption ==
    /\ PresenterOf \in [ShareSocket -> Presenter]
    /\ NoShare \notin Share /\ NoShareSocket \notin ShareSocket

VARIABLES
    online,        \* sockets connected
    shareKey,      \* screen:share:*: the socket that presents, or none
    channelShares, \* screen:channel:*:shares
    userShare,     \* screen:user:*: the index
    viewersOf,     \* screen:share:*:viewers
    sharesSeen,    \* screen:viewer:socket:*:shares
    viewerKnown,   \* sockets with screen:viewer:socket:*:user
    shareTask,
    clash,         \* history: users whose start met another start or a removal of theirs
    torn           \* history: sockets whose viewer-join met a removal that concerns them

shareVars == <<online, shareKey, channelShares, userShare, viewersOf, sharesSeen,
               viewerKnown, shareTask, clash, torn>>
shareKeys == <<shareKey, channelShares, userShare>>
viewerKeys == <<viewersOf, sharesSeen, viewerKnown>>

NoShareTask ==
    [pc |-> "idle", socket |-> NoShareSocket, share |-> NoShare, shares |-> {}, views |-> {}]

ShareTaskType ==
    [pc : {"idle", "validate", "put", "index", "add", "track", "views", "count", "next", "del", "unlist"},
     socket : ShareSocket \cup {NoShareSocket}, share : Share \cup {NoShare},
     shares : SUBSET Share, views : SUBSET (Share \X ShareSocket)]

ScreenShareTypeOK ==
    /\ online \subseteq ShareSocket
    /\ shareKey \in [Share -> ShareSocket \cup {NoShareSocket}]
    /\ channelShares \subseteq Share
    /\ userShare \in [Presenter -> Share \cup {NoShare}]
    /\ viewersOf \in [Share -> SUBSET ShareSocket]
    /\ sharesSeen \in [ShareSocket -> SUBSET Share]
    /\ viewerKnown \subseteq ShareSocket
    /\ shareTask \in [ShareTask -> ShareTaskType]
    /\ clash \subseteq Presenter /\ torn \subseteq ShareSocket

ScreenShareInit ==
    /\ online = ShareSocket
    /\ shareKey = [x \in Share |-> NoShareSocket]
    /\ channelShares = {} /\ userShare = [u \in Presenter |-> NoShare]
    /\ viewersOf = [x \in Share |-> {}] /\ sharesSeen = [s \in ShareSocket |-> {}]
    /\ viewerKnown = {}
    /\ shareTask = [t \in ShareTask |-> NoShareTask]
    /\ clash = {} /\ torn = {}

Live(x) == shareKey[x] # NoShareSocket

\* Ids that a draw may give: a UUID never meets one that is still around.
Fresh ==
    {x \in Share :
        /\ ~Live(x) /\ x \notin channelShares /\ viewersOf[x] = {}
        /\ \A u \in Presenter : userShare[u] # x
        /\ \A s \in ShareSocket : x \notin sharesSeen[s]
        /\ \A t \in ShareTask : shareTask[t].share # x /\ x \notin shareTask[t].shares
                               /\ \A s \in ShareSocket : <<x, s>> \notin shareTask[t].views}

------------------------------------------------------------
(* Handlers in flight                                                      *)

At(t, pc) == shareTask[t].pc = pc
Running(t, r) == shareTask' = [shareTask EXCEPT ![t] = r]
Becomes(t, pc) == shareTask' = [shareTask EXCEPT ![t].pc = pc]
Over(t) == Running(t, NoShareTask)

StartsFor(t, u) ==
    shareTask[t].pc \in {"validate", "put", "index"} /\ PresenterOf[shareTask[t].socket] = u
Removes(t) == shareTask[t].pc \in {"views", "count", "next", "del", "unlist"}

\* A removal concerns the user whose shares it was asked for.
RemovesFor(t, u) ==
    Removes(t) /\ shareTask[t].socket # NoShareSocket /\ PresenterOf[shareTask[t].socket] = u

AddsViewer(t, s) == shareTask[t].pc \in {"add", "track"} /\ shareTask[t].socket = s

------------------------------------------------------------
(* screen:share-start                                                      *)

\* The socket is in the channel; its permission to stream is asked for. Nothing looks
\* again at the socket, which may leave or disconnect before the answer.
ShareStart(t, s) ==
    LET u == PresenterOf[s] IN
    /\ At(t, "idle") /\ s \in online
    /\ Running(t, [NoShareTask EXCEPT !.pc = "validate", !.socket = s])
    /\ clash' = IF \E o \in ShareTask : StartsFor(o, u) \/ RemovesFor(o, u)
                THEN clash \cup {u} ELSE clash
    /\ UNCHANGED <<online, torn>> /\ UNCHANGED shareKeys /\ UNCHANGED viewerKeys

\* The permission is refused, or createScreenShare looks for a share of the user by its
\* index and goes on if it finds none.
ShareFind(t) ==
    LET u == PresenterOf[shareTask[t].socket] IN
    /\ At(t, "validate")
    /\ \/ Over(t)
       \/ /\ userShare[u] # NoShare => ~Live(userShare[u])
          /\ Cardinality(Fresh) > Cardinality({o \in ShareTask : At(o, "put")})
          /\ Becomes(t, "put")
    /\ UNCHANGED <<online, clash, torn>> /\ UNCHANGED shareKeys /\ UNCHANGED viewerKeys

SharePut(t) ==
    /\ At(t, "put")
    /\ \E x \in Fresh :
           /\ shareKey' = [shareKey EXCEPT ![x] = shareTask[t].socket]
           /\ Running(t, [shareTask[t] EXCEPT !.pc = "index", !.share = x])
    /\ UNCHANGED <<online, channelShares, userShare, clash, torn>> /\ UNCHANGED viewerKeys

\* The channel's list and the user's index, here as one step, like their removal.
ShareIndex(t) ==
    /\ At(t, "index")
    /\ channelShares' = channelShares \cup {shareTask[t].share}
    /\ userShare' = [userShare EXCEPT ![PresenterOf[shareTask[t].socket]] = shareTask[t].share]
    /\ Over(t)
    /\ UNCHANGED <<online, shareKey, clash, torn>> /\ UNCHANGED viewerKeys

------------------------------------------------------------
(* Removal of views, by their viewer or with their share                   *)

\* The removal, by a task that acts for socket s, of these shares and views.
RemovalStarts(t, s, shares, views) ==
    /\ At(t, "idle")
    /\ Running(t, [NoShareTask EXCEPT !.pc = "views", !.socket = s, !.shares = shares, !.views = views])
    /\ clash' = IF \E o \in ShareTask : StartsFor(o, PresenterOf[s])
                THEN clash \cup {PresenterOf[s]} ELSE clash
    /\ torn' = torn \cup {v \in ShareSocket : (\E x \in Share : <<x, v>> \in views)
                                              /\ \E o \in ShareTask : AddsViewer(o, v)}
    /\ UNCHANGED online /\ UNCHANGED shareKeys /\ UNCHANGED viewerKeys

ViewerLeave(t, s, x) ==
    /\ s \in online /\ x \in sharesSeen[s]
    /\ RemovalStarts(t, s, {}, {<<x, s>>})

\* Only the socket that started a share may stop it.
ShareStop(t, s, x) ==
    /\ s \in online /\ shareKey[x] = s
    /\ RemovalStarts(t, s, {x}, {})

\* Eviction from voice, and the loss of STREAM.
ShareEvict(t, s) ==
    /\ s \in online
    /\ RemovalStarts(t, s, {x \in Share : shareKey[x] = s}, {<<x, s>> : x \in sharesSeen[s]})

\* Plausible bug: a disconnect forgets that the socket may be watching.
NoViews(s) == {}

\* cleanupScreenShareViewersForSocket
ViewsOf(s) == {<<x, s>> : x \in sharesSeen[s]}

ShareDisconnect(t, s) ==
    /\ s \in online /\ At(t, "idle")
    /\ online' = online \ {s}
    /\ Running(t, [NoShareTask EXCEPT !.pc = "views", !.socket = s,
                   !.shares = {x \in Share : shareKey[x] = s}, !.views = ViewsOf(s)])
    /\ clash' = IF \E o \in ShareTask : StartsFor(o, PresenterOf[s])
                THEN clash \cup {PresenterOf[s]} ELSE clash
    /\ torn' = IF \E o \in ShareTask : AddsViewer(o, s) THEN torn \cup {s} ELSE torn
    /\ UNCHANGED shareKeys /\ UNCHANGED viewerKeys

\* removeScreenShareViewer: out of both sets, and then a look at what is left.
RemoveView(t) ==
    /\ At(t, "views")
    /\ \E view \in shareTask[t].views :
           /\ viewersOf' = [viewersOf EXCEPT ![view[1]] = @ \ {view[2]}]
           /\ sharesSeen' = [sharesSeen EXCEPT ![view[2]] = @ \ {view[1]}]
           /\ Running(t, [shareTask[t] EXCEPT !.pc = "count", !.views = @ \ {view}])
    /\ UNCHANGED <<online, viewerKnown, clash, torn>> /\ UNCHANGED shareKeys

\* Redis deletes an empty set by itself; the user's key goes by command.
CountViews(t) ==
    /\ At(t, "count")
    /\ viewerKnown' = {s \in viewerKnown : sharesSeen[s] # {}}
    /\ Becomes(t, "views")
    /\ UNCHANGED <<online, viewersOf, sharesSeen, clash, torn>> /\ UNCHANGED shareKeys

\* The next share of the task, if it is still there, and its viewers.
NextRemoval(t) ==
    LET r == shareTask[t] IN
    /\ At(t, "views") /\ r.views = {}
    /\ IF r.share # NoShare THEN Becomes(t, "del") /\ UNCHANGED torn
       ELSE IF r.shares = {} THEN Over(t) /\ UNCHANGED torn
       ELSE \E x \in r.shares :
                IF Live(x)
                THEN /\ Running(t, [r EXCEPT !.shares = @ \ {x}, !.share = x,
                                             !.views = {<<x, v>> : v \in viewersOf[x]}])
                     /\ torn' = torn \cup {v \in ShareSocket : \E o \in ShareTask :
                            AddsViewer(o, v) /\ shareTask[o].share = x}
                ELSE Running(t, [r EXCEPT !.shares = @ \ {x}]) /\ UNCHANGED torn
    /\ UNCHANGED <<online, clash>> /\ UNCHANGED shareKeys /\ UNCHANGED viewerKeys

RemoveKeys(t) ==
    LET x == shareTask[t].share IN
    /\ At(t, "del")
    /\ shareKey' = [shareKey EXCEPT ![x] = NoShareSocket]
    /\ viewersOf' = [viewersOf EXCEPT ![x] = {}]
    /\ Becomes(t, "unlist")
    /\ UNCHANGED <<online, channelShares, userShare, sharesSeen, viewerKnown, clash, torn>>

\* The index goes whatever share it names by now.
Unlist(t) ==
    LET r == shareTask[t] IN
    /\ At(t, "unlist")
    /\ channelShares' = channelShares \ {r.share}
    /\ userShare' = [userShare EXCEPT ![PresenterOf[r.socket]] = NoShare]
    /\ Running(t, [r EXCEPT !.pc = "views", !.share = NoShare])
    /\ UNCHANGED <<online, shareKey, clash, torn>> /\ UNCHANGED viewerKeys

------------------------------------------------------------
(* screen:viewer-join                                                      *)

ViewerJoin(t, s, x) ==
    /\ At(t, "idle") /\ s \in online /\ Live(x) /\ shareKey[x] # s
    /\ Running(t, [NoShareTask EXCEPT !.pc = "add", !.socket = s, !.share = x])
    /\ torn' = IF \E o \in ShareTask :
                      Removes(o) /\ (shareTask[o].share = x \/ x \in shareTask[o].shares
                                     \/ shareTask[o].socket = s
                                     \/ \E y \in Share : <<y, s>> \in shareTask[o].views)
               THEN torn \cup {s} ELSE torn
    /\ UNCHANGED <<online, clash>> /\ UNCHANGED shareKeys /\ UNCHANGED viewerKeys

AddViewer(t) ==
    LET r == shareTask[t] IN
    /\ At(t, "add")
    /\ viewersOf' = [viewersOf EXCEPT ![r.share] = @ \cup {r.socket}]
    /\ Becomes(t, "track")
    /\ UNCHANGED <<online, sharesSeen, viewerKnown, clash, torn>> /\ UNCHANGED shareKeys

TrackViewer(t) ==
    LET r == shareTask[t] IN
    /\ At(t, "track")
    /\ sharesSeen' = [sharesSeen EXCEPT ![r.socket] = @ \cup {r.share}]
    /\ viewerKnown' = viewerKnown \cup {r.socket}
    /\ Over(t)
    /\ UNCHANGED <<online, viewersOf, clash, torn>> /\ UNCHANGED shareKeys

\* A client that connects again has a new socket: an id that no key names.
ShareReconnect(s) ==
    /\ s \notin online /\ sharesSeen[s] = {} /\ s \notin viewerKnown
    /\ \A x \in Share : s \notin viewersOf[x] /\ shareKey[x] # s
    /\ \A t \in ShareTask : shareTask[t].socket # s
    /\ online' = online \cup {s} /\ torn' = torn \ {s}
    /\ UNCHANGED <<shareTask, clash>> /\ UNCHANGED shareKeys /\ UNCHANGED viewerKeys

\* SCREEN_SHARE_CLEANUP_TTL passes with nobody connected. The list and the index of
\* a share have no time to live.
ShareKeysExpire ==
    /\ online = {} /\ \A t \in ShareTask : At(t, "idle")
    /\ shareKey' = [x \in Share |-> NoShareSocket]
    /\ viewersOf' = [x \in Share |-> {}] /\ sharesSeen' = [s \in ShareSocket |-> {}]
    /\ viewerKnown' = {}
    /\ UNCHANGED <<online, channelShares, userShare, shareTask, clash, torn>>

ScreenShareNext ==
    \/ \E t \in ShareTask, s \in ShareSocket :
           \/ ShareStart(t, s) \/ ShareEvict(t, s) \/ ShareDisconnect(t, s)
           \/ \E x \in Share : ShareStop(t, s, x) \/ ViewerLeave(t, s, x) \/ ViewerJoin(t, s, x)
    \/ \E t \in ShareTask :
           \/ ShareFind(t) \/ SharePut(t) \/ ShareIndex(t)
           \/ RemoveView(t) \/ CountViews(t) \/ NextRemoval(t) \/ RemoveKeys(t) \/ Unlist(t)
           \/ AddViewer(t) \/ TrackViewer(t)
    \/ \E s \in ShareSocket : ShareReconnect(s)
    \/ ShareKeysExpire

ScreenShareSpec == ScreenShareInit /\ [][ScreenShareNext]_shareVars

------------------------------------------------------------
(* Properties                                                              *)

\* When no handler is in flight, the keys agree and describe what is on screen. The
\* channel's list names every share, whatever races there were. A user has at most one
\* share, of a connected socket, which its index names: unless its start, from the
\* permission check on, met another start, or a removal, of its own. A viewer
\* and its live share name each other and the viewer is connected: unless its
\* viewer-join met a removal that concerned it or the share.
SettledShares ==
    (\A t \in ShareTask : At(t, "idle")) =>
        /\ \A x \in Share : Live(x) => x \in channelShares
        /\ \A u \in Presenter \ clash :
               LET mine == {x \in Share : Live(x) /\ PresenterOf[shareKey[x]] = u} IN
               /\ mine = IF userShare[u] = NoShare THEN {} ELSE {userShare[u]}
               /\ \A x \in mine : shareKey[x] \in online
        /\ \A s \in ShareSocket \ torn :
               /\ sharesSeen[s] = {x \in Share : s \in viewersOf[x]}
               /\ \A x \in sharesSeen[s] : Live(x) /\ s \in online
               /\ s \in viewerKnown <=> sharesSeen[s] # {}
=============================================================================
