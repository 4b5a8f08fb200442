--------------------------- MODULE ScreenPresenter ---------------------------
(***************************************************************************)
(* A member of a call presents a screen: the tab that asks for a share,    *)
(* opens the browser's picker, sends what was picked to who watches and    *)
(* takes it back (hooks/useVoice.ts), and the gateway that grants and ends *)
(* shares (ws.gateway.ts). One other member of the call may watch.         *)
(*                                                                         *)
(* The gateway serves the tab's packets one at a time, its events arrive   *)
(* in order, and the tab's own join of the call succeeds. Whether a        *)
(* renegotiation is waited for, or only queued, is not determined here;    *)
(* VoicePeers has the negotiation itself.                                  *)
(***************************************************************************)
EXTENDS Naturals, Sequences

CONSTANTS Share,           \* shares the gateway may create, each once
          Start,           \* clicks on "share your screen" under way
          NoShare, NoStream,
          MaxNotices,      \* bound: packets and events on their way before another action
          MaxSessions      \* bound: calls joined and left

VARIABLES
    screenStatus, localShare,   \* the tab: screenShareStatusRef, localScreenShareIdRef
    stream,         \* the captured screen, named by the click that asked for it
    watchers,          \* its shares that the other is known to watch (authoritativeScreenViewersRef)
    added,           \* what was added to the connection to the other (screenSendersRef)
    linked,         \* there is a connection to the other
    inCall, callSession,        \* channelIdRef is set; joinAttemptRef
    start,          \* the clicks: asked the gateway, then the browser
    stopping,       \* the user's stop awaits a renegotiation: the share it found
    ending,         \* stops told by the gateway await one: their shares
    requests, notices,          \* packets to the gateway, its events
    seatTaken, share, watched, otherIn,   \* the gateway: who is in the call, the share, whether it is watched
    answering,      \* what was read for the viewer state it is about to tell
    spent,          \* shares created
    marred          \* history: what the tab does not recover from

screenVars == <<screenStatus, localShare, stream, watchers, added, linked, inCall, callSession, start, stopping, ending,
                requests, notices, seatTaken, share, watched, otherIn, answering, spent, marred>>

NoStart == [pc |-> "idle", share |-> NoShare, session |-> 0]
Unsent == [share |-> NoShare, stream |-> NoStream]
NoAnswer == [share |-> NoShare, watched |-> FALSE, read |-> FALSE]
On(queue) == {queue[i] : i \in DOMAIN queue}
Word(kind, s) == [kind |-> kind, share |-> s, watched |-> FALSE]

ScreenPresenterTypeOK ==
    /\ screenStatus \in {"idle", "starting", "live", "stopping"}
    /\ {localShare, stopping, share} \subseteq Share \cup {NoShare} /\ stream \in Start \cup {NoStream}
    /\ watchers \cup ending \cup spent \subseteq Share /\ share # NoShare => share \in spent
    /\ added \in [share : Share \cup {NoShare}, stream : Start \cup {NoStream}] /\ (added # Unsent => linked)
    /\ {linked, inCall, seatTaken, watched, otherIn} \subseteq BOOLEAN /\ callSession \in Nat
    /\ start \in [Start -> [pc : {"idle", "asked", "picking"}, share : Share \cup {NoShare}, session : Nat]]
    /\ requests \in Seq({"start", "stop", "state", "leave", "join"})
    /\ \A n \in On(notices) :
          n.kind \in {"started", "stopped", "error", "state", "viewerJoined", "viewerLeft", "left", "came", "joined"}
    /\ answering \in [share : Share \cup {NoShare}, watched : BOOLEAN, read : BOOLEAN]
    /\ watched => share # NoShare /\ otherIn
    /\ marred \subseteq {"late", "overtaken", "outlived", "stuck"}

ScreenPresenterInit ==
    /\ screenStatus = "idle" /\ localShare = NoShare /\ stream = NoStream /\ watchers = {} /\ added = Unsent
    /\ linked = TRUE /\ inCall = TRUE /\ callSession = 0 /\ start = [f \in Start |-> NoStart]
    /\ stopping = NoShare /\ ending = {} /\ requests = <<>> /\ notices = <<>>
    /\ seatTaken = TRUE /\ share = NoShare /\ watched = FALSE /\ otherIn = TRUE /\ answering = NoAnswer
    /\ spent = {} /\ marred = {}

gatewayVars == <<seatTaken, share, watched, otherIn, answering, spent>>
Room == Len(requests) + Len(notices) < MaxNotices
Ask(packet) == requests' = Append(requests, packet)
Marks(name, happens) == marred' = IF happens THEN marred \cup {name} ELSE marred

------------------------------------------------------------
(* What is added to the other.                                              *)

\* The screen is on the connection when the share is watched and was captured.
ReconciledSender(local, captured, viewers) ==
    IF local \in viewers /\ captured # NoStream THEN [share |-> local, stream |-> captured] ELSE Unsent

ReconcileScreen(local, captured, viewers) ==
    added' = IF linked THEN ReconciledSender(local, captured, viewers) ELSE added

StopScreenTracks == stream' = NoStream /\ screenStatus' = "idle"

------------------------------------------------------------
(* The user.                                                               *)

StartScreenShare(f) ==
    /\ start[f].pc = "idle" /\ inCall /\ screenStatus = "idle" /\ Room
    /\ screenStatus' = "starting" /\ Ask("start")
    /\ start' = [start EXCEPT ![f] = [pc |-> "asked", share |-> NoShare, session |-> callSession]]
    /\ UNCHANGED <<localShare, stream, watchers, added, linked, inCall, callSession, stopping, ending, notices, gatewayVars,
                   marred>>

\* After ten seconds; what the gateway grants later has nobody to pick a screen for it.
StartTimesOut(f) ==
    /\ start[f].pc = "asked" /\ start' = [start EXCEPT ![f] = NoStart] /\ screenStatus' = "idle"
    /\ Marks("late", \/ "start" \in On(requests) \/ \E n \in On(notices) : n.kind \in {"started", "error"}
                     \/ \E g \in Start \ {f} : start[g].pc # "idle")
    /\ UNCHANGED <<localShare, stream, watchers, added, linked, inCall, callSession, stopping, ending, requests, notices,
                   gatewayVars>>

\* The share or the call may have gone meanwhile, or another click was faster.
StillWanted(f) == start[f].session = callSession /\ start[f].share = localShare /\ screenStatus = "starting"

ScreenPicked(f) ==
    /\ start[f].pc = "picking" /\ start' = [start EXCEPT ![f] = NoStart]
    /\ IF StillWanted(f)
       THEN stream' = f /\ screenStatus' = "live" /\ ReconcileScreen(localShare, f, watchers)
       ELSE UNCHANGED <<stream, screenStatus, added>>
    /\ UNCHANGED <<localShare, watchers, linked, inCall, callSession, stopping, ending, requests, notices, gatewayVars,
                   marred>>

PickerDismissed(f) ==
    /\ start[f].pc = "picking" /\ start' = [start EXCEPT ![f] = NoStart] /\ screenStatus' = "idle"
    /\ IF inCall THEN Ask("stop") ELSE UNCHANGED requests
    /\ Marks("outlived", \E g \in Start : start[g].pc = "asked")
    /\ UNCHANGED <<localShare, stream, watchers, added, linked, inCall, callSession, stopping, ending, notices, gatewayVars>>

\* Something newer began while a renegotiation was waited for.
Overrun(s) == localShare # s /\ (stream # NoStream \/ \E f \in Start : start[f].pc # "idle")

EndsUserStop ==
    /\ StopScreenTracks /\ localShare' = NoShare /\ watchers' = watchers \ {localShare}
    /\ IF inCall THEN Ask("stop") ELSE UNCHANGED requests

\* Also when the browser's own button ends the capture.
StopScreenShare ==
    /\ screenStatus = "live" /\ stream # NoStream /\ Room /\ added' = Unsent
    /\ \/ EndsUserStop /\ UNCHANGED stopping
       \/ /\ added # Unsent /\ stopping' = localShare /\ screenStatus' = "stopping"
          /\ UNCHANGED <<stream, localShare, watchers, requests>>
    /\ UNCHANGED <<linked, inCall, callSession, start, ending, notices, gatewayVars, marred>>

UserStopEnds ==
    /\ stopping # NoShare /\ stopping' = NoShare /\ EndsUserStop /\ Marks("outlived", Overrun(stopping))
    /\ UNCHANGED <<added, linked, inCall, callSession, start, ending, notices, gatewayVars>>

\* Operations on the connections that are closed may settle later, or never.
Settles == \/ UNCHANGED <<stopping, ending>>
           \/ stopping' = NoShare /\ ending' = {}

LeaveCall ==
    /\ inCall /\ Room /\ callSession < 2 * MaxSessions
    /\ inCall' = FALSE /\ callSession' = callSession + 1 /\ Ask("leave")
    /\ StopScreenTracks /\ added' = Unsent /\ linked' = FALSE /\ localShare' = NoShare /\ watchers' = {} /\ Settles
    /\ UNCHANGED <<start, notices, gatewayVars, marred>>

JoinCall ==
    /\ ~inCall /\ "join" \notin On(requests) /\ ~\E n \in On(notices) : n.kind = "joined"
    /\ ~seatTaken \/ "leave" \in On(requests)
    /\ callSession' = callSession + 1 /\ Ask("join")
    /\ UNCHANGED <<screenStatus, localShare, stream, watchers, added, linked, inCall, start, stopping, ending, notices,
                   gatewayVars, marred>>

------------------------------------------------------------
(* The gateway.                                                            *)

tabVars == <<screenStatus, localShare, stream, watchers, added, linked, inCall, callSession, start, stopping, ending>>

Tell(notice) == notices' = Append(notices, notice)
Serves(packet) == requests # <<>> /\ Head(requests) = packet /\ requests' = Tail(requests) /\ UNCHANGED tabVars

\* The permission to stream may be missing.
ServeShareStart ==
    /\ Serves("start")
    /\ \/ ~seatTaken /\ UNCHANGED <<notices, share, spent>>
       \/ seatTaken /\ Tell(Word("error", NoShare)) /\ UNCHANGED <<share, spent>>
       \/ /\ seatTaken /\ share = NoShare
          /\ \E s \in Share \ spent : share' = s /\ spent' = spent \cup {s} /\ Tell(Word("started", s))
    /\ UNCHANGED <<seatTaken, watched, otherIn, answering, marred>>

\* A share that ends is told to the call, and its viewers are forgotten.
RemovesShare == share' = NoShare /\ watched' = FALSE

ServeShareStop ==
    /\ Serves("stop")
    /\ IF share # NoShare THEN RemovesShare /\ Tell(Word("stopped", share)) ELSE UNCHANGED <<share, watched, notices>>
    /\ UNCHANGED <<seatTaken, otherIn, answering, spent, marred>>

\* The permission is withdrawn.
GatewayStopsShare ==
    /\ share # NoShare /\ Room /\ RemovesShare /\ Tell(Word("stopped", share))
    /\ UNCHANGED <<tabVars, requests, seatTaken, otherIn, answering, spent, marred>>

ServeCallLeave ==
    /\ Serves("leave") /\ seatTaken' = FALSE /\ RemovesShare
    /\ UNCHANGED <<notices, otherIn, answering, spent, marred>>

ServeCallJoin ==
    /\ Serves("join") /\ seatTaken' = TRUE /\ Tell(Word("joined", NoShare))
    /\ UNCHANGED <<share, watched, otherIn, answering, spent, marred>>

\* The share and its viewers are read, and told later.
ReadViewerState ==
    /\ requests # <<>> /\ Head(requests) = "state" /\ ~answering.read
    /\ answering' = [share |-> IF seatTaken THEN share ELSE NoShare, watched |-> watched, read |-> TRUE]
    /\ UNCHANGED <<tabVars, requests, notices, seatTaken, share, watched, otherIn, spent, marred>>

ServeViewerState ==
    /\ answering.read /\ Serves("state") /\ answering' = NoAnswer
    /\ Tell([kind |-> "state", share |-> answering.share, watched |-> answering.watched])
    /\ Marks("overtaken", answering.share # share \/ answering.watched # watched)
    /\ UNCHANGED <<seatTaken, share, watched, otherIn, spent>>

Watch ==
    /\ otherIn /\ share # NoShare /\ ~watched /\ Room
    /\ watched' = TRUE /\ Tell(Word("viewerJoined", share))
    /\ UNCHANGED <<tabVars, requests, seatTaken, share, otherIn, answering, spent, marred>>

StopWatching ==
    /\ watched /\ Room /\ watched' = FALSE /\ Tell(Word("viewerLeft", share))
    /\ UNCHANGED <<tabVars, requests, seatTaken, share, otherIn, answering, spent, marred>>

OtherLeaves ==
    /\ otherIn /\ Room /\ otherIn' = FALSE /\ watched' = FALSE
    /\ notices' = notices \o (IF watched THEN <<Word("viewerLeft", share)>> ELSE <<>>)
                          \o (IF seatTaken THEN <<Word("left", NoShare)>> ELSE <<>>)
    /\ UNCHANGED <<tabVars, requests, seatTaken, share, answering, spent, marred>>

OtherReturns ==
    /\ ~otherIn /\ Room /\ otherIn' = TRUE
    /\ notices' = IF seatTaken THEN Append(notices, Word("came", NoShare)) ELSE notices
    /\ UNCHANGED <<tabVars, requests, seatTaken, share, watched, answering, spent, marred>>

------------------------------------------------------------
(* What the tab does with the gateway's events.                            *)

Hears(kind) ==
    /\ notices # <<>> /\ Head(notices).kind = kind /\ notices' = Tail(notices)
    /\ UNCHANGED <<callSession, gatewayVars>>
Told1 == Head(notices).share

\* Every click still waiting takes it for its own.
HandleScreenStarted ==
    /\ Hears("started")
    /\ IF inCall THEN localShare' = Told1 /\ Ask("state") ELSE UNCHANGED <<localShare, requests>>
    /\ start' = [f \in Start |-> IF start[f].pc # "asked" THEN start[f]
                                 ELSE [pc |-> "picking", share |-> localShare', session |-> callSession]]
    /\ Marks("late", \E f \in Start : start[f].pc = "asked" /\ start[f].session # callSession)
    /\ UNCHANGED <<screenStatus, stream, watchers, added, linked, inCall, stopping, ending>>

HandleShareError ==
    /\ Hears("error")
    /\ start' = [f \in Start |-> IF start[f].pc = "asked" THEN NoStart ELSE start[f]]
    /\ screenStatus' = IF start' # start THEN "idle" ELSE screenStatus
    /\ UNCHANGED <<localShare, stream, watchers, added, linked, inCall, stopping, ending, requests, marred>>

EndsServerStop(s) == StopScreenTracks /\ watchers' = watchers \ {s} /\ localShare' = NoShare

HandleScreenStopped ==
    /\ Hears("stopped")
    /\ \/ Told1 # localShare /\ UNCHANGED <<screenStatus, stream, watchers, localShare, added, ending>>
       \/ Told1 = localShare /\ added' = Unsent /\ EndsServerStop(Told1) /\ UNCHANGED ending
       \/ /\ Told1 = localShare /\ added # Unsent /\ added' = Unsent /\ ending' = ending \cup {Told1}
          /\ UNCHANGED <<screenStatus, stream, watchers, localShare>>
    /\ Marks("outlived", Told1 = localShare /\ \E f \in Start : start[f].pc = "asked")
    /\ UNCHANGED <<linked, inCall, start, stopping, requests>>

ServerStopEnds(s) ==
    /\ s \in ending /\ ending' = ending \ {s} /\ EndsServerStop(s) /\ Marks("outlived", Overrun(s))
    /\ UNCHANGED <<added, linked, inCall, callSession, start, stopping, requests, notices, gatewayVars>>

HandleViewerState ==
    /\ Hears("state")
    /\ IF inCall
       THEN /\ localShare' = IF localShare = NoShare THEN Told1 ELSE localShare
            /\ watchers' = IF Told1 = localShare' /\ Head(notices).watched /\ Told1 # NoShare THEN watchers \cup {Told1}
                        ELSE watchers \ {localShare'}
            /\ ReconcileScreen(localShare', stream, watchers')
       ELSE UNCHANGED <<localShare, watchers, added>>
    /\ UNCHANGED <<screenStatus, stream, linked, inCall, start, stopping, ending, requests, marred>>

HandleViewer(kind, seen) ==
    /\ Hears(kind)
    /\ IF inCall /\ Told1 = localShare
       THEN watchers' = seen /\ ReconcileScreen(localShare, stream, seen)
       ELSE UNCHANGED <<watchers, added>>
    /\ UNCHANGED <<screenStatus, localShare, stream, linked, inCall, start, stopping, ending, requests, marred>>

HandleViewerJoined == HandleViewer("viewerJoined", watchers \cup {Told1})
HandleViewerLeft == HandleViewer("viewerLeft", watchers \ {Told1})

\* What was awaited on the closed connection may never settle.
HandleUserLeft ==
    /\ Hears("left") /\ linked' = FALSE /\ added' = Unsent /\ watchers' = {} /\ Settles
    /\ Marks("stuck", stopping' # stopping \/ ending' # ending)
    /\ UNCHANGED <<screenStatus, localShare, stream, inCall, start, requests>>

\* The connection is made at once.
HandleUserJoined ==
    /\ Hears("came") /\ inCall /\ linked' = TRUE /\ added' = ReconciledSender(localShare, stream, watchers)
    /\ UNCHANGED <<screenStatus, localShare, stream, watchers, inCall, start, stopping, ending, requests, marred>>

HandleCallJoined ==
    /\ Hears("joined") /\ inCall' = TRUE /\ linked' = otherIn
    /\ UNCHANGED <<screenStatus, localShare, stream, watchers, added, start, stopping, ending, requests, marred>>

\* Out of the call nobody's coming and going is followed.
IgnoreUserJoined ==
    /\ Hears("came") /\ ~inCall
    /\ UNCHANGED <<screenStatus, localShare, stream, watchers, added, linked, inCall, start, stopping, ending, requests,
                   marred>>

ScreenPresenterNext ==
    \/ \E f \in Start : StartScreenShare(f) \/ StartTimesOut(f) \/ ScreenPicked(f) \/ PickerDismissed(f)
    \/ StopScreenShare \/ UserStopEnds \/ LeaveCall \/ JoinCall
    \/ ServeShareStart \/ ServeShareStop \/ GatewayStopsShare \/ ServeCallLeave \/ ServeCallJoin
    \/ ReadViewerState \/ ServeViewerState \/ Watch \/ StopWatching \/ OtherLeaves \/ OtherReturns
    \/ HandleScreenStarted \/ HandleShareError \/ HandleScreenStopped \/ HandleViewerState
    \/ HandleViewerJoined \/ HandleViewerLeft \/ HandleUserLeft \/ HandleUserJoined \/ HandleCallJoined
    \/ IgnoreUserJoined
    \/ \E s \in Share : ServerStopEnds(s)

------------------------------------------------------------
ScreenQuiet ==
    /\ requests = <<>> /\ notices = <<>> /\ stopping = NoShare /\ ending = {}
    /\ \A f \in Start : start[f].pc = "idle"

\* When nothing is under way, a screen is captured if and only if the gateway has the tab's
\* share, which is the one the tab takes for its own and shows as live, and it is added to
\* whoever watches and to nobody else; unless a start was granted after it had timed out, the
\* viewers were told out of order, a stop went on over a newer start, or hung for ever.
ScreenSettles ==
    ScreenQuiet /\ marred = {} =>
        /\ screenStatus = IF share # NoShare THEN "live" ELSE "idle"
        /\ share # NoShare <=> stream # NoStream
        /\ share # NoShare => /\ localShare = share
                              /\ added = IF watched THEN [share |-> share, stream |-> stream] ELSE Unsent
=============================================================================
