------------------------------- MODULE AppPage -------------------------------
(***************************************************************************)
(* The page of a tab (app/app/page.tsx): the servers of the user, the      *)
(* route, and of the server in the route its channels. Each is read by     *)
(* calls that are answered in any order, again after every event that says *)
(* something changed, and again when the socket is ready.                  *)
(***************************************************************************)
EXTENDS Naturals, Sequences, FiniteSets

LOCAL INSTANCE SequencesExt

CONSTANTS PageServer, PageChannel,  \* the servers; the text channels: pairs of a server and a name
          Revocable,                \* the servers the user may come and go
          NoPageServer, NoPageChannel,
          MaxPageCalls              \* bound: calls on their way before something new happens

VARIABLES
    belongs, visible,             \* the servers the user is a member of, the channels seen there
    news, linked, everReady,      \* events to the tab; its socket, and whether readyVersion > 0
    route,                        \* the server and the channel of the URL
    loadedServer, channelsShown,  \* loadedServerId, channels
    resolvedChannel, routeStatus, \* resolvedChannelId
    serversShown, serversStatus,
    removedServers,               \* removedServerIdsRef
    calls,                        \* the calls in flight, in the order they were made
    offTrack,                     \* history: something late or failed is shown, or a removal was disregarded
    unlisted                      \* history: servers entered elsewhere since the list was last asked for

worldVars == <<belongs, visible, news, linked>>
routeVars == <<everReady, route, loadedServer, channelsShown, resolvedChannel, routeStatus>>
serverVars == <<serversShown, serversStatus, removedServers>>
pageVars == <<worldVars, routeVars, serverVars, calls, offTrack, unlisted>>

HomeRoute == <<NoPageServer, NoPageChannel>>
Routes == {HomeRoute} \cup (PageServer \X {NoPageChannel}) \cup PageChannel
ChannelsOf(s) == {c \in PageChannel : c[1] = s}
SeenIn(s) == {c \in visible : c[1] = s}
CallKinds == {"servers", "load", "resolve", "first", "create", "delete", "leave", "enter", "entered"}

AppPageTypeOK ==
    /\ belongs \subseteq PageServer /\ visible \subseteq PageChannel
    /\ {linked, everReady, offTrack} \subseteq BOOLEAN
    /\ route \in Routes /\ loadedServer \in PageServer \cup {NoPageServer}
    /\ channelsShown \subseteq PageChannel
    /\ resolvedChannel \in PageChannel \cup {HomeRoute}
    /\ routeStatus \in {"home", "loading", "channel-loading", "channel", "empty", "unavailable"}
    /\ serversShown \cup removedServers \cup unlisted \subseteq PageServer
    /\ serversStatus \in {"loading", "ready", "error"}
    /\ \A i \in DOMAIN calls : calls[i].kind \in CallKinds /\ calls[i].to \in Routes
    /\ \A i \in DOMAIN news : news[i].kind \in {"changed", "removed", "joined"} /\ news[i].server \in PageServer

\* A call: the route it is for, what it has read of a list (of servers or of channels) and of the
\* destination, and whether something newer is shown already. One that writes is "done" once served.
PageCall(kind, to) ==
    [kind |-> kind, to |-> to, read |-> {}, failed |-> FALSE, late |-> FALSE, list |-> {}, target |-> HomeRoute]

AppPageInit ==
    /\ belongs = PageServer /\ visible = PageChannel /\ news = <<>>
    /\ linked = FALSE /\ everReady = FALSE /\ offTrack = FALSE
    /\ route = HomeRoute /\ routeStatus = "home" /\ resolvedChannel = HomeRoute
    /\ loadedServer = NoPageServer /\ channelsShown = {}
    /\ serversShown = {} /\ serversStatus = "loading" /\ removedServers = {}
    /\ calls = <<PageCall("servers", HomeRoute)>> /\ unlisted = {}

CallsOf(kinds) == {i \in DOMAIN calls : calls[i].kind \in kinds}
WriteDone(i) == "done" \in calls[i].read

\* Bound: something new happens while little is on its way.
PageMeanwhile == Len(calls) + Len(news) <= MaxPageCalls /\ ~offTrack

------------------------------------------------------------
(* The servers, as the tab hears of them.                                  *)

\* What a call would read now: a list, or a destination: the route's channel, or one of those to be
\* seen. Another's server cannot be read.
ListNow(c) ==
    IF c.kind \in {"servers", "entered"} THEN {<<s, NoPageChannel>> : s \in belongs} ELSE SeenIn(c.to[1])
TargetsNow(c) ==
    IF c.to[2] # NoPageChannel THEN SeenIn(c.to[1]) \cap {c.to}
    ELSE IF SeenIn(c.to[1]) = {} THEN {HomeRoute} ELSE SeenIn(c.to[1])
PartsOf(c) ==
    CASE c.kind \in {"servers", "entered", "load"} -> {"list"} [] c.kind = "resolve" -> {"target"}
      [] c.kind = "first" -> {"list", "target"} [] OTHER -> {}
Readable(c) == c.kind \in {"servers", "entered"} \/ c.to[1] \in belongs

Failed(c) == [PageCall(c.kind, c.to) EXCEPT !.failed = TRUE]

\* The call, having read these parts as well: in each way it can.
HavingRead(c, parts) ==
    LET new == parts \ c.read IN
    IF new = {} \/ c.failed THEN {c}
    ELSE IF ~Readable(c) \/ ("target" \in new /\ TargetsNow(c) = {})
         THEN {Failed(c)}
    ELSE {[c EXCEPT !.read = @ \cup new, !.target = t,
                    !.list = IF "list" \in new THEN ListNow(c) ELSE @] :
             t \in IF "target" \in new THEN TargetsNow(c) ELSE {c.target}}

\* Read in full, or failed.
AnswersOf(c) == HavingRead(c, PartsOf(c)) \cup {Failed(c)}

\* A call may have read any of its parts before a change; what it has not read it reads later.
ReadsBefore(pending) ==
    LET ways(c) == UNION {HavingRead(c, parts) : parts \in SUBSET PartsOf(c)}
        also(done, c) == {Append(d, w) : d \in done, w \in ways(c)}
    IN FoldLeft(also, {<<>>}, pending)

TellsTab(kind, s) == news' = IF linked THEN Append(news, [kind |-> kind, server |-> s]) ELSE news

ChannelsChange(s) ==
    /\ PageMeanwhile /\ news = <<>> /\ s \in belongs
    /\ \E shown \in SUBSET ChannelsOf(s) : shown # SeenIn(s) /\ visible' = (visible \ SeenIn(s)) \cup shown
    /\ TellsTab("changed", s) /\ calls' \in ReadsBefore(calls)
    /\ UNCHANGED <<belongs, linked, routeVars, serverVars, offTrack, unlisted>>

MemberRemoved(s) ==
    /\ PageMeanwhile /\ news = <<>> /\ s \in belongs \cap Revocable
    /\ belongs' = belongs \ {s} /\ visible' = visible \ SeenIn(s) /\ TellsTab("removed", s)
    /\ calls' \in ReadsBefore(calls)
    /\ UNCHANGED <<linked, routeVars, serverVars, offTrack, unlisted>>

\* An invite that is accepted is told to the server, the user's own sockets among it; a server that
\* is created is told to no one.
Enters(s) ==
    /\ s \notin belongs /\ belongs' = belongs \cup {s}
    /\ \E shown \in SUBSET ChannelsOf(s) : visible' = visible \cup shown
    /\ TellsTab("joined", s) \/ UNCHANGED news

\* In another tab, or on another device.
EntersElsewhere(s) ==
    /\ PageMeanwhile /\ news = <<>> /\ Enters(s) /\ calls' \in ReadsBefore(calls)
    /\ unlisted' = unlisted \cup {s}
    /\ UNCHANGED <<linked, routeVars, serverVars, offTrack>>

\* What the user does to a channel or to a membership.
ServeWrite(i) ==
    /\ i \in CallsOf({"create", "delete", "leave", "enter"}) /\ ~WriteDone(i)
    /\ LET s == calls[i].to[1] IN
       \/ /\ calls[i].kind = "create" /\ s \in belongs /\ TellsTab("changed", s) /\ UNCHANGED belongs
          /\ \E c \in ChannelsOf(s) \ visible : visible' = visible \cup {c}
       \/ /\ calls[i].kind = "delete" /\ s \in belongs /\ TellsTab("changed", s) /\ UNCHANGED belongs
          /\ \E c \in SeenIn(s) : visible' = visible \ {c}
       \/ /\ calls[i].kind = "leave" /\ IF s \in belongs THEN TellsTab("removed", s) ELSE UNCHANGED news
          /\ belongs' = belongs \ {s} /\ visible' = visible \ SeenIn(s)
       \/ calls[i].kind = "enter" /\ Enters(s)
    /\ \E f \in ReadsBefore(calls) : calls' = [f EXCEPT ![i].read = {"done"}]
    /\ UNCHANGED <<linked, routeVars, serverVars, offTrack, unlisted>>

SocketDown ==
    /\ PageMeanwhile /\ linked /\ linked' = FALSE /\ news' = <<>>
    /\ UNCHANGED <<belongs, visible, routeVars, serverVars, calls, offTrack, unlisted>>

------------------------------------------------------------
(* The page: a route and what its effects call.                            *)

DroppedOf(kinds, pending) == SelectSeq(pending, LAMBDA c : c.kind \notin kinds)

\* The list of servers is read anew; the answer of an older read is dropped.
ReadsServers(pending) == Append(DroppedOf({"servers"}, pending), PageCall("servers", HomeRoute))

\* Another route: what was being resolved is dropped. The channels are loaded by the effect that
\* waits for the socket, and for a server that was not loaded also with the destination.
GoesTo(r, pending, ready) ==
    LET s == r[1]
        kept == DroppedOf({"resolve", "first"}, pending)
        loads == IF s # NoPageServer /\ ready THEN <<PageCall("load", r)>> ELSE <<>>
        resolves ==
            IF s = NoPageServer THEN <<>>
            ELSE <<PageCall(IF loadedServer' = s THEN "resolve" ELSE "first", r)>>
        home == (r = HomeRoute) # (route = HomeRoute)
    IN
    /\ route' = r /\ resolvedChannel' = HomeRoute
    /\ routeStatus' =
          IF s = NoPageServer THEN "home" ELSE IF loadedServer' = s THEN "channel-loading" ELSE "loading"
    /\ calls' = (IF home THEN ReadsServers(kept) ELSE kept) \o loads \o resolves
    /\ serversStatus' = IF home THEN "loading" ELSE serversStatus
    /\ unlisted' = IF home THEN {} ELSE unlisted

Navigate(r) ==
    /\ PageMeanwhile /\ r # route /\ UNCHANGED loadedServer /\ GoesTo(r, calls, everReady)
    /\ channelsShown' = IF r = HomeRoute \/ loadedServer = r[1] THEN channelsShown ELSE {}
    /\ UNCHANGED <<worldVars, everReady, serversShown, removedServers, offTrack>>

SocketReady ==
    /\ ~linked /\ linked' = TRUE /\ everReady' = TRUE /\ serversStatus' = "loading" /\ unlisted' = {}
    /\ calls' = ReadsServers(calls) \o (IF route = HomeRoute THEN <<>> ELSE <<PageCall("load", route)>>)
    /\ UNCHANGED <<belongs, visible, news, route, loadedServer, channelsShown, resolvedChannel, routeStatus,
                   serversShown, removedServers, offTrack>>

\* The user retries the list; creates or deletes a channel, leaves or deletes a server, or enters one.
Asks(kind, s) ==
    /\ PageMeanwhile /\ calls = <<>>
    /\ \/ kind = "servers" /\ s = NoPageServer /\ serversStatus = "error" /\ serversStatus' = "loading"
       \/ kind \in {"create", "delete"} /\ s = route[1] /\ s # NoPageServer /\ UNCHANGED serversStatus
       \/ kind = "leave" /\ s \in serversShown \cap Revocable /\ UNCHANGED serversStatus
       \/ kind = "enter" /\ s \in PageServer \ serversShown /\ UNCHANGED serversStatus
    /\ LET to == IF kind \in {"create", "delete"} THEN route ELSE <<s, NoPageChannel>>
       IN calls' = Append(calls, PageCall(kind, to))
    /\ unlisted' = IF kind = "servers" THEN {} ELSE unlisted
    /\ UNCHANGED <<worldVars, routeVars, serversShown, removedServers, offTrack>>

\* A server is gone: from the list, and from the route; once only, unless it was entered here
\* again since. So the removal of one that was entered again elsewhere is disregarded. A list read
\* before brings it back, and an entry served before.
RemovesServer(s, pending) ==
    LET back(c) == \/ c.kind \in {"servers", "entered"} /\ <<s, NoPageChannel>> \in c.list
                   \/ c.kind = "enter" /\ c.to[1] = s /\ c.read # {}
        marked == [j \in DOMAIN pending |-> [pending[j] EXCEPT !.late = @ \/ back(pending[j])]]
    IN
    /\ offTrack' = \/ offTrack \/ s \in belongs
                   \/ s \in removedServers \cap (serversShown \cup {route[1]})
    /\ IF s \in removedServers
       THEN calls' = marked /\ UNCHANGED <<routeVars, serverVars, unlisted>>
       ELSE /\ removedServers' = removedServers \cup {s} /\ serversShown' = serversShown \ {s}
            /\ UNCHANGED <<everReady, loadedServer, channelsShown>>
            /\ IF route[1] = s THEN GoesTo(HomeRoute, marked, everReady)
               ELSE calls' = marked /\ UNCHANGED <<route, resolvedChannel, routeStatus, serversStatus, unlisted>>

------------------------------------------------------------
(* What arrives.                                                           *)

HandleNews ==
    /\ news # <<>> /\ news' = Tail(news)
    /\ LET n == Head(news)
           home == IF route = HomeRoute THEN ReadsServers(calls) ELSE calls
           anew == unlisted' = IF route = HomeRoute THEN {} ELSE unlisted
       IN
       \/ /\ n.kind \in {"changed", "joined"} /\ UNCHANGED routeVars /\ anew
          /\ calls' = home \o (IF n.kind = "changed" /\ n.server = route[1] THEN <<PageCall("load", route)>> ELSE <<>>)
          /\ serversStatus' = IF route = HomeRoute THEN "loading" ELSE serversStatus
          /\ UNCHANGED <<serversShown, removedServers, offTrack>>
       \/ n.kind = "removed" /\ RemovesServer(n.server, home)
    /\ UNCHANGED <<belongs, visible, linked>>

\* Plausible bug: a list of channels is taken whatever server is open.
TakenAnyway(c) == c.kind = "load"

\* A list of channels is taken when its server is still open.
TakenHere(c) == c.kind = "load" /\ c.to[1] = route[1]

\* A list that was read and asked for before is late once this is shown.
AfterShowing(i) ==
    LET same == IF calls[i].kind \in {"load", "first"} THEN {"load", "first"} ELSE {"servers", "entered"}
        older(j) == /\ j < i /\ calls[j].kind \in same /\ "list" \in calls[j].read
                    /\ calls[j].to[1] = calls[i].to[1] \/ "servers" \in same
    IN RemoveAt([j \in DOMAIN calls |-> [calls[j] EXCEPT !.late = @ \/ older(j)]], i)

LoadAnswered(i) ==
    /\ i \in CallsOf({"load"})
    /\ \E c \in AnswersOf(calls[i]) :
       LET listed == IF c.failed THEN {} ELSE c.list
           missing == c.to[2] # NoPageChannel /\ c.to \notin listed
           back == <<c.to[1], NoPageChannel>>
       IN
       IF ~TakenHere(c)
       THEN calls' = RemoveAt(calls, i) /\ UNCHANGED <<routeVars, serverVars, offTrack, unlisted>>
       ELSE /\ channelsShown' = listed
            /\ UNCHANGED <<everReady, loadedServer, serversShown, removedServers>>
            /\ IF missing /\ route # back
               THEN GoesTo(back, AfterShowing(i), everReady)
               ELSE /\ calls' = AfterShowing(i) /\ UNCHANGED <<route, serversStatus, unlisted>>
                    /\ resolvedChannel' = IF missing THEN HomeRoute ELSE resolvedChannel
                    /\ routeStatus' = IF missing THEN "channel-loading" ELSE routeStatus
            /\ offTrack' = \/ offTrack \/ c.failed \/ calls[i].late
                           \/ missing /\ route = back /\ CallsOf({"resolve", "first"}) = {}
    /\ UNCHANGED worldVars

\* A destination without its list, and with it.
RouteResolved(i) ==
    /\ i \in CallsOf({"resolve", "first"})
    /\ \E c \in AnswersOf(calls[i]) :
       LET first == c.kind = "first"
       IN
       IF c.failed
       THEN /\ calls' = RemoveAt(calls, i) /\ routeStatus' = "unavailable"
            /\ UNCHANGED <<everReady, route, loadedServer, channelsShown, resolvedChannel, serverVars,
                           offTrack, unlisted>>
       ELSE /\ loadedServer' = c.to[1] /\ channelsShown' = IF first THEN c.list ELSE channelsShown
            /\ UNCHANGED <<everReady, serversShown, removedServers>>
            /\ IF c.to[2] = NoPageChannel /\ c.target # HomeRoute
               THEN GoesTo(c.target, IF first THEN AfterShowing(i) ELSE RemoveAt(calls, i), everReady)
               ELSE /\ calls' = IF first THEN AfterShowing(i) ELSE RemoveAt(calls, i)
                    /\ resolvedChannel' = c.target
                    /\ routeStatus' = IF c.target = HomeRoute THEN "empty" ELSE "channel"
                    /\ UNCHANGED <<route, serversStatus, unlisted>>
            /\ offTrack' = (offTrack \/ (first /\ calls[i].late))
    /\ UNCHANGED worldVars

ServersAnswered(i) ==
    /\ i \in CallsOf({"servers"})
    /\ \E c \in AnswersOf(calls[i]) :
          /\ calls' = IF c.failed THEN RemoveAt(calls, i) ELSE AfterShowing(i)
          /\ serversStatus' = IF c.failed THEN "error" ELSE "ready"
          /\ serversShown' = IF c.failed THEN serversShown ELSE {d[1] : d \in c.list}
          /\ offTrack' = (offTrack \/ (calls[i].late /\ ~c.failed))
    /\ UNCHANGED <<worldVars, routeVars, removedServers, unlisted>>

\* A channel was created or deleted: the channels are loaded. A server was left: it is removed.
WriteAnswered(i) ==
    /\ i \in CallsOf({"create", "delete", "leave"})
    /\ LET c == calls[i] IN
       \/ /\ ~WriteDone(i) /\ calls' = RemoveAt(calls, i) /\ UNCHANGED <<routeVars, serverVars, offTrack, unlisted>>
       \/ /\ WriteDone(i) /\ c.kind \in {"create", "delete"} /\ UNCHANGED <<routeVars, serverVars, offTrack, unlisted>>
          /\ LET to == IF c.kind = "delete" THEN c.to ELSE <<c.to[1], NoPageChannel>>
             IN calls' = Append(RemoveAt(calls, i), PageCall("load", to))
       \/ WriteDone(i) /\ c.kind = "leave" /\ RemovesServer(c.to[1], RemoveAt(calls, i))
    /\ UNCHANGED worldVars

\* A server was entered: it is shown, the list is read, and then it is opened.
EntryAnswered(i) ==
    /\ i \in CallsOf({"enter"})
    /\ LET c == calls[i]
           others == RemoveAt(calls, i)
           late(d) == d.kind \in {"servers", "entered"} /\ d.read # {} /\ c.to \notin d.list
       IN
       \/ ~WriteDone(i) /\ calls' = others /\ UNCHANGED <<serverVars, offTrack, unlisted>>
       \/ /\ WriteDone(i)
          /\ removedServers' = removedServers \ {c.to[1]} /\ serversShown' = serversShown \cup {c.to[1]}
          /\ unlisted' = unlisted \ {c.to[1]}
          /\ LET marked == [j \in DOMAIN others |-> [others[j] EXCEPT !.late = @ \/ late(others[j])]]
             IN calls' = Append(marked, PageCall("entered", c.to))
          /\ offTrack' = (offTrack \/ c.late \/ (c.to[1] \notin belongs /\ news = <<>>))
          /\ UNCHANGED serversStatus
    /\ UNCHANGED <<worldVars, routeVars>>

EntryListed(i) ==
    /\ i \in CallsOf({"entered"})
    /\ \E c \in AnswersOf(calls[i]) :
       LET others == IF c.failed THEN RemoveAt(calls, i) ELSE AfterShowing(i) IN
       /\ serversShown' = IF c.failed THEN serversShown ELSE {d[1] : d \in c.list}
       /\ offTrack' = (offTrack \/ (calls[i].late /\ ~c.failed))
       /\ UNCHANGED <<everReady, loadedServer, removedServers>>
       /\ IF route = c.to
          THEN /\ calls' = others
               /\ UNCHANGED <<route, resolvedChannel, routeStatus, serversStatus, channelsShown, unlisted>>
          ELSE /\ GoesTo(c.to, others, everReady)
               /\ channelsShown' = IF loadedServer = c.to[1] THEN channelsShown ELSE {}
    /\ UNCHANGED worldVars

AppPageNext ==
    \/ \E s \in PageServer : ChannelsChange(s) \/ MemberRemoved(s) \/ EntersElsewhere(s)
    \/ \E r \in Routes : Navigate(r)
    \/ \E kind \in CallKinds, s \in PageServer \cup {NoPageServer} : Asks(kind, s)
    \/ \E i \in DOMAIN calls :
          \/ ServeWrite(i) \/ LoadAnswered(i) \/ RouteResolved(i)
          \/ ServersAnswered(i) \/ WriteAnswered(i) \/ EntryAnswered(i) \/ EntryListed(i)
    \/ SocketDown \/ SocketReady \/ HandleNews

------------------------------------------------------------
PageQuiet == calls = <<>> /\ news = <<>> /\ linked /\ ~offTrack

\* When all has arrived, the page shows the servers the user belongs to (unless it says it could
\* not read them), and of the open server the channels that may be seen; the channel of the
\* route is shown as open if and only if it is one of them; and nothing is shown as loading
\* for ever. A server entered elsewhere need not be shown before the list is asked for again. Not so
\* when an answer or a removal was handled after something newer, when a failed answer is shown as
\* an empty list, when a removal was disregarded, or when a second answer sends back a route that
\* has been resolved already.
RouteSettles ==
    PageQuiet =>
        /\ serversStatus # "error" => belongs \ unlisted \subseteq serversShown /\ serversShown \subseteq belongs
        /\ (routeStatus = "home") = (route = HomeRoute)
        /\ routeStatus \in {"home", "channel", "empty", "unavailable"}
        /\ routeStatus \in {"channel", "empty"} =>
               loadedServer = route[1] /\ channelsShown = SeenIn(route[1])
        /\ routeStatus = "channel" => route = resolvedChannel /\ route \in visible
=============================================================================
