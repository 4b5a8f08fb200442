----------------------------- MODULE VoicePeers -----------------------------
(***************************************************************************)
(* The peer connections of two members of a call (hooks/useVoice.ts) and   *)
(* the signalling the gateway relays between them (ws.gateway.ts).  Who is *)
(* in the call offers to who joins; later either side renegotiates when    *)
(* its screen is to be sent or no longer sent to the other.                *)
(*                                                                         *)
(* An offer or answer is abstracted to what it settles: who offered, at    *)
(* which revision of which connection, and whose screen is sent.  A remote *)
(* offer over a pending local one rolls it back, as browsers do; nothing   *)
(* resolves such a collision.  ICE candidates and several pairs of members *)
(* (independent of each other) are left out.  The gateway relays a         *)
(* member's packets in order, and answers a leave before a new join.       *)
(***************************************************************************)
EXTENDS Naturals, Sequences

CONSTANTS
    Caller,             \* the two members
    NoPeer, NoSession,
    MaxJoins,           \* bound: calls the two of them join
    MaxViews            \* bound: changes of who watches a screen

Other(u) == CHOOSE v \in Caller : v # u

\* An offer, what an answer to it settles, a connection, what the gateway sends
\* a caller and what a caller awaits.
Offer == [by : Caller, pc : Nat, rev : Nat, screen : BOOLEAN]
Agreement == [offer : Offer, with : Nat, screens : [Caller -> BOOLEAN]]
Connection ==
    [id : Nat, state : {"stable", "local", "remote"}, sends : BOOLEAN,
     last : {"none", "make", "renego"}, rev : Nat,
     offered : Offer \union {NoSession}, session : Agreement \union {NoSession}]
PeerEvent ==
    [type : {"joined", "left"}, sdp : {NoSession}]
    \union [type : {"offer"}, sdp : Offer] \union [type : {"answer"}, sdp : Agreement]
PeerTask ==
    [op : {"register", "make", "renego", "answer"}, sdp : Offer \union {NoSession},
     screen : BOOLEAN]

ASSUME VoicePeerAssumption ==
    /\ \E u, v \in Caller : u # v /\ Caller = {u, v}
    /\ NoPeer \notin Connection /\ NoSession \notin Offer \union Agreement
    /\ MaxJoins \in Nat /\ MaxViews \in Nat

VARIABLES
    place,      \* per caller: "out", "room" (joined, unannounced) or "in" the call
    peer,       \* per caller its connection to the other
    work,       \* per caller what it awaits: register, make, renego, answer
    wanted,     \* per caller: a renegotiation is queued (pendingRenegotiation)
    inFlight,   \* per caller: one is creating its offer
    viewed,     \* per caller: the other watches its screen
    arriving,      \* per caller the events the gateway sent it
    made,       \* connections each has made
    views, joins,   \* bound counters
    collided,   \* history: since both had no connection, an offer met another not
                \* yet answered, or an answer was taken for another offer's
    early       \* history: a screen was added to a connection before its offer
                \* was applied, which its answer then does not carry

peerVars ==
    <<place, peer, work, wanted, inFlight, viewed, arriving, made, views, joins, collided, early>>

VoicePeerTypeOK ==
    /\ place \in [Caller -> {"out", "room", "in"}]
    /\ peer \in [Caller -> Connection \union {NoPeer}] /\ work \in [Caller -> SUBSET PeerTask]
    /\ wanted \in [Caller -> BOOLEAN] /\ inFlight \in [Caller -> BOOLEAN]
    /\ viewed \in [Caller -> BOOLEAN] /\ arriving \in [Caller -> Seq(PeerEvent)]
    /\ made \in [Caller -> Nat] /\ views \in 0..MaxViews /\ joins \in 0..MaxJoins
    /\ collided \in BOOLEAN /\ early \in [Caller -> BOOLEAN]

VoicePeerInit ==
    /\ place = [u \in Caller |-> "out"] /\ peer = [u \in Caller |-> NoPeer]
    /\ work = [u \in Caller |-> {}] /\ arriving = [u \in Caller |-> <<>>]
    /\ wanted = [u \in Caller |-> FALSE] /\ inFlight = [u \in Caller |-> FALSE]
    /\ viewed = [u \in Caller |-> FALSE] /\ made = [u \in Caller |-> 0]
    /\ views = 0 /\ joins = 0 /\ collided = FALSE /\ early = [u \in Caller |-> FALSE]

Signal(type, sdp) == [type |-> type, sdp |-> sdp]
Notice(type) == Signal(type, NoSession)
Await(op, sdp, screen) == [op |-> op, sdp |-> sdp, screen |-> screen]

\* The gateway relays signalling between two members; an inbox loses its head
\* when the event is taken.
Relay(u, e) == arriving' = [arriving EXCEPT ![Other(u)] = Append(@, e)]
Relayed(u, box, e) ==
    IF place[u] # "out" /\ place[Other(u)] # "out"
    THEN [box EXCEPT ![Other(u)] = Append(@, e)] ELSE box
Taken(u) == [arriving EXCEPT ![u] = Tail(@)]
Head1(u, type) == arriving[u] # <<>> /\ Head(arriving[u]).type = type

------------------------------------------------------------
(* The call                                                                *)

\* A caller's join is served: it is in the room, and only then announced to
\* whoever is there.  Its older events came before the answers it waited for.
JoinsRoom(u) ==
    /\ place[u] = "out" /\ arriving[u] = <<>> /\ joins < MaxJoins
    /\ place' = [place EXCEPT ![u] = "room"] /\ joins' = joins + 1
    /\ UNCHANGED <<peer, work, wanted, inFlight, viewed, arriving, made, views, collided, early>>

Announced(u) ==
    /\ place[u] = "room" /\ place' = [place EXCEPT ![u] = "in"]
    /\ IF place[Other(u)] # "out" THEN Relay(u, Notice("joined")) ELSE UNCHANGED arriving
    /\ UNCHANGED <<peer, work, wanted, inFlight, viewed, made, views, joins, collided, early>>

\* The pair's state on one side is dropped with the connection.
Closes(u) ==
    /\ peer' = [peer EXCEPT ![u] = NoPeer] /\ work' = [work EXCEPT ![u] = {}]
    /\ wanted' = [wanted EXCEPT ![u] = FALSE] /\ inFlight' = [inFlight EXCEPT ![u] = FALSE]
    /\ viewed' = [viewed EXCEPT ![u] = FALSE]
    /\ collided' = (collided /\ peer[Other(u)] # NoPeer)
    /\ early' = [early EXCEPT ![u] = FALSE]

\* A caller leaves, or its socket is cut and what was sent to it lost.
Leaves(u) ==
    /\ place[u] = "in" /\ place' = [place EXCEPT ![u] = "out"] /\ Closes(u)
    /\ \E lost \in BOOLEAN :
        LET told == IF place[Other(u)] # "out" THEN Append(arriving[Other(u)], Notice("left"))
                    ELSE arriving[Other(u)]
        IN  arriving' = [arriving EXCEPT ![Other(u)] = told, ![u] = IF lost THEN <<>> ELSE @]
    /\ UNCHANGED <<made, views, joins>>

UserLeft(u) ==
    /\ Head1(u, "left") /\ arriving' = Taken(u) /\ Closes(u)
    /\ UNCHANGED <<place, made, views, joins>>

\* What reaches a caller without a local stream is skipped.
Skipped(u) ==
    /\ arriving[u] # <<>> /\ place[u] = "out" /\ Head(arriving[u]).type # "left"
    /\ arriving' = Taken(u)
    /\ UNCHANGED <<place, peer, work, wanted, inFlight, viewed, made, views, joins,
                   collided, early>>

------------------------------------------------------------
(* A new connection                                                        *)

NewPeer(u) ==
    [id |-> made[u] + 1, state |-> "stable", sends |-> FALSE, last |-> "none",
     rev |-> 0, offered |-> NoSession, session |-> NoSession]

\* A connection is put in the map, then the microphone's sender registered,
\* which waits for a change of device to end.
Opens(u, sdp) ==
    /\ peer' = [peer EXCEPT ![u] = NewPeer(u)] /\ made' = [made EXCEPT ![u] = @ + 1]
    /\ work' = [work EXCEPT ![u] = {Await("register", sdp, FALSE)}]

\* Who is in the call offers to the newcomer, unless a connection exists.
UserJoined(u) ==
    /\ Head1(u, "joined") /\ place[u] # "out" /\ arriving' = Taken(u)
    /\ IF peer[u] = NoPeer THEN Opens(u, NoSession) ELSE UNCHANGED <<peer, made, work>>
    /\ UNCHANGED <<place, wanted, inFlight, viewed, views, joins, collided, early>>

\* Registered: the screen is added if the other already watches it; then the
\* connection that was opened to call makes its offer, the one opened by an
\* offer goes on with it.
RegisterDone(u) ==
    \E w \in work[u] :
        /\ w.op = "register"
        /\ peer' = [peer EXCEPT ![u].sends = viewed[u],
                                ![u].last = IF w.sdp = NoSession THEN "make" ELSE @,
                                ![u].state = IF w.sdp = NoSession THEN @ ELSE "remote"]
        /\ work' = [work EXCEPT ![u] = (@ \ {w}) \union
                        {IF w.sdp = NoSession THEN Await("make", NoSession, viewed[u])
                         ELSE Await("answer", w.sdp, FALSE)}]
        /\ collided' = (collided \/ (/\ w.sdp # NoSession
                                     /\ \/ peer[u].state # "stable"
                                        \/ \E o \in work[u] : o.op = "renego"))
        /\ early' = [early EXCEPT ![u] = w.sdp # NoSession /\ viewed[u]]
        /\ UNCHANGED <<place, wanted, inFlight, viewed, arriving, made, views, joins>>

------------------------------------------------------------
(* Offers                                                                  *)

\* The offer that was made last becomes the local description and is sent.
SendsOffer(u, screen, box) ==
    LET offer == [by |-> u, pc |-> peer[u].id, rev |-> peer[u].rev + 1, screen |-> screen]
    IN  /\ peer' = [peer EXCEPT ![u].state = "local", ![u].rev = @ + 1, ![u].offered = offer]
        /\ arriving' = Relayed(u, box, Signal("offer", offer))

\* The first offer; an offer made later has replaced it (the error is caught).
OfferMade(u) ==
    \E w \in work[u] :
        /\ w.op = "make" /\ work' = [work EXCEPT ![u] = @ \ {w}]
        /\ IF peer[u].last = "make" /\ peer[u].state # "remote"
           THEN SendsOffer(u, w.screen, arriving) ELSE UNCHANGED <<peer, arriving>>
        /\ collided' = (collided \/ peer[u].state # "stable")
        /\ UNCHANGED <<place, wanted, inFlight, viewed, made, views, joins, early>>

\* requestRenegotiation on connection pc: queued while signalling is not
\* stable or an offer is being created.
Negotiates(u, pc, tasks) ==
    /\ wanted' = [wanted EXCEPT ![u] = FALSE] /\ inFlight' = [inFlight EXCEPT ![u] = TRUE]
    /\ peer' = [peer EXCEPT ![u] = [pc EXCEPT !.last = "renego"]]
    /\ work' = [work EXCEPT ![u] = tasks \union {Await("renego", NoSession, pc.sends)}]
Renegotiates(u, pc, tasks) ==
    IF pc.state # "stable" \/ inFlight[u]
    THEN /\ wanted' = [wanted EXCEPT ![u] = TRUE] /\ UNCHANGED inFlight
         /\ peer' = [peer EXCEPT ![u] = pc] /\ work' = [work EXCEPT ![u] = tasks]
    ELSE Negotiates(u, pc, tasks)

\* Signalling is stable again: what was queued is negotiated now.
ForgetsQueued(u, pc, tasks) ==
    /\ UNCHANGED <<wanted, inFlight>>
    /\ peer' = [peer EXCEPT ![u] = pc] /\ work' = [work EXCEPT ![u] = tasks]
BecomesStable(u, pc, tasks) ==
    IF wanted[u] THEN Renegotiates(u, pc, tasks) ELSE ForgetsQueued(u, pc, tasks)

\* The offer of a renegotiation is created.  Signalling no longer stable: it
\* is queued again.  Replaced by the first offer, made later: given up, and
\* what was queued behind it goes on.
RenegotiationMade(u) ==
    \E w \in work[u] :
        LET rest == work[u] \ {w}
            Ends == work' = [work EXCEPT ![u] = rest] /\ inFlight' = [inFlight EXCEPT ![u] = FALSE]
        IN  /\ w.op = "renego"
            /\ \/ /\ peer[u].state # "stable" /\ Ends
                  /\ wanted' = [wanted EXCEPT ![u] = TRUE] /\ UNCHANGED <<peer, arriving>>
               \/ /\ peer[u].state = "stable" /\ peer[u].last = "renego" /\ Ends
                  /\ SendsOffer(u, w.screen, arriving) /\ UNCHANGED wanted
               \/ /\ peer[u].state = "stable" /\ peer[u].last # "renego" /\ UNCHANGED arriving
                  /\ IF wanted[u] THEN Negotiates(u, peer[u], rest)
                     ELSE Ends /\ UNCHANGED <<wanted, peer>>
            /\ UNCHANGED <<place, viewed, made, views, joins, collided, early>>

\* The other begins or stops watching this caller's screen: the tracks are
\* added to or taken off the connection, which is then renegotiated.
ViewerChanges(u) ==
    /\ place[u] = "in" /\ place[Other(u)] = "in" /\ views < MaxViews
    /\ ~\E i \in DOMAIN arriving[u] : arriving[u][i].type \in {"left", "joined"}
    /\ views' = views + 1 /\ viewed' = [viewed EXCEPT ![u] = ~@]
    /\ IF peer[u] # NoPeer /\ peer[u].sends # viewed'[u]
       THEN Renegotiates(u, [peer[u] EXCEPT !.sends = viewed'[u]], work[u])
       ELSE UNCHANGED <<peer, work, wanted, inFlight>>
    /\ UNCHANGED <<place, arriving, made, joins, collided, early>>

------------------------------------------------------------
(* Answers                                                                 *)

\* An offer arrives: a connection is opened for it, or it is the remote
\* description of the one there is, over any local offer.
OfferReceived(u) ==
    /\ Head1(u, "offer") /\ place[u] # "out" /\ arriving' = Taken(u)
    /\ LET offer == Head(arriving[u]).sdp
       IN  IF peer[u] = NoPeer THEN Opens(u, offer) /\ UNCHANGED collided
           ELSE /\ peer' = [peer EXCEPT ![u].state = "remote"]
                /\ work' = [work EXCEPT ![u] = @ \union {Await("answer", offer, FALSE)}]
                /\ collided' = (collided \/ peer[u].state # "stable" \/ work[u] # {})
                /\ UNCHANGED made
    /\ UNCHANGED <<place, wanted, inFlight, viewed, views, joins, early>>

\* Whether this side's screen is in what an answer settles: what was not yet
\* negotiated waits for an offer of its own.
KeepsSending(pc, u) == pc.sends /\ pc.session # NoSession /\ pc.session.screens[u]

Settled(u, pc, offer, screen) ==
    [offer |-> offer, with |-> pc,
     screens |-> [v \in Caller |-> IF v = offer.by THEN offer.screen ELSE screen]]

AnswerMade(u) ==
    \E w \in work[u] :
        /\ w.op = "answer"
        /\ IF peer[u].state # "remote"
           THEN work' = [work EXCEPT ![u] = @ \ {w}] /\ UNCHANGED <<peer, wanted, inFlight, arriving>>
           ELSE LET session == Settled(u, peer[u].id, w.sdp, KeepsSending(peer[u], u))
                IN  /\ BecomesStable(u, [peer[u] EXCEPT !.state = "stable", !.session = session],
                                     work[u] \ {w})
                    /\ arriving' = Relayed(u, arriving, Signal("answer", session))
        /\ UNCHANGED <<place, viewed, made, views, joins, collided, early>>

\* An answer to no pending offer is an error that is caught; nothing tells the
\* answer to an offer of an earlier connection from the one awaited.
AnswerReceived(u) ==
    /\ Head1(u, "answer") /\ place[u] # "out" /\ arriving' = Taken(u)
    /\ LET session == Head(arriving[u]).sdp
       IN  IF peer[u] # NoPeer /\ peer[u].state = "local"
           THEN /\ BecomesStable(u, [peer[u] EXCEPT !.state = "stable", !.offered = NoSession,
                                                    !.session = session], work[u])
                /\ collided' = (collided \/ session.offer # peer[u].offered)
           ELSE UNCHANGED <<peer, work, wanted, inFlight, collided>>
    /\ UNCHANGED <<place, viewed, made, views, joins, early>>

VoicePeerNext ==
    \E u \in Caller :
        \/ JoinsRoom(u) \/ Announced(u) \/ Leaves(u) \/ UserLeft(u) \/ Skipped(u)
        \/ UserJoined(u) \/ RegisterDone(u) \/ OfferMade(u) \/ RenegotiationMade(u)
        \/ ViewerChanges(u) \/ OfferReceived(u) \/ AnswerMade(u)
        \/ AnswerReceived(u)

VoicePeerSpec == VoicePeerInit /\ [][VoicePeerNext]_peerVars

------------------------------------------------------------
\* Both are in the call and nothing is under way between them.
PeersQuiet ==
    \A u \in Caller : place[u] = "in" /\ arriving[u] = <<>> /\ work[u] = {}

\* Unless descriptions met (two joins served at once, both sides changing at
\* once, a change before the first offer, a rejoin before the other saw the
\* leave: nothing resolves that), two members of a call end with one session
\* both agreed on, in which each sends its screen exactly when it is watched:
\* no change that came during a negotiation is left behind.  The code leaves
\* out a screen that was added to a new connection before its first offer.
PeersAgree ==
    PeersQuiet /\ ~collided =>
        \A u \in Caller :
            /\ peer[u] # NoPeer /\ peer[u].state = "stable"
            /\ peer[u].session # NoSession /\ peer[u].session = peer[Other(u)].session
            /\ early[u] \/ peer[u].session.screens[u] = viewed[u]
=============================================================================
