---------------------------- MODULE VoiceClient ----------------------------
(***************************************************************************)
(* One tab's voice call: useVoice's join attempts, its leave, mute and     *)
(* deafen, what the gateway's answers and events do to them, and the       *)
(* policy that lets the microphone transmit. VoiceCapture has what a        *)
(* permitted microphone goes through. The gateway is abstracted: it serves *)
(* the packets of this socket one after the other, each at once, although  *)
(* its handlers await and may overtake each other. Those steps, and what   *)
(* they do to each other, are in VoiceRooms.                               *)
(***************************************************************************)
EXTENDS Naturals, Sequences, FiniteSets

CONSTANTS
    CallChannel, Attempt,
    Unmute,        \* requests to unmute that are in flight at once
    MaxQueue,      \* bound on the packets and events on their way
    NoCall, NoTask

ASSUME VoiceClientAssumption ==
    NoCall \notin CallChannel /\ NoTask \notin Attempt \cup Unmute /\ MaxQueue \in Nat

VARIABLES
    online,
    granted, memberMuted, seat,     \* the gateway: permissions, Member.isMuted, the voice entry
    viewing, listed,                \* whether the page shows the call's server, what it may there
    call, callCaps, policy, mic,    \* channelIdRef, callCapabilitiesRef, capturePolicyRef, captureRef
    shownCall,                      \* VoiceState, less its status
    attempt, unmute,                \* calls of join and toggleMute that await something
    packets, inbox,                 \* packets to the gateway, events from it
    doubted                         \* history: "answer", one was given up or met by an event;
                                    \* "early", muted or deafened while connecting

voiceClientVars == <<online, granted, memberMuted, seat, viewing, listed, call, callCaps, policy,
                     mic, shownCall, attempt, unmute, packets, inbox, doubted>>

Capability == {"connect", "speak"}
Caps == {{}, {"connect"}, Capability}
NoSeat == [channel |-> NoCall, muted |-> FALSE, deafened |-> FALSE]
ClosedPolicy == [membership |-> FALSE, selfMuted |-> TRUE, serverMuted |-> FALSE, deafened |-> FALSE,
                 speakRevoked |-> FALSE]
NoUnmute == [pc |-> "idle", channel |-> NoCall, current |-> FALSE]
NoAttempt == [pc |-> "idle", channel |-> NoCall, current |-> FALSE, muted |-> FALSE, serverMuted |-> FALSE]

Packet == [type : {"authorize", "join", "leave", "mute", "unmute", "deafen", "undeafen"},
           channel : CallChannel, task : Attempt \cup Unmute \cup {NoTask}]
\* "keep" stands for a field the event does not have.
Event == [type : {"state", "error", "revoked", "speakRevoked"}, channel : CallChannel \cup {NoCall},
          muted : BOOLEAN, deafened : {"keep", "yes", "no"}, serverMuted : {"keep", "yes", "no"},
          code : {"", "SERVER_MUTED", "MISSING_SPEAK_PERMISSION", "OTHER"}]

VoiceClientTypeOK ==
    /\ {online, memberMuted, viewing} \subseteq BOOLEAN /\ doubted \subseteq {"answer", "early"}
    /\ {granted, listed} \subseteq Caps /\ callCaps \subseteq Capability
    /\ seat \in [channel : CallChannel \cup {NoCall}, muted : BOOLEAN, deafened : BOOLEAN]
    /\ call \in CallChannel \cup {NoCall} /\ mic \in {"none", "closed", "open"}
    /\ policy \in [membership : BOOLEAN, selfMuted : BOOLEAN, serverMuted : BOOLEAN,
                   deafened : BOOLEAN, speakRevoked : BOOLEAN]
    /\ shownCall \in [channel : CallChannel \cup {NoCall},
                      isMuted : BOOLEAN, isDeafened : BOOLEAN, serverMuted : BOOLEAN]
    /\ attempt \in [Attempt -> [pc : {"idle", "authorize", "authorized", "refused", "capture", "ice",
                                      "join", "joined", "late"},
                                channel : CallChannel \cup {NoCall}, current : BOOLEAN,
                                muted : BOOLEAN, serverMuted : BOOLEAN]]
    /\ unmute \in [Unmute -> [pc : {"idle", "sent", "ok", "refused", "late"},
                              channel : CallChannel \cup {NoCall}, current : BOOLEAN]]
    /\ packets \in Seq(Packet) /\ inbox \in Seq(Event) /\ Len(packets) + Len(inbox) <= MaxQueue

VoiceClientInit ==
    /\ online = TRUE /\ granted = Capability /\ memberMuted = FALSE /\ seat = NoSeat
    /\ viewing = TRUE /\ listed = Capability
    /\ call = NoCall /\ callCaps = {} /\ policy = ClosedPolicy /\ mic = "none"
    /\ shownCall = [channel |-> NoCall, isMuted |-> FALSE,
                    isDeafened |-> FALSE, serverMuted |-> FALSE]
    /\ attempt = [t \in Attempt |-> NoAttempt]
    /\ unmute = [t \in Unmute |-> NoUnmute]
    /\ packets = <<>> /\ inbox = <<>> /\ doubted = {}

\* The history is kept.
Doubts(why, when) == doubted' = IF when THEN doubted \cup {why} ELSE doubted

\* The answer of a join knows nothing of what is clicked, or told of an older seat, before it.
BeforeAnswer(restricts) == Doubts("early", restricts /\ \E t \in Attempt : attempt[t].current)

server == <<granted, memberMuted, seat>>
pageVars == <<viewing, listed>>

------------------------------------------------------------
(* Shared steps                                                            *)

\* syncCapturePolicy: while the page shows the call's server, its channel list decides.
CapsOf(c, caps) == IF c # NoCall /\ viewing THEN listed ELSE caps

MicUnder(m, c, p, caps) ==
    IF m = "none" THEN "none"
    ELSE IF /\ c # NoCall /\ caps = Capability
            /\ p = [ClosedPolicy EXCEPT !.membership = TRUE, !.selfMuted = FALSE]
         THEN "open" ELSE "closed"

\* Nothing reads the policy of a call without a capture; join starts with a new one.
PolicyOf(m, p) == IF m = "none" THEN ClosedPolicy ELSE p

Sync(p) ==
    /\ policy' = PolicyOf(mic, p)
    /\ callCaps' = CapsOf(call, callCaps)
    /\ mic' = MicUnder(mic, call, p, callCaps')

Send(type, c, t) == <<[type |-> type, channel |-> c, task |-> t]>>
Emits(sent) == packets' = packets \o sent /\ Len(packets') + Len(inbox) <= MaxQueue
Tells(events) == inbox' = inbox \o events /\ Len(packets') + Len(inbox') <= MaxQueue

Told(b) == IF b THEN "yes" ELSE "no"
StateEvent(m, d, srv) ==
    [type |-> "state", channel |-> seat.channel, muted |-> m, deafened |-> d, serverMuted |-> srv, code |-> ""]
OtherEvent(type, code) ==
    [type |-> type, channel |-> NoCall, muted |-> FALSE, deafened |-> "keep", serverMuted |-> "keep", code |-> code]

\* joinAttemptRef and muteRequestRef: whatever is in flight knows an older number.
OldAttempts == [t \in Attempt |-> [attempt[t] EXCEPT !.current = FALSE]]
OldUnmutes == [t \in Unmute |-> [unmute[t] EXCEPT !.current = FALSE]]

\* resetVoiceSession, with cleanup and stopLocalTracks.
Reset(attempts) ==
    /\ call' = NoCall /\ callCaps' = {} /\ mic' = "none"
    /\ policy' = ClosedPolicy
    /\ shownCall' = [shownCall EXCEPT !.channel = NoCall,
                     !.isMuted = FALSE, !.isDeafened = FALSE]
    /\ attempt' = attempts
    /\ unmute' = OldUnmutes

LeavePacket == IF call = NoCall THEN <<>> ELSE Send("leave", call, NoTask)

------------------------------------------------------------
(* Joining and leaving                                                     *)

\* The sidebar joins a channel other than the one shown. Another call is left first.
JoinClicked(t, c) ==
    /\ attempt[t].pc = "idle" /\ shownCall.channel # c
    /\ online /\ viewing /\ "connect" \in listed
    /\ LET started == [OldAttempts EXCEPT ![t] =
               [NoAttempt EXCEPT !.pc = "authorize", !.channel = c, !.current = TRUE]]
       IN
       IF call \notin {NoCall, c}
       THEN /\ Emits(LeavePacket \o Send("authorize", c, t))
            /\ attempt' = started /\ unmute' = OldUnmutes /\ mic' = "none"
            /\ policy' = ClosedPolicy
            /\ shownCall' = [shownCall EXCEPT !.channel = NoCall,
                             !.isMuted = FALSE, !.isDeafened = FALSE]
       ELSE /\ Emits(Send("authorize", c, t))
            /\ attempt' = started
            /\ UNCHANGED <<unmute, mic, policy, shownCall>>
    /\ call' = c /\ callCaps' = {"connect"} \cup listed
    /\ UNCHANGED <<online, server, pageVars, inbox, doubted>>

\* The catch of join: the call is over, but no number moves.
JoinFails(t, next) ==
    IF attempt[t].current
    THEN /\ call' = NoCall /\ callCaps' = {} /\ mic' = "none"
         /\ policy' = ClosedPolicy
         /\ shownCall' = [shownCall EXCEPT !.channel = NoCall]
         /\ attempt' = [attempt EXCEPT ![t] = [NoAttempt EXCEPT !.pc = next]]
    ELSE /\ attempt' = [attempt EXCEPT ![t] = [NoAttempt EXCEPT !.pc = next]]
         /\ UNCHANGED <<call, callCaps, mic, policy, shownCall>>

\* An authorized attempt takes the microphone, with a new policy and nothing permitted.
AuthorizeAnswered(t) ==
    /\ attempt[t].pc \in {"authorized", "refused"}
    /\ IF attempt[t].pc = "refused" \/ ~attempt[t].current THEN JoinFails(t, "idle")
       ELSE /\ policy' = ClosedPolicy /\ mic' = "closed"
            /\ attempt' = [attempt EXCEPT ![t].pc = "capture"]
            /\ UNCHANGED <<call, callCaps, shownCall>>
    /\ UNCHANGED <<online, server, pageVars, unmute, packets, inbox, doubted>>

CaptureAnswered(t) ==
    /\ attempt[t].pc = "capture"
    /\ \/ JoinFails(t, "idle")
       \/ /\ attempt[t].current
          /\ attempt' = [attempt EXCEPT ![t].pc = "ice"]
          /\ UNCHANGED <<call, callCaps, mic, policy, shownCall>>
    /\ UNCHANGED <<online, server, pageVars, unmute, packets, inbox, doubted>>

IceFetched(t) ==
    /\ attempt[t].pc = "ice"
    /\ IF attempt[t].current
       THEN Emits(Send("join", attempt[t].channel, t)) /\ attempt' = [attempt EXCEPT ![t].pc = "join"]
       ELSE attempt' = [attempt EXCEPT ![t] = NoAttempt] /\ UNCHANGED packets
    /\ UNCHANGED <<online, server, pageVars, call, callCaps, policy, mic, shownCall, unmute, inbox, doubted>>

\* Plausible bug: an abandoned attempt forgets the membership it still got.
ForgetsMembership(t) == UNCHANGED <<packets, doubted>>

\* A late answer leaves what was joined. It may meet a newer join of the same channel.
LeavesLateMembership(t) ==
    /\ Emits(Send("leave", attempt[t].channel, NoTask))
    /\ Doubts("answer", call = attempt[t].channel)

\* Plausible bug: only a moderator's mute is taken from the answer.
OpensUnlessModerated(a) == [policy EXCEPT !.membership = TRUE, !.selfMuted = FALSE, !.serverMuted = a.serverMuted]

JoinedPolicy(a) == [policy EXCEPT !.membership = TRUE, !.selfMuted = a.muted, !.serverMuted = a.serverMuted]

JoinAnswered(t) ==
    LET a == attempt[t] IN
    /\ a.pc = "joined"
    /\ attempt' = [attempt EXCEPT ![t] = NoAttempt]
    /\ IF a.current
       THEN /\ Sync(JoinedPolicy(a))
            /\ shownCall' = [shownCall EXCEPT !.channel = a.channel,
                             !.isMuted = a.muted, !.serverMuted = a.serverMuted]
            /\ UNCHANGED <<packets, doubted>>
       ELSE LeavesLateMembership(t) /\ UNCHANGED <<policy, callCaps, mic, shownCall>>
    /\ UNCHANGED <<online, server, pageVars, call, unmute, inbox>>

\* After 10 s a request counts as refused, whatever becomes of it.
JoinTimesOut(t) ==
    /\ attempt[t].pc \in {"authorize", "join", "joined"}
    /\ JoinFails(t, IF attempt[t].pc = "joined" THEN "idle" ELSE "late")
    /\ Doubts("answer", attempt[t].pc # "authorize")
    /\ UNCHANGED <<online, server, pageVars, unmute, packets, inbox>>

\* By the user, or by the page when the membership of the server is gone.
Leave ==
    /\ call # NoCall
    /\ Emits(LeavePacket) /\ Reset(OldAttempts)
    /\ UNCHANGED <<online, server, pageVars, inbox, doubted>>

------------------------------------------------------------
(* Mute and deafen                                                         *)

MuteClicked ==
    /\ call # NoCall /\ ~shownCall.serverMuted /\ ~shownCall.isMuted
    /\ Emits(Send("mute", call, NoTask))
    /\ Sync([policy EXCEPT !.selfMuted = TRUE])
    /\ shownCall' = [shownCall EXCEPT !.isMuted = TRUE]
    /\ unmute' = OldUnmutes
    /\ UNCHANGED <<online, server, pageVars, call, attempt, inbox>> /\ BeforeAnswer(TRUE)

UnmuteClicked(t) ==
    /\ unmute[t].pc = "idle"
    /\ call # NoCall /\ ~shownCall.serverMuted /\ shownCall.isMuted
    /\ IF viewing /\ "speak" \notin listed
       THEN Sync([policy EXCEPT !.selfMuted = TRUE]) /\ UNCHANGED <<unmute, packets>>
       ELSE /\ Emits(Send("unmute", call, t))
            /\ unmute' = [OldUnmutes EXCEPT ![t] = [pc |-> "sent", channel |-> call, current |-> TRUE]]
            /\ UNCHANGED <<policy, callCaps, mic>>
    /\ UNCHANGED <<online, server, pageVars, call, shownCall, attempt, inbox, doubted>>

\* An unmute that is still the newest opens the microphone, and ends deafening.
UnmuteAnswered(t) ==
    LET r == unmute[t] IN
    /\ \/ r.pc \in {"ok", "refused"} /\ unmute' = [unmute EXCEPT ![t] = NoUnmute]
       \/ r.pc = "sent" /\ unmute' = [unmute EXCEPT ![t] = [NoUnmute EXCEPT !.pc = "late"]]
    /\ IF ~r.current THEN UNCHANGED <<callCaps, policy, mic, shownCall, packets>>
       ELSE IF r.pc = "ok"
       THEN LET p == [policy EXCEPT !.selfMuted = FALSE, !.deafened = FALSE, !.speakRevoked = FALSE] IN
            /\ policy' = PolicyOf(mic, p)
            /\ callCaps' = CapsOf(call, callCaps \cup {"speak"})
            /\ mic' = MicUnder(mic, call, p, callCaps')
            /\ shownCall' = [shownCall EXCEPT !.isMuted = FALSE, !.isDeafened = FALSE]
            /\ Emits(IF shownCall.isDeafened THEN Send("undeafen", r.channel, NoTask) ELSE <<>>)
       ELSE /\ Sync([policy EXCEPT !.selfMuted = TRUE])
            /\ shownCall' = [shownCall EXCEPT !.isMuted = TRUE]
            /\ UNCHANGED packets
    /\ UNCHANGED <<online, server, pageVars, call, attempt, inbox, doubted>>

\* Deafening mutes; undeafening leaves muted.
DeafenClicked ==
    LET deaf == ~shownCall.isDeafened IN
    /\ call # NoCall
    /\ Emits(Send(IF deaf THEN "deafen" ELSE "undeafen", call, NoTask)
             \o (IF deaf /\ ~shownCall.isMuted THEN Send("mute", call, NoTask) ELSE <<>>))
    /\ Sync([policy EXCEPT !.selfMuted = TRUE, !.deafened = deaf])
    /\ shownCall' = [shownCall EXCEPT !.isDeafened = deaf, !.isMuted = deaf \/ @]
    /\ unmute' = OldUnmutes
    /\ UNCHANGED <<online, server, pageVars, call, attempt, inbox>> /\ BeforeAnswer(TRUE)

------------------------------------------------------------
(* Events                                                                  *)

\* A told restriction ends the chance of an unmute that is in flight.
UnmutesAfter(e) ==
    IF \/ e.type = "state" /\ (e.muted \/ e.serverMuted = "yes" \/ e.deafened = "yes")
       \/ e.type = "error" /\ e.code # "OTHER"
       \/ e.type = "speakRevoked"
    THEN OldUnmutes ELSE unmute

Merged(told, old) == IF told = "keep" THEN old ELSE told = "yes"

\* handleStateUpdated for the own user: it may close the microphone, never open it.
StateUpdated ==
    LET e == Head(inbox)
        closes == e.muted \/ e.serverMuted = "yes" \/ e.deafened = "yes"
    IN
    /\ inbox # <<>> /\ e.type = "state"
    /\ IF call # NoCall /\ e.channel = call
       THEN /\ unmute' = UnmutesAfter(e)
            /\ Sync([policy EXCEPT !.selfMuted = closes \/ @,
                     !.serverMuted = Merged(e.serverMuted, @), !.deafened = Merged(e.deafened, @)])
            /\ shownCall' = [shownCall EXCEPT !.isMuted = closes \/ @,
                             !.isDeafened = Merged(e.deafened, @), !.serverMuted = Merged(e.serverMuted, @)]
            /\ BeforeAnswer(e.deafened = "yes")
       ELSE UNCHANGED <<unmute, policy, callCaps, mic, shownCall, doubted>>
    /\ inbox' = Tail(inbox)
    /\ UNCHANGED <<online, server, pageVars, call, attempt, packets>>

VoiceError ==
    LET e == Head(inbox) IN
    /\ inbox # <<>> /\ e.type = "error"
    /\ unmute' = UnmutesAfter(e)
    /\ Sync(CASE e.code = "SERVER_MUTED" -> [policy EXCEPT !.selfMuted = TRUE, !.serverMuted = TRUE]
              [] e.code = "OTHER" -> [policy EXCEPT !.selfMuted = TRUE]
              [] OTHER -> [policy EXCEPT !.selfMuted = TRUE, !.speakRevoked = TRUE])
    /\ shownCall' = CASE e.code = "SERVER_MUTED" -> [shownCall EXCEPT !.isMuted = TRUE, !.serverMuted = TRUE]
                      [] e.code = "OTHER" -> shownCall
                      [] OTHER -> [shownCall EXCEPT !.isMuted = TRUE]
    /\ inbox' = Tail(inbox)
    /\ UNCHANGED <<online, server, pageVars, call, attempt, packets, doubted>>

\* Both revocations name the server only; without a call they are ignored.
PermissionRevoked ==
    /\ inbox # <<>> /\ Head(inbox).type = "revoked"
    /\ IF call # NoCall THEN Emits(LeavePacket) /\ Reset(OldAttempts)
       ELSE UNCHANGED <<call, callCaps, policy, mic, shownCall, attempt, unmute, packets>>
    /\ inbox' = Tail(inbox)
    /\ UNCHANGED <<online, server, pageVars, doubted>>

SpeakPermissionRevoked ==
    /\ inbox # <<>> /\ Head(inbox).type = "speakRevoked"
    /\ IF call # NoCall
       THEN /\ unmute' = UnmutesAfter(Head(inbox))
            /\ Sync([policy EXCEPT !.selfMuted = TRUE, !.speakRevoked = TRUE])
            /\ shownCall' = [shownCall EXCEPT !.isMuted = TRUE]
       ELSE UNCHANGED <<unmute, policy, callCaps, mic, shownCall>>
    /\ inbox' = Tail(inbox)
    /\ UNCHANGED <<online, server, pageVars, call, attempt, packets, doubted>>

\* The socket goes: the gateway clears the seat, what was asked is never answered.
Disconnect ==
    /\ online
    /\ online' = FALSE /\ seat' = NoSeat /\ packets' = <<>> /\ inbox' = <<>>
    /\ LET local(t) == attempt[t].pc \in {"capture", "ice"}
           kept == [t \in Attempt |-> IF local(t) THEN [attempt[t] EXCEPT !.current = FALSE] ELSE NoAttempt]
       IN
       IF call # NoCall
       THEN Reset(kept)
       ELSE attempt' = kept /\ UNCHANGED <<call, callCaps, policy, mic, shownCall, unmute>>
    /\ UNCHANGED <<granted, memberMuted, pageVars, doubted>>

Reconnect ==
    /\ ~online /\ online' = TRUE
    /\ unmute' = [t \in Unmute |-> NoUnmute]
    /\ UNCHANGED <<server, pageVars, call, callCaps, policy, mic, shownCall, attempt, packets, inbox, doubted>>

------------------------------------------------------------
(* The gateway                                                             *)

Front == Head(packets)
Served == packets # <<>> /\ packets' = Tail(packets)
ClientKept == UNCHANGED <<online, pageVars, call, callCaps, policy, mic, shownCall>>

\* Answers to a request that was given up reach nobody.
AttemptGets(pc, m, srv) ==
    attempt' = [attempt EXCEPT ![Front.task] =
        IF @.pc = "late" THEN NoAttempt ELSE [@ EXCEPT !.pc = pc, !.muted = m, !.serverMuted = srv]]
UnmuteGets(pc) ==
    unmute' = [unmute EXCEPT ![Front.task] =
        IF @.pc = "late" THEN NoUnmute ELSE [@ EXCEPT !.pc = pc]]

ServeAuthorize ==
    /\ Served /\ Front.type = "authorize"
    /\ AttemptGets(IF "connect" \in granted THEN "authorized" ELSE "refused", FALSE, FALSE)
    /\ UNCHANGED <<server, unmute, inbox, doubted>> /\ ClientKept

\* The channel the socket was in is left whether or not the join succeeds.
ServeJoin ==
    LET m == memberMuted \/ "speak" \notin granted IN
    /\ Served /\ Front.type = "join"
    /\ IF "connect" \in granted
       THEN /\ seat' = [channel |-> Front.channel, muted |-> m, deafened |-> FALSE]
            /\ Tells(IF m THEN <<[StateEvent(TRUE, "keep", Told(memberMuted)) EXCEPT !.channel = Front.channel]>>
                     ELSE <<>>)
            /\ AttemptGets("joined", m, memberMuted)
       ELSE seat' = NoSeat /\ Tells(<<OtherEvent("error", "OTHER")>>) /\ AttemptGets("refused", FALSE, FALSE)
    /\ UNCHANGED <<granted, memberMuted, unmute, doubted>> /\ ClientKept

ServeLeave ==
    /\ Served /\ Front.type = "leave"
    /\ seat' = IF seat.channel = Front.channel THEN NoSeat ELSE seat
    /\ UNCHANGED <<granted, memberMuted, attempt, unmute, inbox, doubted>> /\ ClientKept

ServeMute ==
    /\ Served /\ Front.type \in {"mute", "deafen", "undeafen"}
    /\ seat' = IF seat.channel # Front.channel THEN seat
               ELSE IF Front.type = "mute" THEN [seat EXCEPT !.muted = TRUE]
               ELSE [seat EXCEPT !.deafened = Front.type = "deafen"]
    /\ UNCHANGED <<granted, memberMuted, attempt, unmute, inbox, doubted>> /\ ClientKept

ServeUnmute ==
    /\ Served /\ Front.type = "unmute"
    /\ IF seat.channel # Front.channel
       THEN UnmuteGets("refused") /\ UNCHANGED <<seat, inbox>>
       ELSE IF "speak" \notin granted \/ memberMuted
       THEN /\ seat' = [seat EXCEPT !.muted = TRUE] /\ UnmuteGets("refused")
            /\ Tells(IF "speak" \notin granted
                     THEN <<StateEvent(TRUE, Told(seat.deafened), "keep"), OtherEvent("error", "MISSING_SPEAK_PERMISSION")>>
                     ELSE <<StateEvent(TRUE, Told(seat.deafened), "yes"), OtherEvent("error", "SERVER_MUTED")>>)
       ELSE seat' = [seat EXCEPT !.muted = FALSE] /\ UnmuteGets("ok") /\ UNCHANGED inbox
    /\ UNCHANGED <<granted, memberMuted, attempt, doubted>> /\ ClientKept

\* A restriction that meets the answer of a join is overruled by it.
MeetsAnswer == Doubts("answer", \E t \in Attempt : attempt[t].pc = "joined")

ModeratorMutes(m) ==
    /\ memberMuted # m /\ memberMuted' = m /\ packets' = packets
    /\ IF seat.channel = NoCall THEN UNCHANGED <<seat, inbox>>
       ELSE seat' = [seat EXCEPT !.muted = m \/ @] /\ Tells(<<StateEvent(FALSE, Told(seat.deafened), Told(m))>>)
    /\ MeetsAnswer
    /\ UNCHANGED <<granted, attempt, unmute>> /\ ClientKept

\* reconcileChannelPermissions
PermissionsChange(caps) ==
    /\ granted # caps /\ granted' = caps /\ packets' = packets
    /\ IF seat.channel = NoCall THEN UNCHANGED <<seat, inbox>>
       ELSE IF "connect" \notin caps THEN seat' = NoSeat /\ Tells(<<OtherEvent("revoked", "")>>)
       ELSE IF "speak" \notin caps
       THEN seat' = [seat EXCEPT !.muted = TRUE] /\ Tells(<<OtherEvent("speakRevoked", "")>>)
       ELSE UNCHANGED <<seat, inbox>>
    /\ UNCHANGED <<memberMuted, attempt, unmute, doubted>> /\ ClientKept

------------------------------------------------------------
(* The page                                                                *)

\* The channel list is fetched again, or another server is shown, of which nothing counts
\* here; both make the layout effect apply the policy.
PageChanges(v, caps) ==
    /\ <<v, caps>> # pageVars
    /\ caps = IF v THEN granted ELSE {}
    /\ viewing' = v /\ listed' = caps
    /\ callCaps' = IF call # NoCall /\ v THEN caps ELSE callCaps
    /\ mic' = MicUnder(mic, call, policy, callCaps')
    /\ UNCHANGED <<online, server, call, policy, shownCall, attempt, unmute, packets, inbox, doubted>>

VoiceClientNext ==
    \/ \E t \in Attempt :
           \/ \E c \in CallChannel : JoinClicked(t, c)
           \/ AuthorizeAnswered(t) \/ CaptureAnswered(t) \/ IceFetched(t)
           \/ JoinAnswered(t) \/ JoinTimesOut(t)
    \/ Leave \/ MuteClicked \/ DeafenClicked
    \/ \E t \in Unmute : UnmuteClicked(t) \/ UnmuteAnswered(t)
    \/ StateUpdated \/ VoiceError \/ PermissionRevoked \/ SpeakPermissionRevoked
    \/ Disconnect \/ Reconnect
    \/ ServeAuthorize \/ ServeJoin \/ ServeLeave \/ ServeMute \/ ServeUnmute
    \/ \E m \in BOOLEAN : ModeratorMutes(m)
    \/ \E caps \in Caps : PermissionsChange(caps)
    \/ \E v \in BOOLEAN, caps \in Caps : PageChanges(v, caps)

VoiceClientSpec == VoiceClientInit /\ [][VoiceClientNext]_voiceClientVars

------------------------------------------------------------
(* Properties                                                              *)

\* A microphone that may transmit is in a call that is shown as such, and shown as neither
\* muted nor deafened nor muted by a moderator.
MicrophoneIsShown ==
    mic = "open" /\ "early" \notin doubted =>
        /\ shownCall.channel = call /\ call # NoCall
        /\ ~shownCall.isMuted /\ ~shownCall.isDeafened /\ ~shownCall.serverMuted

VoiceQuiet ==
    /\ online /\ packets = <<>> /\ inbox = <<>>
    /\ \A t \in Attempt : attempt[t].pc = "idle"
    /\ \A t \in Unmute : unmute[t].pc = "idle"

\* Once everything asked is answered and everything told has arrived, the gateway has the
\* user in the channel the tab is in and in no other, and a microphone that may transmit is
\* one the gateway lists as unmuted, of a member who may speak there. Not so after a join
\* that timed out, a join answered late while a newer one joins the same channel, or a
\* moderator's mute that met the answer of a join.
VoiceSettles ==
    VoiceQuiet /\ doubted = {} =>
        /\ seat.channel = call
        /\ mic = "open" => ~seat.muted /\ ~memberMuted /\ "speak" \in granted
=============================================================================
