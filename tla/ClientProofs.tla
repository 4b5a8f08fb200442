---------------------------- MODULE ClientProofs ----------------------------
(***************************************************************************)
(* Proofs about the web client: what a tab shows of its call and of its    *)
(* microphone (VoiceClient), which gate of the microphone is open while    *)
(* takes are acquired, committed and given up (VoiceCapture), and whose    *)
(* session the tabs of a browser show (WebSession).                        *)
(***************************************************************************)
EXTENDS WebSession, VoiceClient, VoiceCapture, SequenceTheorems, TLAPS

------------------------------------------------------------
(* VoiceClient                                                             *)

PolicyRecord == [membership : BOOLEAN, selfMuted : BOOLEAN, serverMuted : BOOLEAN,
                 deafened : BOOLEAN, speakRevoked : BOOLEAN]
ShownRecord == [channel : CallChannel \cup {NoCall},
                isMuted : BOOLEAN, isDeafened : BOOLEAN, serverMuted : BOOLEAN]
AttemptRecord == [pc : {"idle", "authorize", "authorized", "refused", "capture", "ice",
                        "join", "joined", "late"},
                  channel : CallChannel \cup {NoCall}, current : BOOLEAN,
                  muted : BOOLEAN, serverMuted : BOOLEAN]
UnmuteRecord == [pc : {"idle", "sent", "ok", "refused", "late"},
                 channel : CallChannel \cup {NoCall}, current : BOOLEAN]
SeatRecord == [channel : CallChannel \cup {NoCall}, muted : BOOLEAN, deafened : BOOLEAN]

\* A microphone that transmits has the one policy that lets it, in a call.
OpenPolicy == [ClosedPolicy EXCEPT !.membership = TRUE, !.selfMuted = FALSE]
OpenIsAllowed == mic = "open" => call # NoCall /\ policy = OpenPolicy

\* At most one attempt is still waited for, and it is of the call.
OneAttempt ==
    /\ \A t \in Attempt : attempt[t].pc \in {"idle", "late"} => ~attempt[t].current
    /\ \A t \in Attempt : attempt[t].current => call # NoCall /\ attempt[t].channel = call
    /\ \A s, t \in Attempt : attempt[s].current /\ attempt[t].current => s = t

Connecting == \E t \in Attempt : attempt[t].current

\* A call is shown once it is joined; before, nothing is shown deafened that a click did not make so.
CallIsShown == call = NoCall \/ shownCall.channel = call \/ Connecting
ConnectsUndeafened == "early" \notin doubted /\ (call = NoCall \/ Connecting) => ~shownCall.isDeafened

\* What is shown as restricted is restricted, once the policy counts the tab as a member.
Binds(p, s, c) ==
    p.membership =>
        /\ c # NoCall /\ s.channel = c
        /\ s.isMuted => p.selfMuted
        /\ s.isDeafened => p.deafened
        /\ s.serverMuted => p.serverMuted
RestrictionsBind == "early" \notin doubted => Binds(policy, shownCall, call)

\* A request of an attempt that is on its way is the attempt's only one, and what it awaits
\* unless it gave up.
Asks(p) == p.type \in {"authorize", "join"}
Matches(ps, at) ==
    /\ \A i \in 1..Len(ps) : Asks(ps[i]) =>
           ps[i].task \in Attempt /\ at[ps[i].task].pc \in {ps[i].type, "late"}
    /\ \A i, j \in 1..Len(ps) : Asks(ps[i]) /\ Asks(ps[j]) /\ ps[i].task = ps[j].task => i = j
AsksMatch == Matches(packets, attempt)

\* What is under way is under way to a channel.
Channeled ==
    /\ \A t \in Attempt : attempt[t].pc \notin {"idle", "late"} => attempt[t].channel \in CallChannel
    /\ \A t \in Unmute : unmute[t].current => unmute[t].channel \in CallChannel

CallHolds ==
    /\ VoiceClientTypeOK /\ OpenIsAllowed /\ OneAttempt
    /\ CallIsShown /\ ConnectsUndeafened /\ RestrictionsBind

CallIInv == CallHolds /\ AsksMatch /\ Channeled

\* What becomes of an attempt that awaits no answer, and giving up, contradicts no packet.
LEMMA MatchesAttempts ==
    ASSUME NEW ps \in Seq(Packet), NEW at, NEW bt, Matches(ps, at),
           \A t \in Attempt : \/ bt[t].pc = at[t].pc \/ bt[t].pc = "late"
                             \/ at[t].pc \notin {"authorize", "join", "late"}
    PROVE  Matches(ps, bt)
<1>1. ASSUME NEW i \in 1..Len(ps), Asks(ps[i])
      PROVE  ps[i].task \in Attempt /\ bt[ps[i].task].pc \in {ps[i].type, "late"}
  BY <1>1 DEF Matches, Asks
<1> QED BY <1>1 DEF Matches

LEMMA MatchesQuiet ==
    ASSUME NEW ps \in Seq(Packet), NEW issued \in Seq(Packet), NEW at, Matches(ps, at),
           \A i \in 1..Len(issued) : ~Asks(issued[i])
    PROVE  Matches(ps \o issued, at)
<1> DEFINE qs == ps \o issued
<1>1. \A i \in 1..Len(qs) : Asks(qs[i]) => i \in 1..Len(ps) /\ qs[i] = ps[i]
 <2> SUFFICES ASSUME NEW i \in 1..Len(qs), Asks(qs[i]), ~(i \in 1..Len(ps))
              PROVE  FALSE
   BY DEF qs
 <2>1. i - Len(ps) \in 1..Len(issued) /\ qs[i] = issued[i - Len(ps)] OBVIOUS
 <2> QED BY <2>1
<1> HIDE DEF qs
<1>2. Matches(qs, at) BY <1>1 DEF Matches
<1> QED BY <1>2 DEF qs

LEMMA MatchesAsked ==
    ASSUME NEW ps \in Seq(Packet), NEW p \in Packet, NEW at, NEW bt, Matches(ps, at),
           Asks(p), p.task \in Attempt, at[p.task].pc \notin {"authorize", "join", "late"},
           bt[p.task].pc = p.type,
           \A t \in Attempt \ {p.task} : bt[t].pc = at[t].pc
    PROVE  Matches(ps \o <<p>>, bt)
<1> DEFINE qs == ps \o <<p>>
<1>1. \A i \in 1..Len(qs) : (i = Len(ps) + 1 /\ qs[i] = p) \/ (i \in 1..Len(ps) /\ qs[i] = ps[i]) OBVIOUS
<1>2. \A i \in 1..Len(ps) : Asks(ps[i]) => ps[i].task \in Attempt \ {p.task} BY DEF Matches, Asks
<1> HIDE DEF qs
<1>3. Matches(qs, bt) BY <1>1, <1>2, SMTT(30) DEF Matches
<1> QED BY <1>3 DEF qs

LEMMA MatchesTail ==
    ASSUME NEW ps \in Seq(Packet), ps # <<>>, NEW at, NEW bt, Matches(ps, at),
           \A t \in Attempt : (Asks(Head(ps)) => t # Head(ps).task) => bt[t].pc = at[t].pc
    PROVE  Tail(ps) \in Seq(Packet) /\ Matches(Tail(ps), bt)
<1> DEFINE qs == Tail(ps)
<1>1. qs \in Seq(Packet) /\ Len(qs) = Len(ps) - 1 /\ \A i \in 1..Len(qs) : i + 1 \in 1..Len(ps) /\ qs[i] = ps[i + 1]
  OBVIOUS
<1>2. Head(ps) = ps[1] /\ 1 \in 1..Len(ps) /\ Len(ps) \in Nat OBVIOUS
<1> HIDE DEF qs
<1>3. \A i \in 1..Len(qs) : Asks(qs[i]) => (Asks(Head(ps)) => qs[i].task # Head(ps).task)
  BY <1>1, <1>2 DEF Matches
<1> QED BY <1>1, <1>2, <1>3 DEF Matches, qs

LEMMA CallTypes ==
    VoiceClientTypeOK <=>
        /\ online \in BOOLEAN /\ memberMuted \in BOOLEAN /\ viewing \in BOOLEAN
        /\ doubted \subseteq {"answer", "early"}
        /\ granted \in Caps /\ listed \in Caps /\ callCaps \subseteq Capability
        /\ seat \in SeatRecord /\ call \in CallChannel \cup {NoCall}
        /\ mic \in {"none", "closed", "open"}
        /\ policy \in PolicyRecord /\ shownCall \in ShownRecord
        /\ attempt \in [Attempt -> AttemptRecord] /\ unmute \in [Unmute -> UnmuteRecord]
        /\ packets \in Seq(Packet) /\ inbox \in Seq(Event) /\ Len(packets) + Len(inbox) <= MaxQueue
BY DEF VoiceClientTypeOK, SeatRecord, PolicyRecord, ShownRecord, AttemptRecord, UnmuteRecord

\* What is put on its way is a packet.
LEMMA SendsPackets ==
    ASSUME NEW type \in {"authorize", "join", "leave", "mute", "unmute", "deafen", "undeafen"},
           NEW c \in CallChannel, NEW t \in Attempt \cup Unmute \cup {NoTask}
    PROVE  Send(type, c, t) \in Seq(Packet)
BY DEF Send, Packet

LEMMA EmitsTyped ==
    ASSUME VoiceClientTypeOK, NEW issued \in Seq(Packet), Emits(issued), inbox' = inbox
    PROVE  packets' \in Seq(Packet) /\ Len(packets') + Len(inbox') <= MaxQueue
BY CallTypes DEF Emits

LEMMA ClosedPolicyTyped == ClosedPolicy \in PolicyRecord /\ ~ClosedPolicy.membership
BY DEF ClosedPolicy, PolicyRecord

\* What Sync does.
LEMMA SyncDoes ==
    ASSUME VoiceClientTypeOK, NEW p \in PolicyRecord, Sync(p)
    PROVE  /\ policy' \in PolicyRecord /\ callCaps' \subseteq Capability
           /\ mic' \in {"none", "closed", "open"}
           /\ policy' = p \/ policy' = ClosedPolicy
           /\ mic' = "open" => call # NoCall /\ policy' = OpenPolicy
<1> USE CallTypes
<1>1. callCaps' \subseteq Capability BY DEF Sync, CapsOf, Caps, Capability
<1>2. mic' \in {"none", "closed", "open"} BY DEF Sync, MicUnder
<1>3. policy' = p \/ policy' = ClosedPolicy BY DEF Sync, PolicyOf
<1>4. mic' = "open" => call # NoCall /\ policy' = OpenPolicy BY DEF Sync, MicUnder, PolicyOf, OpenPolicy
<1> QED BY <1>1, <1>2, <1>3, <1>4, ClosedPolicyTyped

LEMMA CallTypesNext ==
    VoiceClientTypeOK' <=>
        /\ online' \in BOOLEAN /\ memberMuted' \in BOOLEAN /\ viewing' \in BOOLEAN
        /\ doubted' \subseteq {"answer", "early"}
        /\ granted' \in Caps /\ listed' \in Caps /\ callCaps' \subseteq Capability
        /\ seat' \in SeatRecord /\ call' \in CallChannel \cup {NoCall}
        /\ mic' \in {"none", "closed", "open"}
        /\ policy' \in PolicyRecord /\ shownCall' \in ShownRecord
        /\ attempt' \in [Attempt -> AttemptRecord] /\ unmute' \in [Unmute -> UnmuteRecord]
        /\ packets' \in Seq(Packet) /\ inbox' \in Seq(Event) /\ Len(packets') + Len(inbox') <= MaxQueue
BY DEF VoiceClientTypeOK, SeatRecord, PolicyRecord, ShownRecord, AttemptRecord, UnmuteRecord

LEMMA OldOnes ==
    ASSUME VoiceClientTypeOK
    PROVE  /\ OldAttempts \in [Attempt -> AttemptRecord] /\ \A t \in Attempt : ~OldAttempts[t].current
           /\ OldUnmutes \in [Unmute -> UnmuteRecord]
<1>1. \A t \in Attempt : /\ [attempt[t] EXCEPT !.current = FALSE] \in AttemptRecord
                         /\ ~[attempt[t] EXCEPT !.current = FALSE].current
  BY CallTypes DEF AttemptRecord
<1>2. \A t \in Unmute : [unmute[t] EXCEPT !.current = FALSE] \in UnmuteRecord BY CallTypes DEF UnmuteRecord
<1> QED BY <1>1, <1>2 DEF OldAttempts, OldUnmutes

LEMMA NoOnes == NoAttempt \in AttemptRecord /\ ~NoAttempt.current /\ NoUnmute \in UnmuteRecord
BY DEF NoAttempt, NoUnmute, AttemptRecord, UnmuteRecord

------------------------------------------------------------
(* Joining and leaving                                                     *)

LEMMA JoinClickedKeeps ==
    ASSUME CallIInv, NEW t \in Attempt, NEW c \in CallChannel, JoinClicked(t, c)
    PROVE  CallHolds'
<1> USE CallTypes, OldOnes DEF CallIInv, CallHolds
<1> DEFINE fresh == [NoAttempt EXCEPT !.pc = "authorize", !.channel = c, !.current = TRUE]
<1>f. fresh \in AttemptRecord /\ fresh.pc = "authorize" /\ fresh.channel = c /\ fresh.current
  BY DEF NoAttempt, AttemptRecord
<1>a. attempt' = [OldAttempts EXCEPT ![t] = fresh]
  BY DEF JoinClicked
<1> HIDE DEF fresh
<1>1. attempt' \in [Attempt -> AttemptRecord] /\ attempt'[t] = fresh
      /\ \A s \in Attempt \ {t} : ~attempt'[s].current
  BY <1>a, <1>f
<1>c. c # NoCall
  BY VoiceClientAssumption
<1>2. OneAttempt' BY <1>1, <1>f, <1>c DEF JoinClicked, OneAttempt
<1>3. CallIsShown' BY <1>1, <1>f DEF CallIsShown, Connecting
<1>4. packets' \in Seq(Packet) /\ Len(packets') + Len(inbox') <= MaxQueue
 <2>1. inbox' = inbox BY DEF JoinClicked
 <2>2. Send("authorize", c, t) \in Seq(Packet) BY SendsPackets
 <2>3. CASE call \notin {NoCall, c}
  <3>1. LeavePacket \in Seq(Packet) BY <2>3, SendsPackets DEF LeavePacket
  <3>2. LeavePacket \o Send("authorize", c, t) \in Seq(Packet) BY <2>2, <3>1
  <3>3. Emits(LeavePacket \o Send("authorize", c, t)) BY <2>3 DEF JoinClicked
  <3> QED BY <2>1, <3>2, <3>3, EmitsTyped
 <2>4. CASE call \in {NoCall, c}
  <3>1. Emits(Send("authorize", c, t)) BY <2>4 DEF JoinClicked
  <3> QED BY <2>1, <2>2, <3>1, EmitsTyped
 <2> QED BY <2>3, <2>4
<1>5. policy' \in PolicyRecord /\ shownCall' \in ShownRecord /\ unmute' \in [Unmute -> UnmuteRecord]
      /\ mic' \in {"none", "closed", "open"} /\ callCaps' \subseteq Capability
  BY ClosedPolicyTyped DEF JoinClicked, ShownRecord, Caps, Capability
<1>6. VoiceClientTypeOK' BY <1>1, <1>4, <1>5, CallTypesNext DEF JoinClicked, server, pageVars
<1>7. OpenIsAllowed' BY <1>c DEF JoinClicked, OpenIsAllowed
<1>8. ConnectsUndeafened'
 <2>1. CASE call \notin {NoCall, c} BY <2>1 DEF JoinClicked, ConnectsUndeafened, ShownRecord
 <2>2. CASE call \in {NoCall, c}
  <3>1. shownCall' = shownCall /\ doubted' = doubted BY <2>2 DEF JoinClicked
  <3>2. call = NoCall \/ Connecting BY <2>2, <1>c DEF JoinClicked, CallIsShown
  <3> QED BY <3>1, <3>2 DEF ConnectsUndeafened
 <2> QED BY <2>1, <2>2
<1>9. RestrictionsBind'
 <2>1. CASE call \notin {NoCall, c} BY <2>1, ClosedPolicyTyped DEF JoinClicked, RestrictionsBind, Binds
 <2>2. CASE call \in {NoCall, c} BY <2>2 DEF JoinClicked, RestrictionsBind, Binds
 <2> QED BY <2>1, <2>2
<1> QED BY <1>2, <1>3, <1>6, <1>7, <1>8, <1>9

\* A call that is over, by a join that fails or by anything else, leaves nothing open or deafened.
LEMMA JoinFailsKeeps ==
    ASSUME CallIInv, NEW t \in Attempt, NEW next \in {"idle", "late"}, JoinFails(t, next),
           UNCHANGED <<online, granted, memberMuted, seat, viewing, listed, unmute, packets, inbox>>,
           doubted \subseteq doubted', doubted' \subseteq {"answer", "early"}
    PROVE  CallHolds'
<1> USE CallTypes DEF CallIInv, CallHolds
<1> DEFINE finished == [NoAttempt EXCEPT !.pc = next]
<1>e. finished \in AttemptRecord /\ ~finished.current
  BY DEF NoAttempt, AttemptRecord
<1>a. attempt' = [attempt EXCEPT ![t] = finished]
  BY DEF JoinFails
<1> HIDE DEF finished
<1>1. attempt' \in [Attempt -> AttemptRecord] /\ ~attempt'[t].current
      /\ \A s \in Attempt \ {t} : attempt'[s] = attempt[s]
  BY <1>a, <1>e
<1>2. CASE attempt[t].current
 <2>1. call' = NoCall /\ callCaps' = {} /\ mic' = "none" /\ policy' = ClosedPolicy
       /\ shownCall' = [shownCall EXCEPT !.channel = NoCall]
   BY <1>2 DEF JoinFails
 <2>2. \A s \in Attempt : ~attempt'[s].current BY <1>1, <1>2 DEF OneAttempt
 <2>3. shownCall' \in ShownRecord /\ shownCall'.isDeafened = shownCall.isDeafened BY <2>1 DEF ShownRecord
 <2>4. VoiceClientTypeOK' BY <1>1, <2>1, <2>3, ClosedPolicyTyped, CallTypesNext
 <2>5. OneAttempt' /\ CallIsShown' /\ OpenIsAllowed' BY <2>1, <2>2 DEF OneAttempt, CallIsShown, OpenIsAllowed
 <2>6. ConnectsUndeafened' BY <1>2, <2>3 DEF ConnectsUndeafened, Connecting
 <2>7. RestrictionsBind' BY <2>1, ClosedPolicyTyped DEF RestrictionsBind, Binds
 <2> QED BY <2>4, <2>5, <2>6, <2>7
<1>3. CASE ~attempt[t].current
 <2>1. UNCHANGED <<call, callCaps, mic, policy, shownCall>> BY <1>3 DEF JoinFails
 <2>2. VoiceClientTypeOK' BY <1>1, <2>1, CallTypesNext
 <2>3. Connecting' <=> Connecting BY <1>1, <1>3 DEF Connecting
 <2>4. OneAttempt' BY <1>1, <1>3, <2>1 DEF OneAttempt
 <2>5. CallIsShown' /\ OpenIsAllowed' BY <2>1, <2>3 DEF CallIsShown, OpenIsAllowed
 <2>6. ConnectsUndeafened' /\ RestrictionsBind' BY <2>1, <2>3 DEF ConnectsUndeafened, RestrictionsBind
 <2> QED BY <2>2, <2>4, <2>5, <2>6
<1> QED BY <1>2, <1>3

LEMMA AuthorizeAnsweredKeeps ==
    ASSUME CallIInv, NEW t \in Attempt, AuthorizeAnswered(t)
    PROVE  CallHolds'
<1>0. UNCHANGED <<online, granted, memberMuted, seat, viewing, listed, unmute, packets, inbox, doubted>>
  BY DEF AuthorizeAnswered, server, pageVars
<1>1. CASE attempt[t].pc = "refused" \/ ~attempt[t].current
 <2>1. JoinFails(t, "idle") BY <1>1 DEF AuthorizeAnswered
 <2>2. doubted \subseteq doubted' /\ doubted' \subseteq {"answer", "early"}
   BY <1>0, CallTypes DEF CallIInv, CallHolds
 <2> QED BY <1>0, <2>1, <2>2, JoinFailsKeeps
<1>2. CASE ~(attempt[t].pc = "refused" \/ ~attempt[t].current)
 <2> USE CallTypes DEF CallIInv, CallHolds
 <2>1. /\ attempt[t].current /\ policy' = ClosedPolicy /\ mic' = "closed"
       /\ attempt' = [attempt EXCEPT ![t].pc = "capture"]
       /\ UNCHANGED <<call, callCaps, shownCall>>
   BY <1>2 DEF AuthorizeAnswered
 <2>2. attempt' \in [Attempt -> AttemptRecord]
       /\ \A s \in Attempt : /\ attempt'[s].current = attempt[s].current
                             /\ attempt'[s].channel = attempt[s].channel
                             /\ s # t => attempt'[s] = attempt[s]
       /\ attempt'[t].pc = "capture"
   BY <2>1, SMTT(30) DEF AttemptRecord
 <2>3. VoiceClientTypeOK' BY <1>0, <2>1, <2>2, ClosedPolicyTyped, CallTypesNext
 <2>4. OneAttempt' /\ (Connecting' <=> Connecting) BY <2>1, <2>2 DEF OneAttempt, Connecting
 <2>5. OpenIsAllowed' /\ CallIsShown' BY <2>1, <2>4 DEF OpenIsAllowed, CallIsShown
 <2>6. ConnectsUndeafened' BY <1>0, <2>1, <2>4 DEF ConnectsUndeafened
 <2>7. RestrictionsBind' BY <2>1, ClosedPolicyTyped DEF RestrictionsBind, Binds
 <2> QED BY <2>3, <2>4, <2>5, <2>6, <2>7
<1> QED BY <1>1, <1>2

LEMMA CaptureAnsweredKeeps ==
    ASSUME CallIInv, NEW t \in Attempt, CaptureAnswered(t)
    PROVE  CallHolds'
<1>0. UNCHANGED <<online, granted, memberMuted, seat, viewing, listed, unmute, packets, inbox, doubted>>
  BY DEF CaptureAnswered, server, pageVars
<1>1. CASE JoinFails(t, "idle")
 <2>1. doubted \subseteq doubted' /\ doubted' \subseteq {"answer", "early"}
   BY <1>0, CallTypes DEF CallIInv, CallHolds
 <2> QED BY <1>0, <1>1, <2>1, JoinFailsKeeps
<1>2. CASE /\ attempt' = [attempt EXCEPT ![t].pc = "ice"]
           /\ UNCHANGED <<call, callCaps, mic, policy, shownCall>>
 <2> USE CallTypes DEF CallIInv, CallHolds
 <2>2. attempt' \in [Attempt -> AttemptRecord]
       /\ \A s \in Attempt : /\ attempt'[s].current = attempt[s].current
                             /\ attempt'[s].channel = attempt[s].channel
                             /\ s # t => attempt'[s] = attempt[s]
       /\ attempt'[t].pc = "ice"
   BY <1>2, SMTT(30) DEF AttemptRecord
 <2>3. VoiceClientTypeOK' BY <1>0, <1>2, <2>2, CallTypesNext
 <2>4. OneAttempt' /\ (Connecting' <=> Connecting) BY <1>2, <2>2 DEF OneAttempt, Connecting
 <2>5. OpenIsAllowed' /\ CallIsShown' BY <1>2, <2>4 DEF OpenIsAllowed, CallIsShown
 <2>6. ConnectsUndeafened' /\ RestrictionsBind' BY <1>0, <1>2, <2>4 DEF ConnectsUndeafened, RestrictionsBind
 <2> QED BY <2>3, <2>4, <2>5, <2>6
<1> QED BY <1>1, <1>2 DEF CaptureAnswered

LEMMA IceFetchedKeeps ==
    ASSUME CallIInv, NEW t \in Attempt, IceFetched(t)
    PROVE  CallHolds'
<1> USE CallTypes DEF CallIInv, CallHolds
<1>0. UNCHANGED <<online, granted, memberMuted, seat, viewing, listed, call, callCaps, policy, mic, shownCall,
                  unmute, inbox, doubted>>
  BY DEF IceFetched, server, pageVars
<1>1. /\ attempt' \in [Attempt -> AttemptRecord]
      /\ \A s \in Attempt : /\ attempt'[s].current = attempt[s].current
                            /\ attempt'[s].current => attempt'[s].channel = attempt[s].channel
                            /\ s # t => attempt'[s] = attempt[s]
      /\ attempt'[t].current => attempt'[t].pc = "join"
 <2>1. CASE attempt[t].current
  <3>1. attempt' = [attempt EXCEPT ![t].pc = "join"] BY <2>1 DEF IceFetched
  <3> QED BY <3>1 DEF AttemptRecord
 <2>2. CASE ~attempt[t].current
  <3>1. attempt' = [attempt EXCEPT ![t] = NoAttempt] BY <2>2 DEF IceFetched
  <3> QED BY <2>2, <3>1, NoOnes DEF AttemptRecord
 <2> QED BY <2>1, <2>2
<1>2. packets' \in Seq(Packet) /\ Len(packets') + Len(inbox') <= MaxQueue
 <2>1. CASE attempt[t].current
  <3>1. attempt[t].channel \in CallChannel BY <2>1, VoiceClientAssumption DEF OneAttempt
  <3>2. Send("join", attempt[t].channel, t) \in Seq(Packet) BY <3>1, SendsPackets
  <3>3. Emits(Send("join", attempt[t].channel, t)) /\ inbox' = inbox BY <2>1 DEF IceFetched
  <3> QED BY <3>2, <3>3, EmitsTyped
 <2>2. CASE ~attempt[t].current BY <2>2 DEF IceFetched
 <2> QED BY <2>1, <2>2
<1>3. VoiceClientTypeOK' BY <1>0, <1>1, <1>2, CallTypesNext
<1>4. OneAttempt' /\ (Connecting' <=> Connecting) BY <1>0, <1>1 DEF OneAttempt, Connecting
<1>5. OpenIsAllowed' /\ CallIsShown' BY <1>0, <1>4 DEF OpenIsAllowed, CallIsShown
<1>6. ConnectsUndeafened' /\ RestrictionsBind' BY <1>0, <1>4 DEF ConnectsUndeafened, RestrictionsBind
<1> QED BY <1>3, <1>4, <1>5, <1>6

LEMMA JoinTimesOutKeeps ==
    ASSUME CallIInv, NEW t \in Attempt, JoinTimesOut(t)
    PROVE  CallHolds'
<1>0. UNCHANGED <<online, granted, memberMuted, seat, viewing, listed, unmute, packets, inbox>>
  BY DEF JoinTimesOut, server, pageVars
<1>1. doubted \subseteq doubted' /\ doubted' \subseteq {"answer", "early"}
  BY CallTypes DEF CallIInv, CallHolds, JoinTimesOut, Doubts
<1>2. PICK next \in {"idle", "late"} : JoinFails(t, next) BY DEF JoinTimesOut
<1> QED BY <1>0, <1>1, <1>2, JoinFailsKeeps

\* The answer of the join that is waited for starts the call as it says; it finds nothing deafened.
LEMMA JoinAnsweredKeeps ==
    ASSUME CallIInv, NEW t \in Attempt, JoinAnswered(t)
    PROVE  CallHolds'
<1> USE CallTypes DEF CallIInv, CallHolds
<1> DEFINE a == attempt[t]
<1>0. /\ attempt' = [attempt EXCEPT ![t] = NoAttempt]
      /\ UNCHANGED <<online, granted, memberMuted, seat, viewing, listed, call, unmute, inbox>>
  BY DEF JoinAnswered, server, pageVars
<1>1. attempt' \in [Attempt -> AttemptRecord] /\ ~attempt'[t].current
      /\ \A s \in Attempt \ {t} : attempt'[s] = attempt[s]
  BY <1>0, NoOnes
<1>2. OneAttempt' BY <1>0, <1>1 DEF OneAttempt
<1>3. CASE attempt[t].current
 <2>1. /\ Sync(JoinedPolicy(attempt[t]))
       /\ shownCall' = [shownCall EXCEPT !.channel = attempt[t].channel,
                        !.isMuted = attempt[t].muted, !.serverMuted = attempt[t].serverMuted]
       /\ packets' = packets /\ doubted' = doubted
   BY <1>3 DEF JoinAnswered
 <2>2. attempt[t] \in AttemptRecord /\ attempt[t].channel = call /\ call # NoCall BY <1>3 DEF OneAttempt
 <2>3. shownCall' \in ShownRecord /\ shownCall'.channel = call
       /\ shownCall'.isMuted = attempt[t].muted /\ shownCall'.serverMuted = attempt[t].serverMuted
       /\ shownCall'.isDeafened = shownCall.isDeafened
   BY <2>1, <2>2 DEF ShownRecord, AttemptRecord
 <2>4. JoinedPolicy(attempt[t]) \in PolicyRecord
       /\ JoinedPolicy(attempt[t]).selfMuted = attempt[t].muted
       /\ JoinedPolicy(attempt[t]).serverMuted = attempt[t].serverMuted
   BY <2>2 DEF JoinedPolicy, PolicyRecord, AttemptRecord
 <2>5. /\ policy' \in PolicyRecord /\ callCaps' \subseteq Capability
       /\ mic' \in {"none", "closed", "open"}
       /\ policy' = JoinedPolicy(attempt[t]) \/ policy' = ClosedPolicy
       /\ mic' = "open" => call # NoCall /\ policy' = OpenPolicy
   BY <2>1, <2>4, SyncDoes
 <2>6. VoiceClientTypeOK' BY <1>0, <1>1, <2>1, <2>3, <2>5, CallTypesNext
 <2>7. OpenIsAllowed' /\ CallIsShown' BY <1>0, <2>2, <2>3, <2>5 DEF OpenIsAllowed, CallIsShown
 <2>8. "early" \notin doubted => ~shownCall.isDeafened BY <1>3 DEF ConnectsUndeafened, Connecting
 <2>9. ConnectsUndeafened' /\ RestrictionsBind'
   BY <1>0, <2>1, <2>2, <2>3, <2>4, <2>5, <2>8, ClosedPolicyTyped
   DEF ConnectsUndeafened, RestrictionsBind, Binds
 <2> QED BY <1>2, <2>6, <2>7, <2>9
<1>4. CASE ~attempt[t].current
 <2>1. LeavesLateMembership(t) /\ UNCHANGED <<policy, callCaps, mic, shownCall>> BY <1>4 DEF JoinAnswered
 <2>2. doubted \subseteq doubted' /\ doubted' \subseteq {"answer", "early"}
   BY <2>1 DEF LeavesLateMembership, Doubts
 <2>3. Send("leave", attempt[t].channel, NoTask) \in Seq(Packet) BY SendsPackets DEF Channeled, JoinAnswered
 <2>4. packets' \in Seq(Packet) /\ Len(packets') + Len(inbox') <= MaxQueue
   BY <1>0, <2>1, <2>3, EmitsTyped DEF LeavesLateMembership
 <2>5. VoiceClientTypeOK' BY <1>0, <1>1, <2>1, <2>2, <2>4, CallTypesNext
 <2>6. Connecting' <=> Connecting BY <1>1, <1>4 DEF Connecting
 <2>7. OpenIsAllowed' /\ CallIsShown' BY <1>0, <2>1, <2>6 DEF OpenIsAllowed, CallIsShown
 <2>8. ConnectsUndeafened' /\ RestrictionsBind'
   BY <1>0, <2>1, <2>2, <2>6 DEF ConnectsUndeafened, RestrictionsBind
 <2> QED BY <1>2, <2>5, <2>7, <2>8
<1> QED BY <1>3, <1>4

------------------------------------------------------------
(* Mute, deafen and events                                                 *)

\* A step that moves no attempt, and leaves what is shown bound by the policy.
LEMMA RestrictsKeeps ==
    ASSUME CallIInv, VoiceClientTypeOK', UNCHANGED <<call, attempt>>,
           "early" \in doubted => "early" \in doubted',
           shownCall'.channel = shownCall.channel,
           mic' = "open" => call # NoCall /\ policy' = OpenPolicy,
           "early" \notin doubted' => Binds(policy', shownCall', call),
           "early" \notin doubted' /\ (call = NoCall \/ Connecting) => ~shownCall'.isDeafened
    PROVE  CallHolds'
<1> USE DEF CallIInv, CallHolds
<1>1. OneAttempt' /\ (Connecting' <=> Connecting) BY DEF OneAttempt, Connecting
<1>2. OpenIsAllowed' /\ CallIsShown' BY <1>1 DEF OpenIsAllowed, CallIsShown
<1>3. ConnectsUndeafened' /\ RestrictionsBind' BY <1>1 DEF ConnectsUndeafened, RestrictionsBind
<1> QED BY <1>1, <1>2, <1>3

\* Binding is kept by the policy Sync installs.
LEMMA BindsUnder ==
    ASSUME NEW p, NEW q, NEW s, NEW c, Binds(p, s, c), q = p \/ q = ClosedPolicy
    PROVE  Binds(q, s, c)
BY ClosedPolicyTyped DEF Binds

\* A clicked restriction is early, while connecting, and concerns a call otherwise.
LEMMA BeforeAnswerDoes ==
    ASSUME VoiceClientTypeOK, NEW b \in BOOLEAN, BeforeAnswer(b)
    PROVE  /\ "early" \in doubted => "early" \in doubted'
           /\ "early" \notin doubted' => ~(b /\ Connecting)
           /\ doubted' \subseteq {"answer", "early"}
BY CallTypes DEF BeforeAnswer, Doubts, Connecting

LEMMA MuteClickedKeeps ==
    ASSUME CallIInv, MuteClicked
    PROVE  CallHolds'
<1> USE CallTypes, OldOnes DEF CallIInv, CallHolds
<1> DEFINE p == [policy EXCEPT !.selfMuted = TRUE]
<1>0. UNCHANGED <<online, granted, memberMuted, seat, viewing, listed, call, attempt, inbox>>
  BY DEF MuteClicked, server, pageVars
<1>p. p \in PolicyRecord /\ p.selfMuted /\ p.membership = policy.membership
      /\ p.deafened = policy.deafened /\ p.serverMuted = policy.serverMuted
  BY DEF PolicyRecord
<1>s. shownCall' \in ShownRecord /\ shownCall'.channel = shownCall.channel
      /\ shownCall'.isDeafened = shownCall.isDeafened /\ shownCall'.serverMuted = shownCall.serverMuted
  BY DEF MuteClicked, ShownRecord
<1>1. Sync(p) /\ unmute' = OldUnmutes /\ call # NoCall BY DEF MuteClicked
<1> HIDE DEF p
<1>2. policy' \in PolicyRecord /\ callCaps' \subseteq Capability /\ mic' \in {"none", "closed", "open"}
      /\ (policy' = p \/ policy' = ClosedPolicy)
      /\ (mic' = "open" => call # NoCall /\ policy' = OpenPolicy)
  BY <1>1, <1>p, SyncDoes
<1>3. packets' \in Seq(Packet) /\ Len(packets') + Len(inbox') <= MaxQueue
 <2>1. Send("mute", call, NoTask) \in Seq(Packet) BY <1>1, SendsPackets
 <2> QED BY <2>1, <1>0, EmitsTyped DEF MuteClicked
<1>4. /\ "early" \in doubted => "early" \in doubted'
      /\ "early" \notin doubted' => ~Connecting
      /\ doubted' \subseteq {"answer", "early"}
  BY BeforeAnswerDoes DEF MuteClicked
<1>5. VoiceClientTypeOK' BY <1>0, <1>1, <1>2, <1>3, <1>4, <1>s, CallTypesNext
<1>6. "early" \notin doubted' => Binds(policy', shownCall', call)
 <2>1. "early" \notin doubted' => Binds(p, shownCall', call) BY <1>4, <1>p, <1>s DEF RestrictionsBind, Binds
 <2> QED BY <2>1, <1>2, BindsUnder
<1> QED BY <1>0, <1>1, <1>2, <1>4, <1>5, <1>6, <1>s, RestrictsKeeps

LEMMA DeafenClickedKeeps ==
    ASSUME CallIInv, DeafenClicked
    PROVE  CallHolds'
<1> USE CallTypes, OldOnes DEF CallIInv, CallHolds
<1> DEFINE deaf == ~shownCall.isDeafened
           p == [policy EXCEPT !.selfMuted = TRUE, !.deafened = deaf]
<1>0. UNCHANGED <<online, granted, memberMuted, seat, viewing, listed, call, attempt, inbox>>
  BY DEF DeafenClicked, server, pageVars
<1>d. deaf \in BOOLEAN
  BY DEF ShownRecord
<1>p. p \in PolicyRecord /\ p.selfMuted /\ p.membership = policy.membership
      /\ p.deafened = deaf /\ p.serverMuted = policy.serverMuted
  BY <1>d DEF PolicyRecord
<1>s. shownCall' \in ShownRecord /\ shownCall'.channel = shownCall.channel
      /\ shownCall'.isDeafened = deaf /\ shownCall'.serverMuted = shownCall.serverMuted
 <2>1. shownCall' = [shownCall EXCEPT !.isDeafened = deaf, !.isMuted = deaf \/ @] BY DEF DeafenClicked
 <2> QED BY <1>d, <2>1 DEF ShownRecord
<1>1. Sync(p) /\ unmute' = OldUnmutes /\ call # NoCall BY DEF DeafenClicked
<1>3. packets' \in Seq(Packet) /\ Len(packets') + Len(inbox') <= MaxQueue
 <2> DEFINE first == Send(IF deaf THEN "deafen" ELSE "undeafen", call, NoTask)
            second == IF deaf /\ ~shownCall.isMuted THEN Send("mute", call, NoTask) ELSE <<>>
 <2>1. first \in Seq(Packet) BY <1>1, SendsPackets
 <2>2. second \in Seq(Packet) BY <1>1, SendsPackets
 <2>3. Emits(first \o second) BY DEF DeafenClicked
 <2> HIDE DEF first, second
 <2>4. first \o second \in Seq(Packet) BY <2>1, <2>2
 <2> QED BY <2>3, <2>4, <1>0, EmitsTyped
<1> HIDE DEF p, deaf
<1>2. policy' \in PolicyRecord /\ callCaps' \subseteq Capability /\ mic' \in {"none", "closed", "open"}
      /\ (policy' = p \/ policy' = ClosedPolicy)
      /\ (mic' = "open" => call # NoCall /\ policy' = OpenPolicy)
  BY <1>1, <1>p, SyncDoes
<1>4. /\ "early" \in doubted => "early" \in doubted'
      /\ "early" \notin doubted' => ~Connecting
      /\ doubted' \subseteq {"answer", "early"}
  BY BeforeAnswerDoes DEF DeafenClicked
<1>5. VoiceClientTypeOK' BY <1>0, <1>1, <1>2, <1>3, <1>4, <1>s, CallTypesNext
<1>6. "early" \notin doubted' => Binds(policy', shownCall', call)
 <2>1. "early" \notin doubted' => Binds(p, shownCall', call) BY <1>4, <1>p, <1>s DEF RestrictionsBind, Binds
 <2> QED BY <2>1, <1>2, BindsUnder
<1> QED BY <1>0, <1>1, <1>2, <1>4, <1>5, <1>6, <1>s, RestrictsKeeps

LEMMA UnmuteClickedKeeps ==
    ASSUME CallIInv, NEW t \in Unmute, UnmuteClicked(t)
    PROVE  CallHolds'
<1> USE CallTypes, OldOnes DEF CallIInv, CallHolds
<1>0. UNCHANGED <<online, granted, memberMuted, seat, viewing, listed, call, shownCall, attempt, inbox, doubted>>
      /\ call # NoCall
  BY DEF UnmuteClicked, server, pageVars
<1>s. "early" \notin doubted' /\ (call = NoCall \/ Connecting) => ~shownCall'.isDeafened
  BY <1>0 DEF ConnectsUndeafened
<1>1. CASE viewing /\ "speak" \notin listed
 <2> DEFINE p == [policy EXCEPT !.selfMuted = TRUE]
 <2>1. p \in PolicyRecord /\ p.selfMuted /\ p.membership = policy.membership
       /\ p.deafened = policy.deafened /\ p.serverMuted = policy.serverMuted
   BY DEF PolicyRecord
 <2>2. Sync(p) /\ UNCHANGED <<unmute, packets>> BY <1>1 DEF UnmuteClicked
 <2> HIDE DEF p
 <2>3. policy' \in PolicyRecord /\ callCaps' \subseteq Capability /\ mic' \in {"none", "closed", "open"}
       /\ (policy' = p \/ policy' = ClosedPolicy)
       /\ (mic' = "open" => call # NoCall /\ policy' = OpenPolicy)
   BY <2>1, <2>2, SyncDoes
 <2>4. VoiceClientTypeOK' BY <1>0, <2>2, <2>3, CallTypesNext
 <2>5. "early" \notin doubted' => Binds(p, shownCall', call) BY <1>0, <2>1 DEF RestrictionsBind, Binds
 <2>6. "early" \notin doubted' => Binds(policy', shownCall', call) BY <2>3, <2>5, BindsUnder
 <2> QED BY <1>0, <1>s, <2>3, <2>4, <2>6, RestrictsKeeps
<1>2. CASE ~(viewing /\ "speak" \notin listed)
 <2> DEFINE issued == [pc |-> "sent", channel |-> call, current |-> TRUE]
 <2>1. /\ Emits(Send("unmute", call, t))
       /\ unmute' = [OldUnmutes EXCEPT ![t] = issued]
       /\ UNCHANGED <<policy, callCaps, mic>>
   BY <1>2 DEF UnmuteClicked
 <2>2. issued \in UnmuteRecord BY DEF UnmuteRecord
 <2> HIDE DEF issued
 <2>3. unmute' \in [Unmute -> UnmuteRecord] BY <2>1, <2>2
 <2>4. Send("unmute", call, t) \in Seq(Packet) BY <1>0, SendsPackets
 <2>5. packets' \in Seq(Packet) /\ Len(packets') + Len(inbox') <= MaxQueue BY <1>0, <2>1, <2>4, EmitsTyped
 <2>6. VoiceClientTypeOK' BY <1>0, <2>1, <2>3, <2>5, CallTypesNext
 <2>7. "early" \notin doubted' => Binds(policy', shownCall', call) BY <1>0, <2>1 DEF RestrictionsBind
 <2>8. mic' = "open" => call # NoCall /\ policy' = OpenPolicy BY <2>1 DEF OpenIsAllowed
 <2> QED BY <1>0, <1>s, <2>6, <2>7, <2>8, RestrictsKeeps
<1> QED BY <1>1, <1>2

LEMMA UnmuteAnsweredKeeps ==
    ASSUME CallIInv, NEW t \in Unmute, UnmuteAnswered(t)
    PROVE  CallHolds'
<1> USE CallTypes DEF CallIInv, CallHolds
<1> DEFINE r == unmute[t]
<1>0. UNCHANGED <<online, granted, memberMuted, seat, viewing, listed, call, attempt, inbox, doubted>>
  BY DEF UnmuteAnswered, server, pageVars
<1>u. unmute' \in [Unmute -> UnmuteRecord]
 <2>1. [NoUnmute EXCEPT !.pc = "late"] \in UnmuteRecord BY DEF NoUnmute, UnmuteRecord
 <2>2. \/ unmute' = [unmute EXCEPT ![t] = NoUnmute]
       \/ unmute' = [unmute EXCEPT ![t] = [NoUnmute EXCEPT !.pc = "late"]]
   BY DEF UnmuteAnswered
 <2> QED BY <2>1, <2>2, NoOnes
<1>1. CASE ~r.current
 <2>1. UNCHANGED <<callCaps, policy, mic, shownCall, packets>> BY <1>1 DEF UnmuteAnswered
 <2>2. VoiceClientTypeOK' BY <1>0, <1>u, <2>1, CallTypesNext
 <2> QED BY <1>0, <2>1, <2>2, RestrictsKeeps DEF OpenIsAllowed, RestrictionsBind, ConnectsUndeafened
<1>2. CASE r.current /\ r.pc = "ok"
 <2> DEFINE p == [policy EXCEPT !.selfMuted = FALSE, !.deafened = FALSE, !.speakRevoked = FALSE]
 <2>1. p \in PolicyRecord /\ p.membership = policy.membership /\ p.serverMuted = policy.serverMuted
   BY DEF PolicyRecord
 <2>2. /\ policy' = PolicyOf(mic, p)
       /\ callCaps' = CapsOf(call, callCaps \cup {"speak"})
       /\ mic' = MicUnder(mic, call, p, callCaps')
       /\ shownCall' = [shownCall EXCEPT !.isMuted = FALSE, !.isDeafened = FALSE]
       /\ Emits(IF shownCall.isDeafened THEN Send("undeafen", r.channel, NoTask) ELSE <<>>)
   BY <1>2 DEF UnmuteAnswered
 <2> HIDE DEF p
 <2>3. policy' \in PolicyRecord /\ (policy' = p \/ policy' = ClosedPolicy)
   BY <2>1, <2>2, ClosedPolicyTyped DEF PolicyOf
 <2>4. mic' \in {"none", "closed", "open"} /\ (mic' = "open" => call # NoCall /\ policy' = OpenPolicy)
   BY <2>2 DEF MicUnder, PolicyOf, OpenPolicy
 <2>5. callCaps' \subseteq Capability BY <2>2 DEF CapsOf, Caps, Capability
 <2>6. shownCall' \in ShownRecord /\ shownCall'.channel = shownCall.channel
       /\ ~shownCall'.isMuted /\ ~shownCall'.isDeafened /\ shownCall'.serverMuted = shownCall.serverMuted
   BY <2>2 DEF ShownRecord
 <2>7. packets' \in Seq(Packet) /\ Len(packets') + Len(inbox') <= MaxQueue
  <3>1. r.channel \in CallChannel BY <1>2 DEF Channeled
  <3>2. Send("undeafen", r.channel, NoTask) \in Seq(Packet) BY <3>1, SendsPackets
  <3> DEFINE issued == IF shownCall.isDeafened THEN Send("undeafen", r.channel, NoTask) ELSE <<>>
  <3>3. issued \in Seq(Packet) BY <3>2
  <3>4. Emits(issued) BY <2>2
  <3> HIDE DEF issued
  <3> QED BY <1>0, <3>3, <3>4, EmitsTyped
 <2>8. VoiceClientTypeOK' BY <1>0, <1>u, <2>3, <2>4, <2>5, <2>6, <2>7, CallTypesNext
 <2>9. "early" \notin doubted' => Binds(policy', shownCall', call)
  <3>1. "early" \notin doubted' => Binds(p, shownCall', call) BY <1>0, <2>1, <2>6 DEF RestrictionsBind, Binds
  <3> QED BY <3>1, <2>3, BindsUnder
 <2> QED BY <1>0, <2>4, <2>6, <2>8, <2>9, RestrictsKeeps
<1>3. CASE r.current /\ r.pc # "ok"
 <2> DEFINE p == [policy EXCEPT !.selfMuted = TRUE]
 <2>1. p \in PolicyRecord /\ p.selfMuted /\ p.membership = policy.membership
       /\ p.deafened = policy.deafened /\ p.serverMuted = policy.serverMuted
   BY DEF PolicyRecord
 <2>2. Sync(p) /\ shownCall' = [shownCall EXCEPT !.isMuted = TRUE] /\ packets' = packets
   BY <1>3 DEF UnmuteAnswered
 <2> HIDE DEF p
 <2>3. policy' \in PolicyRecord /\ callCaps' \subseteq Capability /\ mic' \in {"none", "closed", "open"}
       /\ (policy' = p \/ policy' = ClosedPolicy)
       /\ (mic' = "open" => call # NoCall /\ policy' = OpenPolicy)
   BY <2>1, <2>2, SyncDoes
 <2>4. shownCall' \in ShownRecord /\ shownCall'.channel = shownCall.channel
       /\ shownCall'.isDeafened = shownCall.isDeafened /\ shownCall'.serverMuted = shownCall.serverMuted
   BY <2>2 DEF ShownRecord
 <2>5. VoiceClientTypeOK' BY <1>0, <1>u, <2>2, <2>3, <2>4, CallTypesNext
 <2>6. "early" \notin doubted' => Binds(policy', shownCall', call)
  <3>1. "early" \notin doubted' => Binds(p, shownCall', call) BY <1>0, <2>1, <2>4 DEF RestrictionsBind, Binds
  <3> QED BY <3>1, <2>3, BindsUnder
 <2>7. "early" \notin doubted' /\ (call = NoCall \/ Connecting) => ~shownCall'.isDeafened
   BY <1>0, <2>4 DEF ConnectsUndeafened
 <2> QED BY <1>0, <2>3, <2>4, <2>5, <2>6, <2>7, RestrictsKeeps
<1> QED BY <1>1, <1>2, <1>3

\* The rest of an inbox.
LEMMA InboxRest ==
    ASSUME VoiceClientTypeOK, inbox # <<>>
    PROVE  /\ Head(inbox) \in Event /\ Tail(inbox) \in Seq(Event)
           /\ Len(packets) + Len(Tail(inbox)) <= MaxQueue
<1>1. inbox \in Seq(Event) /\ packets \in Seq(Packet) /\ Len(packets) + Len(inbox) <= MaxQueue /\ MaxQueue \in Nat
  BY CallTypes, VoiceClientAssumption
<1>2. Head(inbox) \in Event /\ Tail(inbox) \in Seq(Event) /\ Len(Tail(inbox)) = Len(inbox) - 1 BY <1>1
<1> QED BY <1>1, <1>2

LEMMA UnmutesAfterTyped ==
    ASSUME VoiceClientTypeOK, NEW e \in Event
    PROVE  UnmutesAfter(e) \in [Unmute -> UnmuteRecord]
BY CallTypes, OldOnes DEF UnmutesAfter

LEMMA MergedTyped ==
    ASSUME NEW told \in {"keep", "yes", "no"}, NEW old \in BOOLEAN
    PROVE  Merged(told, old) \in BOOLEAN
BY DEF Merged

LEMMA StateUpdatedKeeps ==
    ASSUME CallIInv, StateUpdated
    PROVE  CallHolds'
<1> USE CallTypes DEF CallIInv, CallHolds
<1> DEFINE e == Head(inbox)
           closes == e.muted \/ e.serverMuted = "yes" \/ e.deafened = "yes"
           srv == Merged(e.serverMuted, policy.serverMuted)
           p == [policy EXCEPT !.selfMuted = closes \/ @, !.serverMuted = srv,
                               !.deafened = Merged(e.deafened, policy.deafened)]
<1>0. UNCHANGED <<online, granted, memberMuted, seat, viewing, listed, call, attempt, packets>>
      /\ inbox' = Tail(inbox)
  BY DEF StateUpdated, server, pageVars
<1>e. e \in Event /\ inbox' \in Seq(Event) /\ Len(packets') + Len(inbox') <= MaxQueue
  BY <1>0, InboxRest DEF StateUpdated
<1>1. CASE call # NoCall /\ e.channel = call
 <2>1. /\ unmute' = UnmutesAfter(e)
       /\ Sync([policy EXCEPT !.selfMuted = closes \/ @,
                !.serverMuted = Merged(e.serverMuted, @), !.deafened = Merged(e.deafened, @)])
       /\ shownCall' = [shownCall EXCEPT !.isMuted = closes \/ @,
                        !.isDeafened = Merged(e.deafened, @), !.serverMuted = Merged(e.serverMuted, @)]
       /\ BeforeAnswer(e.deafened = "yes")
   BY <1>1 DEF StateUpdated
 <2>b. closes \in BOOLEAN /\ e.serverMuted \in {"keep", "yes", "no"} /\ e.deafened \in {"keep", "yes", "no"}
   BY <1>e DEF Event
 <2>2. Sync(p) BY <2>1
 <2> HIDE DEF e
 <2>3. /\ p \in PolicyRecord /\ p.membership = policy.membership
       /\ p.selfMuted = (closes \/ policy.selfMuted)
       /\ p.serverMuted = Merged(e.serverMuted, policy.serverMuted)
       /\ p.deafened = Merged(e.deafened, policy.deafened)
  <3>1. policy.selfMuted \in BOOLEAN /\ policy.serverMuted \in BOOLEAN /\ policy.deafened \in BOOLEAN
    BY DEF PolicyRecord
  <3>2. Merged(e.serverMuted, policy.serverMuted) \in BOOLEAN /\ Merged(e.deafened, policy.deafened) \in BOOLEAN
    BY <3>1, <2>b, MergedTyped
  <3> HIDE DEF closes
  <3> QED BY <3>1, <3>2, <2>b DEF PolicyRecord
 <2>4. /\ shownCall' \in ShownRecord /\ shownCall'.channel = shownCall.channel
       /\ shownCall'.isMuted = (closes \/ shownCall.isMuted)
       /\ shownCall'.serverMuted = Merged(e.serverMuted, shownCall.serverMuted)
       /\ shownCall'.isDeafened = Merged(e.deafened, shownCall.isDeafened)
  <3>1. shownCall.isMuted \in BOOLEAN /\ shownCall.serverMuted \in BOOLEAN /\ shownCall.isDeafened \in BOOLEAN
    BY DEF ShownRecord
  <3>2. Merged(e.serverMuted, shownCall.serverMuted) \in BOOLEAN /\ Merged(e.deafened, shownCall.isDeafened) \in BOOLEAN
    BY <3>1, <2>b, MergedTyped
  <3> HIDE DEF closes
  <3> QED BY <2>1, <3>1, <3>2, <2>b DEF ShownRecord
 <2> HIDE DEF p, closes
 <2>5. policy' \in PolicyRecord /\ callCaps' \subseteq Capability /\ mic' \in {"none", "closed", "open"}
       /\ (policy' = p \/ policy' = ClosedPolicy)
       /\ (mic' = "open" => call # NoCall /\ policy' = OpenPolicy)
   BY <2>2, <2>3, SyncDoes
 <2>6. unmute' \in [Unmute -> UnmuteRecord] BY <1>e, <2>1, UnmutesAfterTyped
 <2>7. /\ "early" \in doubted => "early" \in doubted'
       /\ "early" \notin doubted' => ~(e.deafened = "yes" /\ Connecting)
       /\ doubted' \subseteq {"answer", "early"}
   BY <2>1, BeforeAnswerDoes
 <2>8. VoiceClientTypeOK' BY <1>0, <1>e, <2>4, <2>5, <2>6, <2>7, CallTypesNext
 <2>9. "early" \notin doubted' => Binds(policy', shownCall', call)
  <3>1. "early" \notin doubted' => Binds(p, shownCall', call)
    BY <2>3, <2>4, <2>7 DEF RestrictionsBind, Binds, Merged
  <3> QED BY <3>1, <2>5, BindsUnder
 <2>10. "early" \notin doubted' /\ (call = NoCall \/ Connecting) => ~shownCall'.isDeafened
   BY <1>1, <2>4, <2>7 DEF ConnectsUndeafened, Merged
 <2> QED BY <1>0, <2>4, <2>5, <2>7, <2>8, <2>9, <2>10, RestrictsKeeps
<1>2. CASE ~(call # NoCall /\ e.channel = call)
 <2>1. UNCHANGED <<unmute, policy, callCaps, mic, shownCall, doubted>> BY <1>2 DEF StateUpdated
 <2>2. VoiceClientTypeOK' BY <1>0, <1>e, <2>1, CallTypesNext
 <2> QED BY <1>0, <2>1, <2>2, RestrictsKeeps DEF OpenIsAllowed, RestrictionsBind, ConnectsUndeafened
<1> QED BY <1>1, <1>2

\* A restriction that is shown at once, whatever it was that told it.
LEMMA RestrictionKeeps ==
    ASSUME CallIInv, NEW p \in PolicyRecord, Sync(p), p.selfMuted,
           p.membership = policy.membership, p.deafened = policy.deafened,
           shownCall' \in ShownRecord, shownCall'.channel = shownCall.channel,
           shownCall'.isDeafened = shownCall.isDeafened,
           shownCall'.serverMuted => p.serverMuted \/ (shownCall.serverMuted /\ p.serverMuted = policy.serverMuted),
           unmute' \in [Unmute -> UnmuteRecord],
           inbox # <<>>, inbox' = Tail(inbox),
           UNCHANGED <<online, granted, memberMuted, seat, viewing, listed, call, attempt, packets, doubted>>
    PROVE  CallHolds'
<1> USE CallTypes DEF CallIInv, CallHolds
<1>1. policy' \in PolicyRecord /\ callCaps' \subseteq Capability /\ mic' \in {"none", "closed", "open"}
      /\ (policy' = p \/ policy' = ClosedPolicy)
      /\ (mic' = "open" => call # NoCall /\ policy' = OpenPolicy)
  BY SyncDoes
<1>2. inbox' \in Seq(Event) /\ Len(packets') + Len(inbox') <= MaxQueue BY InboxRest
<1>3. VoiceClientTypeOK' BY <1>1, <1>2, CallTypesNext
<1>4. "early" \notin doubted' => Binds(policy', shownCall', call)
 <2>1. "early" \notin doubted' => Binds(p, shownCall', call) BY DEF RestrictionsBind, Binds
 <2> QED BY <1>1, <2>1, BindsUnder
<1>5. "early" \notin doubted' /\ (call = NoCall \/ Connecting) => ~shownCall'.isDeafened
  BY DEF ConnectsUndeafened
<1> QED BY <1>1, <1>3, <1>4, <1>5, RestrictsKeeps

LEMMA VoiceErrorKeeps ==
    ASSUME CallIInv, VoiceError
    PROVE  CallHolds'
<1> USE CallTypes DEF CallIInv, CallHolds
<1> DEFINE e == Head(inbox)
           p == CASE e.code = "SERVER_MUTED" -> [policy EXCEPT !.selfMuted = TRUE, !.serverMuted = TRUE]
                  [] e.code = "OTHER" -> [policy EXCEPT !.selfMuted = TRUE]
                  [] OTHER -> [policy EXCEPT !.selfMuted = TRUE, !.speakRevoked = TRUE]
           s == CASE e.code = "SERVER_MUTED" -> [shownCall EXCEPT !.isMuted = TRUE, !.serverMuted = TRUE]
                  [] e.code = "OTHER" -> shownCall
                  [] OTHER -> [shownCall EXCEPT !.isMuted = TRUE]
<1>0. UNCHANGED <<online, granted, memberMuted, seat, viewing, listed, call, attempt, packets, doubted>>
      /\ inbox # <<>> /\ inbox' = Tail(inbox)
  BY DEF VoiceError, server, pageVars
<1>1. Sync(p) /\ shownCall' = s /\ unmute' = UnmutesAfter(e) BY DEF VoiceError
<1>2. unmute' \in [Unmute -> UnmuteRecord] BY <1>0, <1>1, InboxRest, UnmutesAfterTyped
<1>3. /\ p \in PolicyRecord /\ p.selfMuted /\ p.membership = policy.membership /\ p.deafened = policy.deafened
      /\ p.serverMuted = policy.serverMuted \/ e.code = "SERVER_MUTED"
      /\ e.code = "SERVER_MUTED" => p.serverMuted
 <2> HIDE DEF e
 <2> QED BY DEF PolicyRecord
<1>4. /\ s \in ShownRecord /\ s.channel = shownCall.channel /\ s.isDeafened = shownCall.isDeafened
      /\ s.serverMuted = shownCall.serverMuted \/ e.code = "SERVER_MUTED"
 <2> HIDE DEF e
 <2> QED BY DEF ShownRecord
<1> HIDE DEF p, s, e
<1> QED BY <1>0, <1>1, <1>2, <1>3, <1>4, RestrictionKeeps

LEMMA SpeakPermissionRevokedKeeps ==
    ASSUME CallIInv, SpeakPermissionRevoked
    PROVE  CallHolds'
<1> USE CallTypes DEF CallIInv, CallHolds
<1> DEFINE p == [policy EXCEPT !.selfMuted = TRUE, !.speakRevoked = TRUE]
           s == [shownCall EXCEPT !.isMuted = TRUE]
<1>0. UNCHANGED <<online, granted, memberMuted, seat, viewing, listed, call, attempt, packets, doubted>>
      /\ inbox # <<>> /\ inbox' = Tail(inbox)
  BY DEF SpeakPermissionRevoked, server, pageVars
<1>1. CASE call # NoCall
 <2>1. Sync(p) /\ shownCall' = s /\ unmute' = UnmutesAfter(Head(inbox)) BY <1>1 DEF SpeakPermissionRevoked
 <2>2. unmute' \in [Unmute -> UnmuteRecord] BY <1>0, <2>1, InboxRest, UnmutesAfterTyped
 <2>3. /\ p \in PolicyRecord /\ p.selfMuted /\ p.membership = policy.membership /\ p.deafened = policy.deafened
       /\ p.serverMuted = policy.serverMuted
   BY DEF PolicyRecord
 <2>4. /\ s \in ShownRecord /\ s.channel = shownCall.channel /\ s.isDeafened = shownCall.isDeafened
       /\ s.serverMuted = shownCall.serverMuted
   BY DEF ShownRecord
 <2> HIDE DEF p, s
 <2> QED BY <1>0, <2>1, <2>2, <2>3, <2>4, RestrictionKeeps
<1>2. CASE call = NoCall
 <2>1. UNCHANGED <<unmute, policy, callCaps, mic, shownCall>> BY <1>2 DEF SpeakPermissionRevoked
 <2>2. inbox' \in Seq(Event) /\ Len(packets') + Len(inbox') <= MaxQueue BY <1>0, InboxRest
 <2>3. VoiceClientTypeOK' BY <1>0, <2>1, <2>2, CallTypesNext
 <2> QED BY <1>0, <2>1, <2>3, RestrictsKeeps DEF OpenIsAllowed, RestrictionsBind, ConnectsUndeafened
<1> QED BY <1>1, <1>2

\* The call is over: nothing is joined, shown or transmitted.
LEMMA ResetKeeps ==
    ASSUME CallIInv, NEW at \in [Attempt -> AttemptRecord], \A t \in Attempt : ~at[t].current,
           Reset(at), online' \in BOOLEAN, seat' \in SeatRecord,
           packets' \in Seq(Packet), inbox' \in Seq(Event), Len(packets') + Len(inbox') <= MaxQueue,
           UNCHANGED <<granted, memberMuted, viewing, listed, doubted>>
    PROVE  CallHolds'
<1> USE CallTypes DEF CallIInv, CallHolds
<1>1. /\ call' = NoCall /\ callCaps' = {} /\ mic' = "none" /\ policy' = ClosedPolicy
      /\ attempt' = at /\ unmute' = OldUnmutes
  BY DEF Reset
<1>2. shownCall' \in ShownRecord /\ ~shownCall'.isDeafened BY DEF Reset, ShownRecord
<1>3. VoiceClientTypeOK' BY <1>1, <1>2, ClosedPolicyTyped, OldOnes, CallTypesNext
<1>4. OneAttempt' /\ OpenIsAllowed' /\ CallIsShown' BY <1>1 DEF OneAttempt, OpenIsAllowed, CallIsShown
<1>5. ConnectsUndeafened' /\ RestrictionsBind'
  BY <1>1, <1>2, ClosedPolicyTyped DEF ConnectsUndeafened, RestrictionsBind, Binds
<1> QED BY <1>3, <1>4, <1>5

LEMMA LeaveKeeps ==
    ASSUME CallIInv, Leave
    PROVE  CallHolds'
<1> USE CallTypes, OldOnes DEF CallIInv, CallHolds
<1>0. UNCHANGED <<online, granted, memberMuted, seat, viewing, listed, inbox, doubted>>
      /\ call # NoCall /\ Emits(LeavePacket) /\ Reset(OldAttempts)
  BY DEF Leave, server, pageVars
<1>1. LeavePacket \in Seq(Packet) BY <1>0, SendsPackets DEF LeavePacket
<1>2. packets' \in Seq(Packet) /\ Len(packets') + Len(inbox') <= MaxQueue BY <1>0, <1>1, EmitsTyped
<1>3. online' \in BOOLEAN /\ seat' \in SeatRecord /\ inbox' \in Seq(Event) BY <1>0
<1> QED BY <1>0, <1>2, <1>3, ResetKeeps

LEMMA PermissionRevokedKeeps ==
    ASSUME CallIInv, PermissionRevoked
    PROVE  CallHolds'
<1> USE CallTypes, OldOnes DEF CallIInv, CallHolds
<1>0. UNCHANGED <<online, granted, memberMuted, seat, viewing, listed, doubted>>
      /\ inbox # <<>> /\ inbox' = Tail(inbox)
  BY DEF PermissionRevoked, server, pageVars
<1>r. inbox' \in Seq(Event) /\ Len(packets) + Len(inbox') <= MaxQueue
  BY <1>0, InboxRest
<1>1. CASE call # NoCall
 <2>1. Emits(LeavePacket) /\ Reset(OldAttempts) BY <1>1 DEF PermissionRevoked
 <2>2. LeavePacket \in Seq(Packet) BY <1>1, SendsPackets DEF LeavePacket
 <2>3. packets' \in Seq(Packet) /\ Len(packets') + Len(inbox') <= MaxQueue
  <3>1. packets' = packets \o LeavePacket /\ Len(packets') + Len(inbox) <= MaxQueue BY <2>1 DEF Emits
  <3>2. packets' \in Seq(Packet) BY <2>2, <3>1
  <3>3. Len(inbox') = Len(inbox) - 1 /\ Len(inbox) \in Nat /\ Len(packets') \in Nat /\ MaxQueue \in Nat
    BY <1>0, <3>2, VoiceClientAssumption
  <3> QED BY <3>1, <3>2, <3>3
 <2>4. online' \in BOOLEAN /\ seat' \in SeatRecord BY <1>0
 <2> QED BY <1>0, <1>r, <2>1, <2>3, <2>4, ResetKeeps
<1>2. CASE call = NoCall
 <2>1. UNCHANGED <<call, callCaps, policy, mic, shownCall, attempt, unmute, packets>>
   BY <1>2 DEF PermissionRevoked
 <2>3. VoiceClientTypeOK' BY <1>0, <1>r, <2>1, CallTypesNext
 <2> QED BY <1>0, <2>1, <2>3, RestrictsKeeps DEF OpenIsAllowed, RestrictionsBind, ConnectsUndeafened
<1> QED BY <1>1, <1>2

LEMMA DisconnectKeeps ==
    ASSUME CallIInv, Disconnect
    PROVE  CallHolds'
<1> USE CallTypes DEF CallIInv, CallHolds
<1> DEFINE local(t) == attempt[t].pc \in {"capture", "ice"}
           kept == [t \in Attempt |-> IF local(t) THEN [attempt[t] EXCEPT !.current = FALSE] ELSE NoAttempt]
<1>0. UNCHANGED <<granted, memberMuted, viewing, listed, doubted>>
      /\ online' = FALSE /\ seat' = NoSeat /\ packets' = <<>> /\ inbox' = <<>>
  BY DEF Disconnect, pageVars
<1>1. kept \in [Attempt -> AttemptRecord] /\ \A t \in Attempt : ~kept[t].current
 <2>1. \A t \in Attempt : [attempt[t] EXCEPT !.current = FALSE] \in AttemptRecord
                          /\ ~[attempt[t] EXCEPT !.current = FALSE].current
   BY DEF AttemptRecord
 <2> QED BY <2>1, NoOnes
<1>2. /\ seat' \in SeatRecord /\ packets' \in Seq(Packet) /\ inbox' \in Seq(Event)
      /\ Len(packets') + Len(inbox') <= MaxQueue
 <2>1. NoSeat \in SeatRecord BY DEF NoSeat, SeatRecord
 <2>2. packets' \in Seq(Packet) /\ inbox' \in Seq(Event) /\ Len(packets') = 0 /\ Len(inbox') = 0 BY <1>0
 <2>3. Len(packets') + Len(inbox') <= MaxQueue BY <2>2, VoiceClientAssumption
 <2> QED BY <1>0, <2>1, <2>2, <2>3
<1>3. CASE call # NoCall
 <2>1. Reset(kept) BY <1>3 DEF Disconnect
 <2> HIDE DEF kept
 <2> QED BY <1>0, <1>1, <1>2, <2>1, ResetKeeps
<1>4. CASE call = NoCall
 <2>1. attempt' = kept /\ UNCHANGED <<call, callCaps, policy, mic, shownCall, unmute>> BY <1>4 DEF Disconnect
 <2> HIDE DEF kept
 <2>2. VoiceClientTypeOK' BY <1>0, <1>1, <1>2, <2>1, CallTypesNext
 <2>3. OneAttempt' /\ OpenIsAllowed' /\ CallIsShown'
   BY <1>1, <1>4, <2>1 DEF OneAttempt, OpenIsAllowed, CallIsShown
 <2>4. ConnectsUndeafened' /\ RestrictionsBind' BY <1>0, <1>4, <2>1 DEF ConnectsUndeafened, RestrictionsBind
 <2> QED BY <2>2, <2>3, <2>4
<1> QED BY <1>3, <1>4

LEMMA ReconnectKeeps ==
    ASSUME CallIInv, Reconnect
    PROVE  CallHolds'
<1> USE CallTypes DEF CallIInv, CallHolds
<1>0. UNCHANGED <<granted, memberMuted, seat, viewing, listed, call, callCaps, policy, mic, shownCall, attempt,
                  packets, inbox, doubted>>
      /\ online' = TRUE /\ unmute' = [t \in Unmute |-> NoUnmute]
  BY DEF Reconnect, server, pageVars
<1>1. unmute' \in [Unmute -> UnmuteRecord] BY <1>0, NoOnes
<1>2. VoiceClientTypeOK' BY <1>0, <1>1, CallTypesNext
<1> QED BY <1>0, <1>2, RestrictsKeeps DEF OpenIsAllowed, RestrictionsBind, ConnectsUndeafened

\* What the page fetches of another permission may close the microphone.
LEMMA PageChangesKeeps ==
    ASSUME CallIInv, NEW v \in BOOLEAN, NEW caps \in Caps, PageChanges(v, caps)
    PROVE  CallHolds'
<1> USE CallTypes DEF CallIInv, CallHolds
<1>0. UNCHANGED <<online, granted, memberMuted, seat, call, policy, shownCall, attempt, unmute, packets, inbox,
                  doubted>>
      /\ viewing' = v /\ listed' = caps
      /\ mic' = MicUnder(mic, call, policy, callCaps')
      /\ callCaps' = IF call # NoCall /\ v THEN caps ELSE callCaps
  BY DEF PageChanges, server
<1>1. callCaps' \subseteq Capability BY <1>0 DEF Caps, Capability
<1>2. mic' \in {"none", "closed", "open"} /\ (mic' = "open" => call # NoCall /\ policy' = OpenPolicy)
  BY <1>0 DEF MicUnder, OpenPolicy
<1>3. VoiceClientTypeOK' BY <1>0, <1>1, <1>2, CallTypesNext
<1> QED BY <1>0, <1>2, <1>3, RestrictsKeeps DEF RestrictionsBind, ConnectsUndeafened

------------------------------------------------------------
(* The gateway                                                             *)

\* A step of the gateway may answer an attempt, which stays the call's only one.
LEMMA GatewayKeeps ==
    ASSUME CallIInv, VoiceClientTypeOK', UNCHANGED <<call, mic, policy, shownCall>>,
           "early" \in doubted => "early" \in doubted',
           \A t \in Attempt : /\ attempt'[t].current = attempt[t].current
                              /\ attempt'[t].current => /\ attempt'[t].channel = attempt[t].channel
                                                        /\ attempt'[t].pc \notin {"idle", "late"}
    PROVE  CallHolds'
<1> USE DEF CallIInv, CallHolds
<1>1. OneAttempt' /\ (Connecting' <=> Connecting) BY DEF OneAttempt, Connecting
<1>2. OpenIsAllowed' /\ CallIsShown' BY <1>1 DEF OpenIsAllowed, CallIsShown
<1>3. ConnectsUndeafened' /\ RestrictionsBind' BY <1>1 DEF ConnectsUndeafened, RestrictionsBind
<1> QED BY <1>1, <1>2, <1>3

LEMMA FrontTyped ==
    ASSUME VoiceClientTypeOK, Served
    PROVE  /\ Front \in Packet /\ packets # <<>> /\ packets' = Tail(packets) /\ packets' \in Seq(Packet)
           /\ inbox' = inbox => Len(packets') + Len(inbox') <= MaxQueue
<1>1. inbox \in Seq(Event) /\ packets \in Seq(Packet) /\ Len(packets) + Len(inbox) <= MaxQueue /\ MaxQueue \in Nat
  BY CallTypes, VoiceClientAssumption
<1>2. packets # <<>> /\ packets' = Tail(packets) BY DEF Served
<1>3. Head(packets) \in Packet /\ Tail(packets) \in Seq(Packet) /\ Len(Tail(packets)) = Len(packets) - 1
  BY <1>1, <1>2
<1> QED BY <1>1, <1>2, <1>3 DEF Front

\* What an answer does to the attempt that asked.
LEMMA AttemptGetsDoes ==
    ASSUME CallIInv, Served, Asks(Front), NEW pc \in {"authorized", "refused", "joined"},
           NEW m \in BOOLEAN, NEW srv \in BOOLEAN, AttemptGets(pc, m, srv)
    PROVE  /\ attempt' \in [Attempt -> AttemptRecord] /\ Front.task \in Attempt
           /\ \A s \in Attempt \ {Front.task} : attempt'[s] = attempt[s]
           /\ attempt[Front.task].pc \in {Front.type, "late"}
           /\ attempt[Front.task].pc = "late" => attempt'[Front.task] = NoAttempt
           /\ attempt[Front.task].pc = Front.type =>
                  /\ attempt'[Front.task].pc = pc /\ attempt'[Front.task].channel = attempt[Front.task].channel
                  /\ attempt'[Front.task].current = attempt[Front.task].current
           /\ \A t \in Attempt : /\ attempt'[t].current = attempt[t].current
                                 /\ attempt'[t].current => /\ attempt'[t].channel = attempt[t].channel
                                                           /\ attempt'[t].pc \notin {"idle", "late"}
<1> USE CallTypes DEF CallIInv, CallHolds
<1> DEFINE f == Front.task
           old == attempt[f]
           new == IF old.pc = "late" THEN NoAttempt
                  ELSE [old EXCEPT !.pc = pc, !.muted = m, !.serverMuted = srv]
<1>1. f \in Attempt /\ old.pc \in {Front.type, "late"}
 <2>1. packets \in Seq(Packet) /\ packets # <<>> BY DEF Served
 <2>2. 1 \in 1..Len(packets) /\ Front = packets[1] BY <2>1 DEF Front
 <2> QED BY <2>2 DEF AsksMatch, Matches
<1>2. attempt' = [attempt EXCEPT ![f] = new] BY DEF AttemptGets
<1>3. old \in AttemptRecord BY <1>1
<1>4. /\ new \in AttemptRecord
      /\ old.pc = "late" => new = NoAttempt /\ ~new.current
      /\ old.pc # "late" => new.pc = pc /\ new.channel = old.channel /\ new.current = old.current
 <2>1. CASE old.pc = "late" BY <2>1, NoOnes
 <2>2. CASE old.pc # "late"
  <3> HIDE DEF old
  <3> QED BY <1>3, <2>2 DEF AttemptRecord
 <2> QED BY <2>1, <2>2
<1>5. Front.type # "late" BY DEF Asks
<1> HIDE DEF new
<1>6. attempt' \in [Attempt -> AttemptRecord] /\ attempt'[f] = new
      /\ \A s \in Attempt \ {f} : attempt'[s] = attempt[s]
  BY <1>1, <1>2, <1>4
<1>7. old.pc = "late" => ~old.current BY <1>1 DEF OneAttempt
<1>8. \A s \in Attempt : attempt[s].current => attempt[s].pc \notin {"idle", "late"} BY DEF OneAttempt
<1>9. old.current \in BOOLEAN BY <1>3 DEF AttemptRecord
<1>10. new.current = old.current
 <2>1. CASE old.pc = "late"
  <3>1. NoAttempt.current = FALSE BY DEF NoAttempt
  <3>2. old.current = FALSE BY <1>7, <1>9, <2>1
  <3> QED BY <1>4, <2>1, <3>1, <3>2
 <2>2. CASE old.pc # "late" BY <1>4, <2>2
 <2> QED BY <2>1, <2>2
<1> QED BY <1>1, <1>4, <1>5, <1>6, <1>7, <1>8, <1>10

LEMMA UnmuteGetsTyped ==
    ASSUME VoiceClientTypeOK, NEW pc \in {"ok", "refused"}, UnmuteGets(pc)
    PROVE  /\ unmute' \in [Unmute -> UnmuteRecord]
           /\ \A t \in Unmute : unmute'[t].current => unmute[t].current /\ unmute'[t].channel = unmute[t].channel
<1> USE CallTypes
<1> DEFINE new(t) == IF unmute[t].pc = "late" THEN NoUnmute ELSE [unmute[t] EXCEPT !.pc = pc]
<1>1. \A t \in Unmute : /\ new(t) \in UnmuteRecord
                        /\ new(t).current => unmute[t].current /\ new(t).channel = unmute[t].channel
 <2> SUFFICES ASSUME NEW t \in Unmute
              PROVE  /\ new(t) \in UnmuteRecord
                     /\ new(t).current => unmute[t].current /\ new(t).channel = unmute[t].channel
   OBVIOUS
 <2>1. unmute[t] \in UnmuteRecord OBVIOUS
 <2> QED BY <2>1, NoOnes DEF UnmuteRecord, NoUnmute
<1>2. \A t \in Unmute : unmute'[t] = IF t = Front.task THEN new(t) ELSE unmute[t] BY DEF UnmuteGets
<1>3. DOMAIN unmute' = Unmute /\ unmute' = [t \in Unmute |-> unmute'[t]] BY DEF UnmuteGets
<1> HIDE DEF new
<1> QED BY <1>1, <1>2, <1>3

LEMMA EventsTyped ==
    ASSUME VoiceClientTypeOK
    PROVE  /\ \A m \in BOOLEAN, d \in {"keep", "yes", "no"}, srv \in {"keep", "yes", "no"} :
                  /\ StateEvent(m, d, srv) \in Event
                  /\ \A c \in CallChannel : [StateEvent(m, d, srv) EXCEPT !.channel = c] \in Event
           /\ \A type \in {"error", "revoked", "speakRevoked"},
                 code \in {"", "SERVER_MUTED", "MISSING_SPEAK_PERMISSION", "OTHER"} : OtherEvent(type, code) \in Event
           /\ \A b \in BOOLEAN : Told(b) \in {"keep", "yes", "no"}
           /\ seat.deafened \in BOOLEAN
<1>1. seat \in SeatRecord BY CallTypes
<1>2. seat.channel \in CallChannel \cup {NoCall} /\ seat.deafened \in BOOLEAN BY <1>1 DEF SeatRecord
<1> QED BY <1>2, ZenonT(60) DEF StateEvent, OtherEvent, Event, Told

LEMMA TellsTyped ==
    ASSUME VoiceClientTypeOK, NEW es \in Seq(Event), Tells(es)
    PROVE  inbox' \in Seq(Event) /\ Len(packets') + Len(inbox') <= MaxQueue
BY CallTypes DEF Tells

LEMMA TellsOne ==
    ASSUME VoiceClientTypeOK, NEW e \in Event, Tells(<<e>>)
    PROVE  inbox' \in Seq(Event) /\ Len(packets') + Len(inbox') <= MaxQueue
<1>1. <<e>> \in Seq(Event) OBVIOUS
<1> QED BY <1>1, TellsTyped

LEMMA ServeAuthorizeKeeps ==
    ASSUME CallIInv, ServeAuthorize
    PROVE  CallHolds'
<1> USE CallTypes DEF CallIInv, CallHolds
<1>0. UNCHANGED <<online, granted, memberMuted, seat, viewing, listed, call, callCaps, policy, mic, shownCall,
                  unmute, inbox, doubted>> /\ Served
  BY DEF ServeAuthorize, ClientKept, server, pageVars
<1> DEFINE pc == IF "connect" \in granted THEN "authorized" ELSE "refused"
<1>1. AttemptGets(pc, FALSE, FALSE) /\ Asks(Front) /\ pc \in {"authorized", "refused", "joined"}
  BY DEF ServeAuthorize, Asks
<1> HIDE DEF pc
<1>2. /\ attempt' \in [Attempt -> AttemptRecord]
      /\ \A t \in Attempt : /\ attempt'[t].current = attempt[t].current
                            /\ attempt'[t].current => /\ attempt'[t].channel = attempt[t].channel
                                                      /\ attempt'[t].pc \notin {"idle", "late"}
  BY <1>0, <1>1, AttemptGetsDoes
<1>3. packets' \in Seq(Packet) /\ Len(packets') + Len(inbox') <= MaxQueue BY <1>0, FrontTyped
<1>4. VoiceClientTypeOK' BY <1>0, <1>2, <1>3, CallTypesNext
<1> QED BY <1>0, <1>2, <1>4, GatewayKeeps

LEMMA ServeJoinKeeps ==
    ASSUME CallIInv, ServeJoin
    PROVE  CallHolds'
<1> USE CallTypes DEF CallIInv, CallHolds
<1>0. UNCHANGED <<online, granted, memberMuted, viewing, listed, call, callCaps, policy, mic, shownCall,
                  unmute, doubted>> /\ Served /\ Asks(Front) /\ Front.type = "join"
  BY DEF ServeJoin, ClientKept, pageVars, Asks
<1> DEFINE m == memberMuted \/ "speak" \notin granted
<1>f. Front.channel \in CallChannel /\ Front \in Packet /\ packets' \in Seq(Packet)
  BY <1>0, FrontTyped DEF Packet
<1>m. m \in BOOLEAN /\ memberMuted \in BOOLEAN
  OBVIOUS
<1>1. CASE "connect" \in granted
 <2> DEFINE told == [StateEvent(TRUE, "keep", Told(memberMuted)) EXCEPT !.channel = Front.channel]
 <2>1. /\ seat' = [channel |-> Front.channel, muted |-> m, deafened |-> FALSE]
       /\ Tells(IF m THEN <<told>> ELSE <<>>)
       /\ AttemptGets("joined", m, memberMuted)
   BY <1>1 DEF ServeJoin
 <2>2. seat' \in SeatRecord BY <1>f, <1>m, <2>1 DEF SeatRecord
 <2>3. told \in Event
  <3>1. Told(memberMuted) \in {"keep", "yes", "no"} BY DEF Told
  <3> QED BY <3>1, <1>f, EventsTyped
 <2> HIDE DEF told, m
 <2>4. inbox' \in Seq(Event) /\ Len(packets') + Len(inbox') <= MaxQueue
  <3> DEFINE es == IF m THEN <<told>> ELSE <<>>
  <3>1. es \in Seq(Event) BY <2>3
  <3>2. Tells(es) BY <2>1
  <3> HIDE DEF es
  <3> QED BY <3>1, <3>2, TellsTyped
 <2>5. /\ attempt' \in [Attempt -> AttemptRecord]
       /\ \A t \in Attempt : /\ attempt'[t].current = attempt[t].current
                             /\ attempt'[t].current => /\ attempt'[t].channel = attempt[t].channel
                                                       /\ attempt'[t].pc \notin {"idle", "late"}
   BY <1>0, <1>m, <2>1, AttemptGetsDoes
 <2>6. VoiceClientTypeOK' BY <1>0, <1>f, <2>2, <2>4, <2>5, CallTypesNext
 <2> QED BY <1>0, <2>5, <2>6, GatewayKeeps
<1>2. CASE "connect" \notin granted
 <2>1. /\ seat' = NoSeat /\ Tells(<<OtherEvent("error", "OTHER")>>)
       /\ AttemptGets("refused", FALSE, FALSE)
   BY <1>2 DEF ServeJoin
 <2>2. seat' \in SeatRecord BY <2>1 DEF SeatRecord, NoSeat
 <2>3. inbox' \in Seq(Event) /\ Len(packets') + Len(inbox') <= MaxQueue
  <3> DEFINE e == OtherEvent("error", "OTHER")
  <3>1. e \in Event /\ Tells(<<e>>) BY <2>1, EventsTyped
  <3> HIDE DEF e
  <3> QED BY <3>1, TellsOne
 <2>4. /\ attempt' \in [Attempt -> AttemptRecord]
       /\ \A t \in Attempt : /\ attempt'[t].current = attempt[t].current
                             /\ attempt'[t].current => /\ attempt'[t].channel = attempt[t].channel
                                                       /\ attempt'[t].pc \notin {"idle", "late"}
   BY <1>0, <2>1, AttemptGetsDoes
 <2>5. VoiceClientTypeOK' BY <1>0, <1>f, <2>2, <2>3, <2>4, CallTypesNext
 <2> QED BY <1>0, <2>4, <2>5, GatewayKeeps
<1> QED BY <1>1, <1>2

\* A step of the gateway that answers no attempt.
LEMMA SeatMoves ==
    ASSUME CallIInv, VoiceClientTypeOK', ClientKept, attempt' = attempt,
           "early" \in doubted => "early" \in doubted'
    PROVE  CallHolds'
<1>1. UNCHANGED <<call, mic, policy, shownCall>> BY DEF ClientKept
<1>2. \A t \in Attempt : attempt[t].current => attempt[t].pc \notin {"idle", "late"}
  BY DEF CallIInv, CallHolds, OneAttempt
<1> QED BY <1>1, <1>2, GatewayKeeps

LEMMA ServeLeaveKeeps ==
    ASSUME CallIInv, ServeLeave \/ ServeMute
    PROVE  CallHolds'
<1> USE CallTypes DEF CallIInv, CallHolds
<1>0. UNCHANGED <<online, granted, memberMuted, viewing, listed, call, callCaps, policy, mic, shownCall,
                  attempt, unmute, inbox, doubted>> /\ ClientKept /\ Served
  BY DEF ServeLeave, ServeMute, ClientKept, pageVars
<1>1. seat' \in SeatRecord
 <2>1. CASE ServeLeave BY <2>1 DEF ServeLeave, SeatRecord, NoSeat
 <2>2. CASE ServeMute BY <2>2 DEF ServeMute, SeatRecord
 <2> QED BY <2>1, <2>2
<1>2. packets' \in Seq(Packet) /\ Len(packets') + Len(inbox') <= MaxQueue BY <1>0, FrontTyped
<1>3. VoiceClientTypeOK' BY <1>0, <1>1, <1>2, CallTypesNext
<1> QED BY <1>0, <1>3, SeatMoves

LEMMA ServeUnmuteKeeps ==
    ASSUME CallIInv, ServeUnmute
    PROVE  CallHolds'
<1> USE CallTypes DEF CallIInv, CallHolds
<1>0. UNCHANGED <<online, granted, memberMuted, viewing, listed, call, callCaps, policy, mic, shownCall,
                  attempt, doubted>> /\ ClientKept /\ Served
  BY DEF ServeUnmute, ClientKept, pageVars
<1>1. unmute' \in [Unmute -> UnmuteRecord]
 <2>1. UnmuteGets("ok") \/ UnmuteGets("refused") BY DEF ServeUnmute
 <2> QED BY <2>1, UnmuteGetsTyped
<1>2. seat' \in SeatRecord BY DEF ServeUnmute, SeatRecord
<1>3. packets' \in Seq(Packet) /\ (inbox' = inbox => Len(packets') + Len(inbox') <= MaxQueue)
  BY <1>0, FrontTyped
<1>4. inbox' \in Seq(Event) /\ Len(packets') + Len(inbox') <= MaxQueue
 <2>1. CASE inbox' = inbox BY <1>3, <2>1
 <2>2. CASE inbox' # inbox
  <3> DEFINE e == StateEvent(TRUE, Told(seat.deafened), "keep")
             f == StateEvent(TRUE, Told(seat.deafened), "yes")
             g == OtherEvent("error", "MISSING_SPEAK_PERMISSION")
             h == OtherEvent("error", "SERVER_MUTED")
  <3>1. e \in Event /\ f \in Event /\ g \in Event /\ h \in Event BY EventsTyped
  <3>2. Tells(IF "speak" \notin granted THEN <<e, g>> ELSE <<f, h>>) BY <2>2 DEF ServeUnmute
  <3> HIDE DEF e, f, g, h
  <3> DEFINE es == IF "speak" \notin granted THEN <<e, g>> ELSE <<f, h>>
  <3>3. es \in Seq(Event) BY <3>1
  <3>4. Tells(es) BY <3>2
  <3> HIDE DEF es
  <3> QED BY <3>3, <3>4, TellsTyped
 <2> QED BY <2>1, <2>2
<1>5. VoiceClientTypeOK' BY <1>0, <1>1, <1>2, <1>3, <1>4, CallTypesNext
<1> QED BY <1>0, <1>5, SeatMoves

LEMMA ModeratorMutesKeeps ==
    ASSUME CallIInv, NEW m \in BOOLEAN, ModeratorMutes(m)
    PROVE  CallHolds'
<1> USE CallTypes DEF CallIInv, CallHolds
<1>0. UNCHANGED <<online, granted, viewing, listed, call, callCaps, policy, mic, shownCall, attempt, unmute, packets>>
      /\ memberMuted' = m /\ ClientKept /\ MeetsAnswer
  BY DEF ModeratorMutes, ClientKept, pageVars
<1>1. doubted \subseteq doubted' /\ doubted' \subseteq {"answer", "early"} BY <1>0 DEF MeetsAnswer, Doubts
<1>2. CASE seat.channel = NoCall
 <2>1. UNCHANGED <<seat, inbox>> BY <1>2 DEF ModeratorMutes
 <2>2. VoiceClientTypeOK' BY <1>0, <1>1, <2>1, CallTypesNext
 <2> QED BY <1>0, <1>1, <2>2, SeatMoves
<1>3. CASE seat.channel # NoCall
 <2> DEFINE e == StateEvent(FALSE, Told(seat.deafened), Told(m))
 <2>1. seat' = [seat EXCEPT !.muted = m \/ @] /\ Tells(<<e>>) BY <1>3 DEF ModeratorMutes
 <2>2. seat' \in SeatRecord BY <2>1 DEF SeatRecord
 <2>3. e \in Event
  <3>1. Told(seat.deafened) \in {"keep", "yes", "no"} /\ Told(m) \in {"keep", "yes", "no"} BY DEF Told
  <3> QED BY <3>1, EventsTyped
 <2> HIDE DEF e
 <2>4. inbox' \in Seq(Event) /\ Len(packets') + Len(inbox') <= MaxQueue BY <2>1, <2>3, TellsOne
 <2>5. VoiceClientTypeOK' BY <1>0, <1>1, <2>2, <2>4, CallTypesNext
 <2> QED BY <1>0, <1>1, <2>5, SeatMoves
<1> QED BY <1>2, <1>3

LEMMA PermissionsChangeKeeps ==
    ASSUME CallIInv, NEW caps \in Caps, PermissionsChange(caps)
    PROVE  CallHolds'
<1> USE CallTypes DEF CallIInv, CallHolds
<1>0. UNCHANGED <<online, memberMuted, viewing, listed, call, callCaps, policy, mic, shownCall, attempt, unmute,
                  packets, doubted>>
      /\ granted' = caps /\ ClientKept
  BY DEF PermissionsChange, ClientKept, pageVars
<1>1. seat' \in SeatRecord
 <2>1. NoSeat \in SeatRecord /\ [seat EXCEPT !.muted = TRUE] \in SeatRecord BY DEF SeatRecord, NoSeat
 <2> QED BY <2>1 DEF PermissionsChange
<1>2. inbox' \in Seq(Event) /\ Len(packets') + Len(inbox') <= MaxQueue
 <2>1. CASE inbox' = inbox BY <1>0, <2>1
 <2>2. CASE inbox' # inbox
  <3> DEFINE e == OtherEvent("revoked", "")
             f == OtherEvent("speakRevoked", "")
  <3>1. e \in Event /\ f \in Event BY EventsTyped
  <3>2. Tells(<<e>>) \/ Tells(<<f>>) BY <2>2 DEF PermissionsChange
  <3> HIDE DEF e, f
  <3> QED BY <3>1, <3>2, TellsOne
 <2> QED BY <2>1, <2>2
<1>3. VoiceClientTypeOK' BY <1>0, <1>1, <1>2, CallTypesNext
<1> QED BY <1>0, <1>3, SeatMoves

------------------------------------------------------------
(* What is asked, and of which attempt                                     *)

Quiet(ps) == \A i \in 1..Len(ps) : ~Asks(ps[i])

\* The packets a click sends besides, and the leave of another call, ask nothing of an attempt.
LEMMA QuietSends ==
    ASSUME NEW type \in {"leave", "mute", "unmute", "deafen", "undeafen"},
           NEW c \in CallChannel, NEW t \in Attempt \cup Unmute \cup {NoTask}
    PROVE  Send(type, c, t) \in Seq(Packet) /\ Quiet(Send(type, c, t))
BY SendsPackets DEF Send, Quiet, Asks

LEMMA QuietConcat ==
    ASSUME NEW ps \in Seq(Packet), NEW qs \in Seq(Packet), Quiet(ps), Quiet(qs)
    PROVE  ps \o qs \in Seq(Packet) /\ Quiet(ps \o qs)
<1> SUFFICES ASSUME NEW i \in 1..Len(ps \o qs)
             PROVE  ~Asks((ps \o qs)[i])
  BY DEF Quiet
<1>1. CASE i \in 1..Len(ps)
 <2>1. (ps \o qs)[i] = ps[i] BY <1>1
 <2> QED BY <1>1, <2>1 DEF Quiet
<1>2. CASE ~(i \in 1..Len(ps))
 <2>1. i - Len(ps) \in 1..Len(qs) /\ (ps \o qs)[i] = qs[i - Len(ps)] BY <1>2
 <2> QED BY <2>1 DEF Quiet
<1> QED BY <1>1, <1>2

LEMMA NothingIsQuiet == <<>> \in Seq(Packet) /\ Quiet(<<>>)
BY DEF Quiet

LEMMA LeavePacketQuiet ==
    ASSUME VoiceClientTypeOK
    PROVE  LeavePacket \in Seq(Packet) /\ Quiet(LeavePacket)
<1>1. call # NoCall => call \in CallChannel BY CallTypes
<1> QED BY <1>1, QuietSends, NothingIsQuiet DEF LeavePacket

\* What a step asks, if it sends nothing that asks and answers nobody.
LEMMA AsksStay ==
    ASSUME CallIInv, NEW issued \in Seq(Packet), Quiet(issued), packets' = packets \o issued,
           \A t \in Attempt : \/ attempt'[t].pc = attempt[t].pc \/ attempt'[t].pc = "late"
                             \/ attempt[t].pc \notin {"authorize", "join", "late"}
    PROVE  AsksMatch'
<1>1. packets \in Seq(Packet) BY CallTypes DEF CallIInv, CallHolds
<1>2. Matches(packets, attempt') BY <1>1, MatchesAttempts DEF CallIInv, AsksMatch
<1>3. Matches(packets \o issued, attempt') BY <1>1, <1>2, MatchesQuiet DEF Quiet
<1> QED BY <1>3 DEF AsksMatch

LEMMA AsksRemain ==
    ASSUME CallIInv, packets' = packets,
           \A t \in Attempt : \/ attempt'[t].pc = attempt[t].pc \/ attempt'[t].pc = "late"
                             \/ attempt[t].pc \notin {"authorize", "join", "late"}
    PROVE  AsksMatch'
<1>1. packets \in Seq(Packet) BY CallTypes DEF CallIInv, CallHolds
<1>2. Matches(packets, attempt') BY <1>1, MatchesAttempts DEF CallIInv, AsksMatch
<1> QED BY <1>2 DEF AsksMatch

\* An older number ends nothing and redirects nothing.
LEMMA OldOnesStay ==
    ASSUME VoiceClientTypeOK
    PROVE  /\ \A t \in Attempt : /\ OldAttempts[t].pc = attempt[t].pc
                                /\ OldAttempts[t].channel = attempt[t].channel
           /\ \A t \in Unmute : ~OldUnmutes[t].current
BY CallTypes DEF OldAttempts, OldUnmutes, AttemptRecord, UnmuteRecord

LEMMA JoinClickedAsks ==
    ASSUME CallIInv, NEW t \in Attempt, NEW c \in CallChannel, JoinClicked(t, c)
    PROVE  AsksMatch' /\ Channeled'
<1> USE CallTypes, OldOnes, OldOnesStay DEF CallIInv, CallHolds
<1> DEFINE fresh == [NoAttempt EXCEPT !.pc = "authorize", !.channel = c, !.current = TRUE]
           p == [type |-> "authorize", channel |-> c, task |-> t]
<1>f. fresh.pc = "authorize" /\ fresh.channel = c
  BY DEF NoAttempt
<1>a. attempt' = [OldAttempts EXCEPT ![t] = fresh] /\ attempt[t].pc = "idle"
  BY DEF JoinClicked
<1> HIDE DEF fresh
<1>1. attempt'[t] = fresh /\ \A s \in Attempt \ {t} : attempt'[s] = OldAttempts[s] BY <1>a
<1>p. p \in Packet /\ Asks(p) /\ p.task = t /\ p.type = "authorize" /\ Send("authorize", c, t) = <<p>>
  BY DEF Packet, Asks, Send
<1> HIDE DEF p
<1>2. PICK issued \in Seq(Packet) : Quiet(issued) /\ packets' = packets \o (issued \o <<p>>)
 <2>1. CASE call \notin {NoCall, c}
  <3>1. packets' = packets \o (LeavePacket \o <<p>>) BY <1>p, <2>1 DEF JoinClicked, Emits
  <3> QED BY <3>1, LeavePacketQuiet
 <2>2. CASE call \in {NoCall, c}
  <3>1. packets' = packets \o <<p>> BY <1>p, <2>2 DEF JoinClicked, Emits
  <3>2. <<p>> = <<>> \o <<p>> BY <1>p
  <3> QED BY <3>1, <3>2, NothingIsQuiet
 <2> QED BY <2>1, <2>2
<1>3. packets' = (packets \o issued) \o <<p>> /\ packets \o issued \in Seq(Packet)
 <2>1. packets \in Seq(Packet) /\ <<p>> \in Seq(Packet) BY <1>p
 <2> QED BY <1>2, <2>1, ConcatAssociative
<1>4. Matches(packets \o issued, attempt) BY <1>2, MatchesQuiet DEF Quiet, AsksMatch
<1>5. AsksMatch'
 <2>1. \A s \in Attempt \ {t} : attempt'[s].pc = attempt[s].pc BY <1>1
 <2>2. /\ p.task \in Attempt /\ attempt[p.task].pc \notin {"authorize", "join", "late"}
       /\ attempt'[p.task].pc = p.type
       /\ \A s \in Attempt \ {p.task} : attempt'[s].pc = attempt[s].pc
   BY <1>1, <1>a, <1>f, <1>p, <2>1
 <2> DEFINE ps == packets \o issued
 <2>3. ps \in Seq(Packet) /\ Matches(ps, attempt) BY <1>3, <1>4
 <2> HIDE DEF ps
 <2>4. Matches(ps \o <<p>>, attempt') BY <1>p, <2>2, <2>3, MatchesAsked
 <2>5. packets' = ps \o <<p>> BY <1>3 DEF ps
 <2> QED BY <2>4, <2>5 DEF AsksMatch
<1>6. \A s \in Unmute : unmute'[s] = unmute[s] \/ ~unmute'[s].current BY DEF JoinClicked
<1>7. \A s \in Attempt : \/ attempt'[s].channel \in CallChannel
                         \/ attempt'[s].pc = attempt[s].pc /\ attempt'[s].channel = attempt[s].channel
  BY <1>1, <1>f
<1> QED BY <1>5, <1>6, <1>7 DEF Channeled

LEMMA JoinFailsAsks ==
    ASSUME CallIInv, NEW t \in Attempt, NEW next \in {"idle", "late"}, JoinFails(t, next),
           next = "late" \/ attempt[t].pc \notin {"authorize", "join", "late"}, UNCHANGED <<packets, unmute>>
    PROVE  AsksMatch' /\ Channeled'
<1> USE CallTypes DEF CallIInv, CallHolds
<1> DEFINE finished == [NoAttempt EXCEPT !.pc = next]
<1>e. finished.pc = next
  BY DEF NoAttempt
<1>a. attempt' = [attempt EXCEPT ![t] = finished]
  BY DEF JoinFails
<1> HIDE DEF finished
<1>1. attempt'[t].pc = next /\ \A s \in Attempt \ {t} : attempt'[s] = attempt[s] BY <1>a, <1>e
<1> QED BY <1>1, AsksRemain DEF Channeled

LEMMA AttemptsAsk ==
    ASSUME CallIInv, NEW t \in Attempt, AuthorizeAnswered(t) \/ CaptureAnswered(t) \/ JoinTimesOut(t)
    PROVE  AsksMatch' /\ Channeled'
<1> USE CallTypes DEF CallIInv, CallHolds
<1>0. UNCHANGED <<packets, unmute>> BY DEF AuthorizeAnswered, CaptureAnswered, JoinTimesOut
<1>1. CASE \E next \in {"idle", "late"} :
               JoinFails(t, next) /\ (next = "late" \/ attempt[t].pc \notin {"authorize", "join", "late"})
  BY <1>0, <1>1, JoinFailsAsks
<1>2. CASE \E pc \in {"capture", "ice"} :
               attempt[t].pc \in {"authorized", "refused", "capture"} /\ attempt' = [attempt EXCEPT ![t].pc = pc]
 <2>1. PICK pc \in {"capture", "ice"} :
           attempt[t].pc \in {"authorized", "refused", "capture"} /\ attempt' = [attempt EXCEPT ![t].pc = pc]
   BY <1>2
 <2>2. attempt'[t].channel = attempt[t].channel /\ \A s \in Attempt \ {t} : attempt'[s] = attempt[s]
   BY <2>1 DEF AttemptRecord
 <2>3. AsksMatch' BY <1>0, <2>1, <2>2, AsksRemain
 <2> QED BY <1>0, <2>1, <2>2, <2>3 DEF Channeled
<1>3. CASE AuthorizeAnswered(t) BY <1>1, <1>2, <1>3 DEF AuthorizeAnswered
<1>4. CASE CaptureAnswered(t) BY <1>1, <1>2, <1>4 DEF CaptureAnswered
<1>5. CASE JoinTimesOut(t) BY <1>1, <1>5 DEF JoinTimesOut
<1> QED BY <1>3, <1>4, <1>5

LEMMA IceFetchedAsks ==
    ASSUME CallIInv, NEW t \in Attempt, IceFetched(t)
    PROVE  AsksMatch' /\ Channeled'
<1> USE CallTypes DEF CallIInv, CallHolds
<1>0. unmute' = unmute /\ attempt[t].pc = "ice" BY DEF IceFetched
<1>1. CASE attempt[t].current
 <2> DEFINE p == [type |-> "join", channel |-> attempt[t].channel, task |-> t]
 <2>1. attempt[t].channel \in CallChannel BY <1>0 DEF Channeled
 <2>2. p \in Packet /\ Asks(p) /\ p.task = t /\ p.type = "join" BY <2>1 DEF Packet, Asks
 <2>3. packets' = packets \o <<p>> /\ attempt' = [attempt EXCEPT ![t].pc = "join"]
   BY <1>1 DEF IceFetched, Emits, Send
 <2> HIDE DEF p
 <2>4. /\ attempt'[t].pc = "join" /\ attempt'[t].channel = attempt[t].channel
       /\ \A s \in Attempt \ {t} : attempt'[s] = attempt[s]
   BY <2>3 DEF AttemptRecord
 <2>5. /\ p.task \in Attempt /\ attempt[p.task].pc \notin {"authorize", "join", "late"}
       /\ attempt'[p.task].pc = p.type
       /\ \A s \in Attempt \ {p.task} : attempt'[s].pc = attempt[s].pc
   BY <1>0, <2>2, <2>4
 <2>6. Matches(packets \o <<p>>, attempt') BY <2>2, <2>5, MatchesAsked DEF AsksMatch
 <2> QED BY <1>0, <2>1, <2>3, <2>4, <2>6 DEF AsksMatch, Channeled
<1>2. CASE ~attempt[t].current
 <2>1. packets' = packets /\ attempt' = [attempt EXCEPT ![t] = NoAttempt] BY <1>2 DEF IceFetched
 <2>2. NoAttempt.pc = "idle" BY DEF NoAttempt
 <2>3. attempt'[t].pc = "idle" /\ \A s \in Attempt \ {t} : attempt'[s] = attempt[s] BY <2>1, <2>2
 <2> QED BY <1>0, <2>1, <2>3, AsksRemain DEF Channeled
<1> QED BY <1>1, <1>2

LEMMA JoinAnsweredAsks ==
    ASSUME CallIInv, NEW t \in Attempt, JoinAnswered(t)
    PROVE  AsksMatch' /\ Channeled'
<1> USE CallTypes DEF CallIInv, CallHolds
<1>0. unmute' = unmute /\ attempt[t].pc = "joined" /\ attempt' = [attempt EXCEPT ![t] = NoAttempt]
  BY DEF JoinAnswered
<1>1. NoAttempt.pc = "idle" BY DEF NoAttempt
<1>2. attempt'[t].pc = "idle" /\ \A s \in Attempt \ {t} : attempt'[s] = attempt[s] BY <1>0, <1>1
<1>3. Channeled' BY <1>0, <1>2 DEF Channeled
<1>4. CASE packets' = packets BY <1>0, <1>2, <1>3, <1>4, AsksRemain
<1>5. CASE LeavesLateMembership(t)
 <2>1. attempt[t].channel \in CallChannel BY <1>0 DEF Channeled
 <2> DEFINE issued == Send("leave", attempt[t].channel, NoTask)
 <2>2. issued \in Seq(Packet) /\ Quiet(issued) BY <2>1, QuietSends
 <2>3. packets' = packets \o issued BY <1>5 DEF LeavesLateMembership, Emits
 <2> HIDE DEF issued
 <2> QED BY <1>0, <1>2, <1>3, <2>2, <2>3, AsksStay
<1> QED BY <1>4, <1>5 DEF JoinAnswered

LEMMA ResetAsks ==
    ASSUME CallIInv, Leave \/ PermissionRevoked
    PROVE  AsksMatch' /\ Channeled'
<1> USE CallTypes, OldOnesStay, LeavePacketQuiet DEF CallIInv, CallHolds
<1>1. CASE Emits(LeavePacket) /\ Reset(OldAttempts)
 <2>1. packets' = packets \o LeavePacket /\ attempt' = OldAttempts /\ unmute' = OldUnmutes
   BY <1>1 DEF Emits, Reset
 <2>2. AsksMatch' BY <2>1, AsksStay
 <2> QED BY <2>1, <2>2 DEF Channeled
<1>2. CASE UNCHANGED <<attempt, unmute, packets>> BY <1>2, AsksRemain DEF Channeled
<1> QED BY <1>1, <1>2 DEF Leave, PermissionRevoked

\* A step that asks nothing and moves no attempt.
LEMMA QuietStep ==
    ASSUME CallIInv, NEW issued \in Seq(Packet), Quiet(issued), packets' = packets \o issued, attempt' = attempt,
           \A t \in Unmute : \/ ~unmute'[t].current
                            \/ unmute'[t].channel \in CallChannel
                            \/ (unmute[t].current /\ unmute'[t].channel = unmute[t].channel)
    PROVE  AsksMatch' /\ Channeled'
BY AsksStay DEF CallIInv, Channeled

LEMMA StillStep ==
    ASSUME CallIInv, packets' = packets, attempt' = attempt,
           \A t \in Unmute : \/ ~unmute'[t].current
                            \/ (unmute[t].current /\ unmute'[t].channel = unmute[t].channel)
    PROVE  AsksMatch' /\ Channeled'
BY AsksRemain DEF CallIInv, Channeled

LEMMA MutesAsk ==
    ASSUME CallIInv, MuteClicked \/ DeafenClicked
    PROVE  AsksMatch' /\ Channeled'
<1> USE CallTypes, OldOnesStay DEF CallIInv, CallHolds
<1>0. call \in CallChannel /\ attempt' = attempt /\ unmute' = OldUnmutes BY DEF MuteClicked, DeafenClicked
<1> DEFINE mute == Send("mute", call, NoTask)
           deafen == Send("deafen", call, NoTask)
           undeafen == Send("undeafen", call, NoTask)
<1>1. /\ mute \in Seq(Packet) /\ Quiet(mute)
      /\ deafen \in Seq(Packet) /\ Quiet(deafen)
      /\ undeafen \in Seq(Packet) /\ Quiet(undeafen)
  BY <1>0, QuietSends
<1>2. CASE MuteClicked
 <2>1. packets' = packets \o mute BY <1>2 DEF MuteClicked, Emits
 <2> HIDE DEF mute, deafen, undeafen
 <2> QED BY <1>0, <1>1, <2>1, QuietStep
<1>3. CASE DeafenClicked
 <2> DEFINE first == IF ~shownCall.isDeafened THEN deafen ELSE undeafen
            second == IF ~shownCall.isDeafened /\ ~shownCall.isMuted THEN mute ELSE <<>>
 <2>1. packets' = packets \o (first \o second) BY <1>3 DEF DeafenClicked, Emits
 <2> HIDE DEF mute, deafen, undeafen
 <2>2. first \in Seq(Packet) /\ Quiet(first) /\ second \in Seq(Packet) /\ Quiet(second) BY <1>1, NothingIsQuiet
 <2> HIDE DEF first, second
 <2>3. first \o second \in Seq(Packet) /\ Quiet(first \o second) BY <2>2, QuietConcat
 <2> QED BY <1>0, <2>1, <2>3, QuietStep
<1> QED BY <1>2, <1>3

LEMMA UnmuteClickedAsks ==
    ASSUME CallIInv, NEW t \in Unmute, UnmuteClicked(t)
    PROVE  AsksMatch' /\ Channeled'
<1> USE CallTypes, OldOnesStay DEF CallIInv, CallHolds
<1>0. call \in CallChannel /\ attempt' = attempt BY DEF UnmuteClicked
<1>1. CASE UNCHANGED <<unmute, packets>> BY <1>0, <1>1, StillStep DEF Channeled
<1>2. CASE /\ Emits(Send("unmute", call, t))
           /\ unmute' = [OldUnmutes EXCEPT ![t] = [pc |-> "sent", channel |-> call, current |-> TRUE]]
 <2> DEFINE issued == Send("unmute", call, t)
 <2>1. issued \in Seq(Packet) /\ Quiet(issued) BY <1>0, QuietSends
 <2>2. packets' = packets \o issued BY <1>2 DEF Emits
 <2>3. \A s \in Unmute : ~unmute'[s].current \/ unmute'[s].channel \in CallChannel BY <1>0, <1>2, OldOnes
 <2> HIDE DEF issued
 <2> QED BY <1>0, <2>1, <2>2, <2>3, QuietStep
<1> QED BY <1>1, <1>2 DEF UnmuteClicked

LEMMA UnmuteAnsweredAsks ==
    ASSUME CallIInv, NEW t \in Unmute, UnmuteAnswered(t)
    PROVE  AsksMatch' /\ Channeled'
<1> USE CallTypes DEF CallIInv, CallHolds
<1>0. attempt' = attempt BY DEF UnmuteAnswered
<1>1. \A s \in Unmute : ~unmute'[s].current \/ unmute'[s] = unmute[s]
 <2>1. ~NoUnmute.current /\ ~[NoUnmute EXCEPT !.pc = "late"].current BY DEF NoUnmute
 <2> QED BY <2>1 DEF UnmuteAnswered
<1>2. \A s \in Unmute : \/ ~unmute'[s].current
                        \/ (unmute[s].current /\ unmute'[s].channel = unmute[s].channel)
  BY <1>1
<1>3. CASE packets' = packets BY <1>0, <1>2, <1>3, StillStep
<1>4. CASE packets' # packets
 <2> DEFINE issued == IF shownCall.isDeafened THEN Send("undeafen", unmute[t].channel, NoTask) ELSE <<>>
 <2>1. unmute[t].channel \in CallChannel /\ packets' = packets \o issued
   BY <1>4 DEF UnmuteAnswered, Emits, Channeled
 <2>2. issued \in Seq(Packet) /\ Quiet(issued) BY <2>1, QuietSends, NothingIsQuiet
 <2> HIDE DEF issued
 <2> QED BY <1>0, <1>2, <2>1, <2>2, QuietStep
<1> QED BY <1>3, <1>4

\* Events, what a moderator or an administrator does, and what the page fetches.
LEMMA ToldAsks ==
    ASSUME CallIInv,
           \/ StateUpdated \/ VoiceError \/ SpeakPermissionRevoked
           \/ \E m \in BOOLEAN : ModeratorMutes(m)
           \/ \E caps \in Caps : PermissionsChange(caps)
           \/ \E v \in BOOLEAN, caps \in Caps : PageChanges(v, caps)
    PROVE  AsksMatch' /\ Channeled'
<1> USE CallTypes, OldOnesStay DEF CallIInv, CallHolds
<1>0. packets' = packets /\ attempt' = attempt
  BY DEF StateUpdated, VoiceError, SpeakPermissionRevoked, ModeratorMutes, PermissionsChange, PageChanges
<1>1. unmute' = unmute \/ unmute' = OldUnmutes
  BY DEF StateUpdated, VoiceError, SpeakPermissionRevoked, ModeratorMutes, PermissionsChange, PageChanges, UnmutesAfter
<1>2. \A s \in Unmute : \/ ~unmute'[s].current
                        \/ (unmute[s].current /\ unmute'[s].channel = unmute[s].channel)
  BY <1>1
<1> QED BY <1>0, <1>2, StillStep

LEMMA SocketAsks ==
    ASSUME CallIInv, Disconnect \/ Reconnect
    PROVE  AsksMatch' /\ Channeled'
<1> USE CallTypes, OldOnesStay DEF CallIInv, CallHolds
<1>1. CASE Disconnect
 <2> DEFINE local(t) == attempt[t].pc \in {"capture", "ice"}
            kept == [t \in Attempt |-> IF local(t) THEN [attempt[t] EXCEPT !.current = FALSE] ELSE NoAttempt]
 <2>1. attempt' = kept /\ (unmute' = unmute \/ unmute' = OldUnmutes) /\ packets' = <<>>
   BY <1>1 DEF Disconnect, Reset
 <2>2. \A t \in Attempt : \/ kept[t].pc = "idle"
                          \/ (kept[t].pc = attempt[t].pc /\ kept[t].channel = attempt[t].channel)
   BY DEF NoAttempt, AttemptRecord
 <2> HIDE DEF kept
 <2>3. AsksMatch' BY <2>1 DEF AsksMatch, Matches
 <2> QED BY <2>1, <2>2, <2>3 DEF Channeled
<1>2. CASE Reconnect
 <2>1. packets' = packets /\ attempt' = attempt /\ \A t \in Unmute : ~unmute'[t].current
   BY <1>2 DEF Reconnect, NoUnmute
 <2> QED BY <2>1, StillStep
<1> QED BY <1>1, <1>2

LEMMA AnswersAsks ==
    ASSUME CallIInv, ServeAuthorize \/ ServeJoin
    PROVE  AsksMatch' /\ Channeled'
<1> USE CallTypes DEF CallIInv, CallHolds
<1>0. Served /\ Asks(Front) /\ unmute' = unmute BY DEF ServeAuthorize, ServeJoin, Asks
<1>1. PICK pc \in {"authorized", "refused", "joined"}, m \in BOOLEAN, srv \in BOOLEAN : AttemptGets(pc, m, srv)
 <2>1. CASE ServeAuthorize BY <2>1 DEF ServeAuthorize
 <2>2. CASE ServeJoin BY <2>2 DEF ServeJoin
 <2> QED BY <2>1, <2>2
<1>2. /\ Front.task \in Attempt
      /\ \A s \in Attempt \ {Front.task} : attempt'[s] = attempt[s]
      /\ attempt[Front.task].pc \in {Front.type, "late"}
      /\ attempt[Front.task].pc = "late" => attempt'[Front.task] = NoAttempt
      /\ attempt[Front.task].pc = Front.type => attempt'[Front.task].channel = attempt[Front.task].channel
  BY <1>0, <1>1, AttemptGetsDoes
<1>3. packets # <<>> /\ packets' = Tail(packets) /\ Front = Head(packets) BY <1>0, FrontTyped DEF Front
<1>4. AsksMatch'
 <2>1. \A t \in Attempt : (Asks(Head(packets)) => t # Head(packets).task) => attempt'[t].pc = attempt[t].pc
   BY <1>0, <1>2, <1>3
 <2> QED BY <1>3, <2>1, MatchesTail DEF AsksMatch
<1>5. NoAttempt.pc = "idle" BY DEF NoAttempt
<1>6. Channeled' BY <1>0, <1>2, <1>5 DEF Channeled, Asks
<1> QED BY <1>4, <1>6

LEMMA OtherServesAsk ==
    ASSUME CallIInv, ServeLeave \/ ServeMute \/ ServeUnmute
    PROVE  AsksMatch' /\ Channeled'
<1> USE CallTypes DEF CallIInv, CallHolds
<1>0. Served /\ attempt' = attempt BY DEF ServeLeave, ServeMute, ServeUnmute
<1>1. packets # <<>> /\ packets' = Tail(packets) BY <1>0 DEF Served
<1>2. AsksMatch' BY <1>0, <1>1, MatchesTail DEF AsksMatch
<1>3. \A t \in Unmute : unmute'[t].current => unmute[t].current /\ unmute'[t].channel = unmute[t].channel
 <2>1. unmute' = unmute \/ UnmuteGets("ok") \/ UnmuteGets("refused") BY DEF ServeLeave, ServeMute, ServeUnmute
 <2> QED BY <2>1, UnmuteGetsTyped
<1>4. Channeled' BY <1>0, <1>3 DEF Channeled
<1> QED BY <1>2, <1>4

------------------------------------------------------------
(* The theorems                                                            *)

LEMMA CallBegins ==
    ASSUME VoiceClientInit
    PROVE  CallIInv
<1>1. NoSeat \in SeatRecord /\ NoAttempt \in AttemptRecord /\ ~NoAttempt.current /\ NoUnmute \in UnmuteRecord
  BY NoOnes DEF NoSeat, SeatRecord
<1>2. NoAttempt.pc = "idle" /\ ~NoUnmute.current BY DEF NoAttempt, NoUnmute
<1>3. shownCall \in ShownRecord /\ ~shownCall.isDeafened BY DEF VoiceClientInit, ShownRecord
<1>4. packets \in Seq(Packet) /\ inbox \in Seq(Event) /\ Len(packets) + Len(inbox) <= MaxQueue
 <2>1. packets = <<>> /\ inbox = <<>> BY DEF VoiceClientInit
 <2>2. Len(packets) = 0 /\ Len(inbox) = 0 BY <2>1
 <2> QED BY <2>1, <2>2, VoiceClientAssumption
<1>5. VoiceClientTypeOK BY <1>1, <1>3, <1>4, ClosedPolicyTyped, CallTypes DEF VoiceClientInit, Caps, Capability
<1>6. AsksMatch /\ Channeled /\ OneAttempt
  BY <1>1, <1>2 DEF VoiceClientInit, AsksMatch, Matches, Channeled, OneAttempt
<1>7. OpenIsAllowed /\ CallIsShown /\ ConnectsUndeafened /\ RestrictionsBind
  BY <1>3, ClosedPolicyTyped
  DEF VoiceClientInit, OpenIsAllowed, CallIsShown, ConnectsUndeafened, RestrictionsBind, Binds
<1> QED BY <1>5, <1>6, <1>7 DEF CallIInv, CallHolds

LEMMA CallStutters ==
    ASSUME CallIInv, UNCHANGED voiceClientVars
    PROVE  CallIInv'
<1> USE DEF voiceClientVars, CallIInv, CallHolds
<1>1. VoiceClientTypeOK' BY CallTypes, CallTypesNext
<1>2. AsksMatch' /\ Channeled' /\ OneAttempt' BY DEF AsksMatch, Channeled, OneAttempt
<1>3. OpenIsAllowed' /\ CallIsShown' /\ ConnectsUndeafened' /\ RestrictionsBind'
  BY DEF OpenIsAllowed, CallIsShown, ConnectsUndeafened, RestrictionsBind, Connecting
<1> QED BY <1>1, <1>2, <1>3

LEMMA CallStep ==
    ASSUME CallIInv, VoiceClientNext
    PROVE  CallIInv'
<1>1. ASSUME NEW t \in Attempt, NEW c \in CallChannel, JoinClicked(t, c)
      PROVE  CallIInv'
  BY <1>1, JoinClickedKeeps, JoinClickedAsks DEF CallIInv
<1>2. ASSUME NEW t \in Attempt, AuthorizeAnswered(t)
      PROVE  CallIInv'
  BY <1>2, AuthorizeAnsweredKeeps, AttemptsAsk DEF CallIInv
<1>3. ASSUME NEW t \in Attempt, CaptureAnswered(t)
      PROVE  CallIInv'
  BY <1>3, CaptureAnsweredKeeps, AttemptsAsk DEF CallIInv
<1>4. ASSUME NEW t \in Attempt, IceFetched(t)
      PROVE  CallIInv'
  BY <1>4, IceFetchedKeeps, IceFetchedAsks DEF CallIInv
<1>5. ASSUME NEW t \in Attempt, JoinAnswered(t)
      PROVE  CallIInv'
  BY <1>5, JoinAnsweredKeeps, JoinAnsweredAsks DEF CallIInv
<1>6. ASSUME NEW t \in Attempt, JoinTimesOut(t)
      PROVE  CallIInv'
  BY <1>6, JoinTimesOutKeeps, AttemptsAsk DEF CallIInv
<1>7. CASE Leave BY <1>7, LeaveKeeps, ResetAsks DEF CallIInv
<1>8. CASE MuteClicked BY <1>8, MuteClickedKeeps, MutesAsk DEF CallIInv
<1>9. CASE DeafenClicked BY <1>9, DeafenClickedKeeps, MutesAsk DEF CallIInv
<1>10. ASSUME NEW t \in Unmute, UnmuteClicked(t)
       PROVE  CallIInv'
  BY <1>10, UnmuteClickedKeeps, UnmuteClickedAsks DEF CallIInv
<1>11. ASSUME NEW t \in Unmute, UnmuteAnswered(t)
       PROVE  CallIInv'
  BY <1>11, UnmuteAnsweredKeeps, UnmuteAnsweredAsks DEF CallIInv
<1>12. CASE StateUpdated BY <1>12, StateUpdatedKeeps, ToldAsks DEF CallIInv
<1>13. CASE VoiceError BY <1>13, VoiceErrorKeeps, ToldAsks DEF CallIInv
<1>14. CASE PermissionRevoked BY <1>14, PermissionRevokedKeeps, ResetAsks DEF CallIInv
<1>15. CASE SpeakPermissionRevoked BY <1>15, SpeakPermissionRevokedKeeps, ToldAsks DEF CallIInv
<1>16. CASE Disconnect BY <1>16, DisconnectKeeps, SocketAsks DEF CallIInv
<1>17. CASE Reconnect BY <1>17, ReconnectKeeps, SocketAsks DEF CallIInv
<1>18. CASE ServeAuthorize BY <1>18, ServeAuthorizeKeeps, AnswersAsks DEF CallIInv
<1>19. CASE ServeJoin BY <1>19, ServeJoinKeeps, AnswersAsks DEF CallIInv
<1>20. CASE ServeLeave \/ ServeMute BY <1>20, ServeLeaveKeeps, OtherServesAsk DEF CallIInv
<1>21. CASE ServeUnmute BY <1>21, ServeUnmuteKeeps, OtherServesAsk DEF CallIInv
<1>22. ASSUME NEW m \in BOOLEAN, ModeratorMutes(m)
       PROVE  CallIInv'
  BY <1>22, ModeratorMutesKeeps, ToldAsks DEF CallIInv
<1>23. ASSUME NEW caps \in Caps, PermissionsChange(caps)
       PROVE  CallIInv'
  BY <1>23, PermissionsChangeKeeps, ToldAsks DEF CallIInv
<1>24. ASSUME NEW v \in BOOLEAN, NEW caps \in Caps, PageChanges(v, caps)
       PROVE  CallIInv'
  BY <1>24, PageChangesKeeps, ToldAsks DEF CallIInv
<1> QED BY <1>1, <1>2, <1>3, <1>4, <1>5, <1>6, <1>7, <1>8, <1>9, <1>10, <1>11, <1>12, <1>13, <1>14, <1>15,
<1>16, <1>17, <1>18, <1>19, <1>20, <1>21, <1>22, <1>23, <1>24 DEF VoiceClientNext

\* The invariant of a call holds of every tab, whatever the channels, attempts and requests:
\* with it every packet and every event on its way is one the model knows, no answer meets an
\* attempt that did not ask for it, and only one attempt is ever waited for (useVoice.ts).
THEOREM CallInductive == VoiceClientSpec => []CallIInv
<1>1. VoiceClientInit => CallIInv BY CallBegins
<1>2. CallIInv /\ [VoiceClientNext]_voiceClientVars => CallIInv' BY CallStep, CallStutters
<1> QED BY <1>1, <1>2, PTL DEF VoiceClientSpec

\* A microphone that may transmit is in a call that is shown as such, and shown as neither muted
\* nor deafened nor muted by a moderator, unless a restriction met a call that was connecting.
THEOREM MicrophoneShown == VoiceClientSpec => []MicrophoneIsShown
<1>1. CallIInv => MicrophoneIsShown
 <2> SUFFICES ASSUME CallIInv, mic = "open", "early" \notin doubted
              PROVE  /\ shownCall.channel = call /\ call # NoCall
                     /\ ~shownCall.isMuted /\ ~shownCall.isDeafened /\ ~shownCall.serverMuted
   BY DEF MicrophoneIsShown
 <2>1. call # NoCall /\ policy = OpenPolicy BY DEF CallIInv, CallHolds, OpenIsAllowed
 <2>2. OpenPolicy.membership /\ ~OpenPolicy.selfMuted /\ ~OpenPolicy.deafened /\ ~OpenPolicy.serverMuted
   BY DEF OpenPolicy, ClosedPolicy
 <2>3. Binds(policy, shownCall, call) BY DEF CallIInv, CallHolds, RestrictionsBind
 <2> QED BY <2>1, <2>2, <2>3 DEF Binds
<1>2. VoiceClientSpec => []CallIInv BY CallInductive
<1> QED BY <1>1, <1>2, PTL

------------------------------------------------------------
(* VoiceCapture                                                            *)

TakeRecord == [pc : {"idle", "refused", "queued", "media", "resetting", "prepared", "replacing", "done"},
               graph : {"none", "live", "ready", "failed", "disposed"},
               gate : {"closed", "opening", "blocked", "open"},
               intact : BOOLEAN, session : BOOLEAN, newest : BOOLEAN, strict : BOOLEAN,
               suppression : Suppression]
NativeRecord == {n \in [pc : {"idle", "constraints", "reset", "restore", "resetBack"}, take : Take \cup {NoTake},
                        intact : BOOLEAN] : n.pc # "idle" => n.take \in Take}
SwapRecord == [phase : {"none", "forward", "back"}, todo : SUBSET CallPeer, changed : SUBSET CallPeer,
               lost : BOOLEAN]

CaptureShaped ==
    /\ known \in BOOLEAN /\ preferred \in Suppression
    /\ committed \in Take \cup {NoTake} /\ take \in [Take -> TakeRecord]
    /\ jobs \in Seq(Take \cup {"apply", "stale"})
    /\ native \in NativeRecord /\ swap \in SwapRecord /\ DOMAIN sent \subseteq CallPeer

\* An open gate is that of the graph in use, while the microphone is not being changed.
Gated ==
    \A t \in Take : take[t].gate = "open" =>
        t = committed /\ mode = "call" /\ permit /\ known /\ ~transition

\* A sender carries the graph in use, nothing, or a take that failed and is not used again;
\* the take at the head of the queue while the senders are swapped.
Carried ==
    \A p \in DOMAIN sent :
        \/ sent[p] \in {committed, Nothing}
        \/ (sent[p] \in Take /\ take[sent[p]] = Blank)
        \/ (swap.phase # "none" /\ sent[p] = Job)
Registers == registry = committed /\ (committed = NoTake => DOMAIN sent = {})

\* The queue runs one thing at a time, and a swap of the senders keeps the gate shut.
Swapping ==
    swap.phase # "none" =>
        /\ jobs # <<>> /\ Job \in Take /\ take[Job].pc = "replacing"
        /\ transition \/ committed = NoTake
Forward == swap.phase = "forward" => \A p \in DOMAIN sent : p \in swap.todo \/ sent[p] = Job
Applying == native.pc # "idle" => jobs # <<>> /\ Job \in {"apply", "stale"}
\* A reset that nothing cancelled is of the graph in use.
Intact == native.intact => native.pc # "idle" /\ native.take = committed

CaptureIInv ==
    /\ CaptureShaped /\ Gated /\ Carried /\ Registers /\ Swapping /\ Forward /\ Applying /\ Intact

------------------------------------------------------------
(* Gates and takes                                                         *)

NoneOpen(takes) == \A t \in Take : takes[t].gate # "open"

LEMMA BlankTyped == Blank \in TakeRecord /\ Blank.gate = "closed" /\ Blank.pc = "idle" /\ Blank.graph = "none"
BY DEF Blank, TakeRecord, Suppression

\* An idle take is closed, and not the newest.
LEMMA BlankStays ==
    /\ [Blank EXCEPT !.gate = "closed", !.intact = FALSE] = Blank
    /\ [Blank EXCEPT !.newest = FALSE] = Blank
<1>1. Blank \in TakeRecord /\ Blank.gate = "closed" /\ Blank.intact = FALSE /\ Blank.newest = FALSE
  BY DEF Blank, TakeRecord, Suppression
<1> DEFINE r == Blank
<1>2. r \in TakeRecord /\ r.gate = "closed" /\ r.intact = FALSE /\ r.newest = FALSE BY <1>1
<1> HIDE DEF r
<1>3. /\ [r EXCEPT !.gate = "closed", !.intact = FALSE] = r
      /\ [r EXCEPT !.newest = FALSE] = r
  BY <1>2 DEF TakeRecord
<1> QED BY <1>3 DEF r

LEMMA ClosedDoes ==
    ASSUME NEW r \in TakeRecord
    PROVE  /\ Closed(r) \in TakeRecord /\ Closed(r).gate # "open" /\ Closed(r).pc = r.pc
           /\ r = Blank => Closed(r) = Blank
<1>1. Closed(r) \in TakeRecord /\ Closed(r).gate # "open" /\ Closed(r).pc = r.pc BY DEF Closed, TakeRecord
<1>2. Closed(Blank) = Blank
 <2>1. Blank.gate = "closed" /\ Blank.intact = FALSE BY DEF Blank
 <2>2. Closed(Blank) = [Blank EXCEPT !.gate = "closed", !.intact = FALSE] BY <2>1 DEF Closed
 <2> QED BY <2>2, BlankStays
<1> QED BY <1>1, <1>2

LEMMA ReconciledDoes ==
    ASSUME NEW r \in TakeRecord, NEW may
    PROVE  /\ Reconciled(r, may) \in TakeRecord /\ Reconciled(r, may).pc = r.pc
           /\ Reconciled(r, may).gate = "open" => r.gate = "open"
           /\ r = Blank => Reconciled(r, may) = Blank
<1>1. [r EXCEPT !.gate = "opening"] \in TakeRecord /\ [r EXCEPT !.gate = "opening"].pc = r.pc
      /\ [r EXCEPT !.gate = "opening"].gate # "open"
  BY DEF TakeRecord
<1>2. r = Blank => r.graph # "ready" BY BlankTyped
<1> QED BY <1>1, <1>2, ClosedDoes DEF Reconciled

LEMMA DisposedDoes ==
    ASSUME NEW r \in TakeRecord
    PROVE  /\ Disposed(r) \in TakeRecord /\ Disposed(r).gate # "open" /\ Disposed(r).pc = r.pc
           /\ r = Blank => Disposed(r) = Blank
<1>1. Closed(r) \in TakeRecord /\ Closed(r).gate # "open" /\ Closed(r).pc = r.pc /\ (r = Blank => Closed(r) = Blank)
  BY ClosedDoes
<1> DEFINE c == Closed(r)
<1>2. Disposed(r) = [c EXCEPT !.graph = IF @ = "none" THEN @ ELSE "disposed"] BY DEF Disposed
<1> HIDE DEF c
<1>3. c \in TakeRecord /\ c.gate # "open" /\ c.pc = r.pc /\ (r = Blank => c = Blank) BY <1>1 DEF c
<1>4. Disposed(r) \in TakeRecord /\ Disposed(r).gate # "open" /\ Disposed(r).pc = r.pc
  BY <1>2, <1>3 DEF TakeRecord
<1>5. c = Blank => [c EXCEPT !.graph = IF @ = "none" THEN @ ELSE "disposed"] = c BY DEF Blank
<1> QED BY <1>2, <1>3, <1>4, <1>5

\* Blocking shuts the gate that may be open.
LEMMA BlockedDoes ==
    ASSUME CaptureIInv
    PROVE  /\ Blocked(take) \in [Take -> TakeRecord] /\ NoneOpen(Blocked(take))
           /\ \A t \in Take : /\ Blocked(take)[t].pc = take[t].pc
                              /\ take[t] = Blank => Blocked(take)[t] = Blank
<1> USE DEF CaptureIInv, CaptureShaped
<1>1. \A t \in Take : Blocked(take)[t] = IF t = committed \/ t \in Candidates THEN Closed(take[t]) ELSE take[t]
  BY DEF Blocked
<1>2. \A t \in Take : t # committed => take[t].gate # "open" BY DEF Gated
<1>3. \A t \in Take : /\ Closed(take[t]) \in TakeRecord /\ Closed(take[t]).gate # "open"
                      /\ Closed(take[t]).pc = take[t].pc
                      /\ take[t] = Blank => Closed(take[t]) = Blank
  BY ClosedDoes
<1>4. Blocked(take) \in [Take -> TakeRecord] BY <1>3 DEF Blocked
<1> QED BY <1>1, <1>2, <1>3, <1>4 DEF NoneOpen

\* Stopping shuts every gate, and leaves a swap's take to the swap.
LEMMA StoppedDoes ==
    ASSUME CaptureIInv
    PROVE  /\ Stopped \in [Take -> TakeRecord] /\ NoneOpen(Stopped)
           /\ \A t \in Take : take[t].pc = "replacing" => Stopped[t].pc = "replacing"
<1> USE DEF CaptureIInv, CaptureShaped
<1>1. ASSUME NEW t \in Take
      PROVE  /\ [Disposed(take[t]) EXCEPT !.session = FALSE, !.newest = FALSE] \in TakeRecord
             /\ [Disposed(take[t]) EXCEPT !.session = FALSE, !.newest = FALSE].gate # "open"
             /\ [Disposed(take[t]) EXCEPT !.session = FALSE, !.newest = FALSE].pc = take[t].pc
 <2> DEFINE d == Disposed(take[t])
 <2>1. d \in TakeRecord /\ d.gate # "open" /\ d.pc = take[t].pc BY DisposedDoes
 <2> HIDE DEF d
 <2>2. /\ [d EXCEPT !.session = FALSE, !.newest = FALSE] \in TakeRecord
       /\ [d EXCEPT !.session = FALSE, !.newest = FALSE].gate # "open"
       /\ [d EXCEPT !.session = FALSE, !.newest = FALSE].pc = take[t].pc
   BY <2>1 DEF TakeRecord
 <2> QED BY <2>2 DEF d
<1>2. Stopped \in [Take -> TakeRecord] BY <1>1, BlankTyped DEF Stopped
<1>3. \A t \in Take : Stopped[t].gate # "open" BY <1>1, BlankTyped DEF Stopped
<1>4. \A t \in Take : take[t].pc = "replacing" => Stopped[t].pc = "replacing" BY <1>1 DEF Stopped
<1> QED BY <1>2, <1>3, <1>4 DEF NoneOpen

\* Acquiring moves its take only.
LEMMA AcquiresDoes ==
    ASSUME NEW t \in Take, NEW takes \in [Take -> TakeRecord], NEW strict \in BOOLEAN,
           preferred' \in Suppression
    PROVE  /\ Acquires(t, takes, strict) \in [Take -> TakeRecord]
           /\ Acquires(t, takes, strict)[t].gate # "open"
           /\ \A u \in Take \ {t} : /\ Acquires(t, takes, strict)[u].gate = takes[u].gate
                                    /\ Acquires(t, takes, strict)[u].pc = takes[u].pc
                                    /\ takes[u] = Blank => Acquires(t, takes, strict)[u] = Blank
<1> DEFINE older == [u \in Take |-> [takes[u] EXCEPT !.newest = FALSE]]
           begun == [Blank EXCEPT !.session = TRUE, !.newest = TRUE, !.strict = strict, !.suppression = Effective,
                      !.pc = IF strict THEN "queued" ELSE IF known THEN "media" ELSE "refused"]
<1>1. Acquires(t, takes, strict) = [older EXCEPT ![t] = begun] BY DEF Acquires
<1>2. Effective \in Suppression BY DEF Effective, Suppression
<1>3. begun \in TakeRecord /\ begun.gate # "open"
 <2> DEFINE pc == IF strict THEN "queued" ELSE IF known THEN "media" ELSE "refused"
 <2>1. pc \in {"queued", "media", "refused"} OBVIOUS
 <2>2. begun = [Blank EXCEPT !.session = TRUE, !.newest = TRUE, !.strict = strict, !.suppression = Effective,
                             !.pc = pc]
   OBVIOUS
 <2> HIDE DEF pc, begun
 <2>3. begun = [pc |-> pc, graph |-> "none", gate |-> "closed", intact |-> FALSE,
                session |-> TRUE, newest |-> TRUE, strict |-> strict, suppression |-> Effective]
   BY <2>2 DEF Blank
 <2> QED BY <1>2, <2>1, <2>3 DEF TakeRecord
<1>4. \A u \in Take : /\ older[u] \in TakeRecord /\ older[u].gate = takes[u].gate /\ older[u].pc = takes[u].pc
                      /\ takes[u] = Blank => older[u] = Blank
 <2>1. \A u \in Take : older[u] \in TakeRecord /\ older[u].gate = takes[u].gate /\ older[u].pc = takes[u].pc
   BY ZenonT(60) DEF TakeRecord
 <2> QED BY <2>1, BlankStays
<1>5. older \in [Take -> TakeRecord] BY <1>4
<1> HIDE DEF older, begun
<1> QED BY <1>1, <1>3, <1>4, <1>5

LEMMA StrictBoolean == \A prior : Strict(prior) \in BOOLEAN
BY DEF Strict

------------------------------------------------------------
(* Senders and the queue                                                   *)

\* What is queued stays at the head of the queue.
LEMMA QueueDoes ==
    ASSUME NEW queue \in Seq(Take \cup {"apply", "stale"})
    PROVE  /\ \A x \in Take \cup {"apply", "stale"} :
                  /\ Append(queue, x) \in Seq(Take \cup {"apply", "stale"})
                  /\ queue # <<>> => Append(queue, x) # <<>> /\ Head(Append(queue, x)) = Head(queue)
           /\ StaleJobs(queue) \in Seq(Take \cup {"apply", "stale"})
           /\ queue # <<>> => /\ StaleJobs(queue) # <<>>
                              /\ Head(queue) \in Take => Head(StaleJobs(queue)) = Head(queue)
                              /\ Head(queue) \in {"apply", "stale"} => Head(StaleJobs(queue)) \in {"apply", "stale"}
                              /\ Tail(queue) \in Seq(Take \cup {"apply", "stale"})
                              /\ Head(queue) \in Take \cup {"apply", "stale"}
<1> DEFINE S == Take \cup {"apply", "stale"}
           stales == StaleJobs(queue)
<1>1. \A x \in S : /\ Append(queue, x) \in Seq(S)
                   /\ queue # <<>> => Append(queue, x) # <<>> /\ Head(Append(queue, x)) = Head(queue)
  OBVIOUS
<1>2. queue # <<>> => Tail(queue) \in Seq(S) /\ Head(queue) \in S /\ Head(queue) = queue[1] /\ 1 \in DOMAIN queue
  OBVIOUS
<1>3. stales = [i \in 1..Len(queue) |-> IF queue[i] = "apply" THEN "stale" ELSE queue[i]] BY DEF StaleJobs
<1>4. \A i \in 1..Len(queue) : queue[i] \in S OBVIOUS
<1>5. stales \in Seq(S) /\ Len(stales) = Len(queue)
 <2>1. Len(queue) \in Nat OBVIOUS
 <2>2. stales \in [1..Len(queue) -> S] BY <1>3, <1>4
 <2> HIDE DEF stales
 <2> QED BY <2>1, <2>2
<1>6. queue # <<>> => stales # <<>> /\ Head(stales) = stales[1] /\ 1 \in 1..Len(queue)
 <2> HIDE DEF stales
 <2> QED BY <1>5
<1>7. queue # <<>> => stales[1] = IF queue[1] = "apply" THEN "stale" ELSE queue[1] BY <1>3, <1>6
<1>8. "apply" \notin Take /\ "stale" \notin Take BY VoiceCaptureAssumption
<1> HIDE DEF stales
<1> QED BY <1>1, <1>2, <1>5, <1>6, <1>7, <1>8 DEF stales

\* A step that moves no sender and keeps the head of the queue.
LEMMA StillSends ==
    ASSUME CaptureIInv, UNCHANGED <<committed, registry, sent, swap>>,
           \A t \in Take : take[t] = Blank /\ (\E p \in DOMAIN sent : sent[p] = t) => take'[t] = Blank,
           swap.phase # "none" =>
               /\ jobs' # <<>> /\ Head(jobs') = Job /\ take'[Job].pc = "replacing"
               /\ transition => transition'
    PROVE  Carried' /\ Registers' /\ Swapping' /\ Forward'
<1> USE DEF CaptureIInv
<1>1. swap.phase # "none" => Job' = Job BY DEF Job
<1>2. Carried' BY <1>1 DEF Carried
<1>3. Registers' BY DEF Registers
<1>4. Swapping' BY <1>1 DEF Swapping
<1>5. Forward' BY <1>1 DEF Forward
<1> QED BY <1>2, <1>3, <1>4, <1>5

\* The end of a session leaves no sender.
LEMMA EndsSends ==
    ASSUME CaptureIInv, EndsSession, swap' = swap \/ swap'.phase = "none",
           swap'.phase # "none" =>
               /\ jobs' # <<>> /\ Head(jobs') = Job /\ take'[Job].pc = "replacing"
    PROVE  Carried' /\ Registers' /\ Swapping' /\ Forward' /\ DOMAIN sent' = {}
<1> USE DEF CaptureIInv
<1>1. sent' = <<>> /\ committed' = NoTake /\ registry' = NoTake BY DEF EndsSession
<1>2. DOMAIN sent' = {} BY <1>1
<1>3. swap'.phase # "none" => swap' = swap /\ Job' = Job BY DEF Job
<1>4. Carried' /\ Registers' /\ Forward' BY <1>1, <1>2 DEF Carried, Registers, Forward
<1>5. Swapping' BY <1>1, <1>3 DEF Swapping
<1> QED BY <1>2, <1>4, <1>5

\* No gate that is shut may stand in the way.
LEMMA ShutIsGated ==
    ASSUME NoneOpen(take')
    PROVE  Gated'
BY DEF NoneOpen, Gated

LEMMA GateStays ==
    ASSUME CaptureIInv, UNCHANGED <<committed, mode>>, permit => permit', known => known', transition' => transition,
           \A t \in Take : take'[t].gate = "open" => take[t].gate = "open"
    PROVE  Gated'
BY DEF CaptureIInv, Gated

\* While senders are swapped no gate is open.
LEMMA SwapIsSilent ==
    ASSUME CaptureIInv, swap.phase # "none"
    PROVE  /\ NoneOpen(take) /\ native.pc = "idle" /\ Job \in Take /\ jobs # <<>>
           /\ take[Job].pc = "replacing"
<1> USE DEF CaptureIInv
<1>1. jobs # <<>> /\ Job \in Take /\ (transition \/ committed = NoTake) /\ take[Job].pc = "replacing"
  BY DEF Swapping
<1>2. native.pc = "idle" BY <1>1, VoiceCaptureAssumption DEF Applying
<1>3. NoneOpen(take) BY <1>1, VoiceCaptureAssumption DEF NoneOpen, Gated
<1> QED BY <1>1, <1>2, <1>3

------------------------------------------------------------
(* The session                                                             *)

\* stop, and what ends as it does.
LEMMA IdlesKeeps ==
    ASSUME CaptureIInv, NEW takes \in [Take -> TakeRecord], NEW queue \in Seq(Take \cup {"apply", "stale"}),
           NEW applying \in NativeRecord, Idles(takes, queue, applying), NoneOpen(takes),
           UNCHANGED <<known, preferred>>, swap' \in SwapRecord, swap' = swap \/ swap'.phase = "none",
           swap'.phase # "none" => queue = jobs /\ takes[Job].pc = "replacing",
           applying.pc # "idle" => queue = jobs /\ native.pc # "idle", ~applying.intact
    PROVE  CaptureIInv'
<1> USE DEF CaptureIInv, CaptureShaped
<1>1. EndsSession /\ take' = takes /\ jobs' = StaleJobs(queue) /\ native' = applying BY DEF Idles
<1>2. jobs' \in Seq(Take \cup {"apply", "stale"}) BY <1>1, QueueDoes
<1>3. swap'.phase # "none" => jobs' # <<>> /\ Head(jobs') = Job /\ take'[Job].pc = "replacing"
 <2> SUFFICES ASSUME swap'.phase # "none"
              PROVE  jobs' # <<>> /\ Head(jobs') = Job /\ take'[Job].pc = "replacing"
   OBVIOUS
 <2>1. swap.phase # "none" /\ queue = jobs /\ take'[Job].pc = "replacing" BY <1>1
 <2>2. jobs # <<>> /\ Job \in Take BY <2>1, SwapIsSilent
 <2>3. Head(jobs) \in Take BY <2>2 DEF Job
 <2>4. jobs' # <<>> /\ Head(jobs') = Head(jobs) BY <1>1, <2>1, <2>2, <2>3, QueueDoes
 <2> QED BY <2>1, <2>4 DEF Job
<1>4. Carried' /\ Registers' /\ Swapping' /\ Forward' /\ DOMAIN sent' = {} BY <1>1, <1>3, EndsSends
<1>5. CaptureShaped' BY <1>1, <1>2, <1>4 DEF EndsSession
<1>6. Gated' BY <1>1, ShutIsGated
<1>7. Applying'
 <2> SUFFICES ASSUME native'.pc # "idle"
              PROVE  jobs' # <<>> /\ Head(jobs') \in {"apply", "stale"}
   BY DEF Applying, Job
 <2>1. queue = jobs /\ jobs # <<>> /\ Head(jobs) \in {"apply", "stale"} BY <1>1 DEF Applying, Job
 <2> QED BY <1>1, <2>1, QueueDoes
<1>8. Intact' BY <1>1 DEF Intact
<1> QED BY <1>4, <1>5, <1>6, <1>7, <1>8

LEMMA NativeBlockedTyped ==
    ASSUME CaptureShaped
    PROVE  NativeBlocked \in NativeRecord /\ NativeBlocked.pc = native.pc /\ ~NativeBlocked.intact
BY DEF CaptureShaped, NativeBlocked, NativeRecord

LEMMA StopKeeps ==
    ASSUME CaptureIInv, Stop
    PROVE  CaptureIInv'
<1>1. Idles(Stopped, jobs, NativeBlocked) /\ UNCHANGED <<known, preferred, swap>> BY DEF Stop
<1>2. NativeBlocked \in NativeRecord /\ NativeBlocked.pc = native.pc /\ ~NativeBlocked.intact
  BY NativeBlockedTyped DEF CaptureIInv
<1>3. swap'.phase # "none" => Stopped[Job].pc = "replacing" BY <1>1, SwapIsSilent, StoppedDoes
<1>4. jobs \in Seq(Take \cup {"apply", "stale"}) /\ swap' \in SwapRecord BY <1>1 DEF CaptureIInv, CaptureShaped
<1> QED BY <1>1, <1>2, <1>3, <1>4, StoppedDoes, IdlesKeeps

LEMMA FreeDoes ==
    ASSUME CaptureIInv, NEW t \in Take, Free(t)
    PROVE  /\ take[t] = Blank /\ take[t].gate = "closed" /\ ~\E p \in DOMAIN sent : sent[p] = t
           /\ swap.phase # "none" => t # Job
BY SwapIsSilent, BlankTyped DEF Free

LEMMA StartSessionKeeps ==
    ASSUME CaptureIInv, NEW t \in Take, NEW m \in {"test", "call"}, NEW only \in BOOLEAN, StartSession(t, m, only)
    PROVE  CaptureIInv'
<1> USE DEF CaptureIInv, CaptureShaped
<1>1. /\ Free(t) /\ EndsSession /\ native' = NativeBlocked
      /\ UNCHANGED <<known, preferred, swap>>
      /\ take' = Acquires(t, Stopped, Strict(NoTake)) /\ jobs' = StaleJobs(jobs)
  BY DEF StartSession
<1>2. /\ take' \in [Take -> TakeRecord] /\ take'[t].gate # "open"
      /\ \A u \in Take \ {t} : take'[u].gate = Stopped[u].gate /\ take'[u].pc = Stopped[u].pc
 <2>1. PICK takes \in [Take -> TakeRecord], strict \in BOOLEAN : takes = Stopped /\ take' = Acquires(t, takes, strict)
   BY <1>1, StoppedDoes, StrictBoolean
 <2>2. preferred' \in Suppression BY <1>1
 <2>3. /\ take' \in [Take -> TakeRecord] /\ take'[t].gate # "open"
       /\ \A u \in Take \ {t} : take'[u].gate = takes[u].gate /\ take'[u].pc = takes[u].pc
   BY <2>1, <2>2, AcquiresDoes
 <2> QED BY <2>1, <2>3
<1>3. NoneOpen(take') BY <1>2, StoppedDoes DEF NoneOpen
<1>4. jobs' \in Seq(Take \cup {"apply", "stale"}) BY <1>1, QueueDoes
<1>5. swap'.phase # "none" => jobs' # <<>> /\ Head(jobs') = Job /\ take'[Job].pc = "replacing"
 <2> SUFFICES ASSUME swap.phase # "none"
              PROVE  jobs' # <<>> /\ Head(jobs') = Job /\ take'[Job].pc = "replacing"
   BY <1>1
 <2>1. jobs # <<>> /\ Job \in Take /\ take[Job].pc = "replacing" /\ t # Job BY <1>1, SwapIsSilent, FreeDoes
 <2>2. jobs' # <<>> /\ Head(jobs') = Job BY <1>1, <2>1, QueueDoes DEF Job
 <2> QED BY <1>2, <2>1, <2>2, StoppedDoes
<1>6. Carried' /\ Registers' /\ Swapping' /\ Forward' /\ DOMAIN sent' = {} BY <1>1, <1>5, EndsSends
<1>7. native' \in NativeRecord /\ native'.pc = native.pc /\ ~native'.intact BY <1>1, NativeBlockedTyped
<1>8. CaptureShaped' BY <1>1, <1>2, <1>4, <1>6, <1>7 DEF EndsSession
<1>9. Gated' BY <1>3, ShutIsGated
<1>10. Applying'
 <2> SUFFICES ASSUME native'.pc # "idle"
              PROVE  jobs' # <<>> /\ Head(jobs') \in {"apply", "stale"}
   BY DEF Applying, Job
 <2>1. jobs # <<>> /\ Head(jobs) \in {"apply", "stale"} BY <1>7 DEF Applying, Job
 <2> QED BY <1>1, <2>1, QueueDoes
<1>11. Intact' BY <1>7 DEF Intact
<1> QED BY <1>6, <1>8, <1>9, <1>10, <1>11

\* What is acquired anew replaces no sender's take, and shuts the gate if it must.
LEMMA ReacquireKeeps ==
    ASSUME CaptureIInv, NEW t \in Take, NEW prefers \in Suppression, NEW only \in BOOLEAN, Reacquire(t, prefers, only)
    PROVE  CaptureIInv'
<1> USE DEF CaptureIInv, CaptureShaped
<1>1. /\ Free(t) /\ preferred' = prefers
      /\ UNCHANGED <<mode, permit, known, committed, jobs, registry, sent, swap>>
  BY DEF Reacquire, senders, peers
<1>2. PICK takes \in [Take -> TakeRecord], strict \in BOOLEAN :
          /\ take' = Acquires(t, takes, strict)
          /\ \A u \in Take : takes[u].pc = take[u].pc /\ (take[u] = Blank => takes[u] = Blank)
          /\ \/ NoneOpen(takes) /\ native' = NativeBlocked /\ transition' = TRUE
             \/ takes = take /\ UNCHANGED <<native, transition>>
 <2>1. CASE Strict(committed)
  <3>1. take' = Acquires(t, Blocked(take), Strict(committed)) /\ native' = NativeBlocked /\ transition' = TRUE
    BY <2>1 DEF Reacquire
  <3> QED BY <3>1, BlockedDoes, StrictBoolean
 <2>2. CASE ~Strict(committed)
  <3>1. take' = Acquires(t, take, Strict(committed)) /\ UNCHANGED <<native, transition>> BY <2>2 DEF Reacquire
  <3> QED BY <3>1, StrictBoolean
 <2> QED BY <2>1, <2>2
<1>3. /\ take' \in [Take -> TakeRecord] /\ take'[t].gate # "open"
      /\ \A u \in Take \ {t} : /\ take'[u].gate = takes[u].gate /\ take'[u].pc = takes[u].pc
                               /\ takes[u] = Blank => take'[u] = Blank
  BY <1>1, <1>2, AcquiresDoes
<1>4. native' \in NativeRecord /\ native'.pc = native.pc BY <1>2, NativeBlockedTyped
<1>5. CaptureShaped' BY <1>1, <1>3, <1>4
<1>6. Carried' /\ Registers' /\ Swapping' /\ Forward'
 <2>1. \A u \in Take : take[u] = Blank /\ (\E p \in DOMAIN sent : sent[p] = u) => take'[u] = Blank
   BY <1>1, <1>2, <1>3, FreeDoes
 <2>2. swap.phase # "none" => /\ jobs' # <<>> /\ Head(jobs') = Job /\ take'[Job].pc = "replacing"
                              /\ transition => transition'
   BY <1>1, <1>2, <1>3, SwapIsSilent, FreeDoes DEF Job
 <2> QED BY <1>1, <2>1, <2>2, StillSends
<1>7. Gated'
 <2>1. CASE NoneOpen(takes) BY <1>3, <2>1, ShutIsGated DEF NoneOpen
 <2>2. CASE takes = take /\ UNCHANGED transition BY <1>1, <1>3, <2>2, GateStays
 <2> QED BY <1>2, <2>1, <2>2
<1>8. Applying' /\ Intact' BY <1>1, <1>2, <1>4, NativeBlockedTyped DEF Applying, Intact, Job
<1> QED BY <1>5, <1>6, <1>7, <1>8

------------------------------------------------------------
(* Takes                                                                   *)

\* A take that fails: whatever swaps the senders goes on.
LEMMA AcquireFailsKeeps ==
    ASSUME CaptureIInv, NEW t \in Take, AcquireFails(t, jobs), take[t].pc # "replacing", swap' = swap
    PROVE  CaptureIInv'
<1> USE DEF CaptureIInv, CaptureShaped
<1>1. CASE take[t].newest /\ mode = "test" /\ committed = NoTake
 <2> DEFINE takes == [Stopped EXCEPT ![t] = Blank]
 <2>1. Idles(takes, jobs, NativeBlocked) /\ UNCHANGED <<known, preferred>> BY <1>1 DEF AcquireFails
 <2>2. takes \in [Take -> TakeRecord] /\ NoneOpen(takes) BY StoppedDoes, BlankTyped DEF NoneOpen
 <2>3. swap'.phase # "none" => takes[Job].pc = "replacing" BY SwapIsSilent, StoppedDoes
 <2>4. NativeBlocked \in NativeRecord /\ NativeBlocked.pc = native.pc /\ ~NativeBlocked.intact
   BY NativeBlockedTyped
 <2> HIDE DEF takes
 <2> QED BY <2>1, <2>2, <2>3, <2>4, IdlesKeeps
<1>2. CASE ~(take[t].newest /\ mode = "test" /\ committed = NoTake)
 <2>1. /\ take' = [take EXCEPT ![t] = Blank] /\ jobs' = jobs
       /\ UNCHANGED <<mode, permit, known, preferred, transition, committed, native, registry, sent>>
   BY <1>2 DEF AcquireFails, owner, peers
 <2>2. /\ take' \in [Take -> TakeRecord]
       /\ \A u \in Take : u # t => take'[u] = take[u]
       /\ take'[t] = Blank
   BY <2>1, BlankTyped
 <2>3. CaptureShaped' BY <2>1, <2>2
 <2>4. Carried' /\ Registers' /\ Swapping' /\ Forward' BY <2>1, <2>2, SwapIsSilent, StillSends DEF Job
 <2>5. Gated' BY <2>1, <2>2, BlankTyped, GateStays
 <2>6. Applying' /\ Intact' BY <2>1 DEF Applying, Intact, Job
 <2> QED BY <2>3, <2>4, <2>5, <2>6
<1> QED BY <1>1, <1>2

\* A step that changes takes, none of those that are swapped or no longer used, and opens no gate.
LEMMA TakesMove ==
    ASSUME CaptureIInv, take' \in [Take -> TakeRecord], native' = native \/ native' = NativeBlocked,
           UNCHANGED <<mode, preferred, committed, registry, sent, swap>>,
           permit => permit', known => known', known' \in BOOLEAN, transition' = transition,
           \A t \in Take : /\ take[t] = Blank => take'[t] = Blank
                           /\ take[t].pc = "replacing" => take'[t].pc = "replacing"
                           /\ take'[t].gate = "open" => take[t].gate = "open",
           jobs' \in Seq(Take \cup {"apply", "stale"}),
           jobs # <<>> => jobs' # <<>> /\ Head(jobs') = Head(jobs)
    PROVE  CaptureIInv'
<1> USE DEF CaptureIInv, CaptureShaped
<1>0. native' \in NativeRecord /\ native'.pc = native.pc /\ (native' = native \/ ~native'.intact)
  BY NativeBlockedTyped
<1>1. CaptureShaped' BY <1>0
<1>2. Carried' /\ Registers' /\ Swapping' /\ Forward' BY SwapIsSilent, StillSends DEF Job
<1>3. Gated' BY GateStays
<1>4. Applying' /\ Intact' BY <1>0 DEF Applying, Intact, Job
<1> QED BY <1>1, <1>2, <1>3, <1>4

LEMMA QueueTurnKeeps ==
    ASSUME CaptureIInv, NEW t \in Take, QueueTurn(t)
    PROVE  CaptureIInv'
<1> USE DEF CaptureIInv, CaptureShaped
<1>0. take[t].pc = "queued" /\ swap' = swap BY DEF QueueTurn
<1>1. CASE AcquireFails(t, jobs) BY <1>0, <1>1, AcquireFailsKeeps
<1>2. CASE ~AcquireFails(t, jobs)
 <2> DEFINE r == [take[t] EXCEPT !.pc = IF known THEN "media" ELSE "refused"]
 <2>1. /\ take' = [u \in Take |->
                IF u = t THEN r ELSE IF u = committed \/ u \in Candidates THEN Disposed(take[u]) ELSE take[u]]
       /\ native' = NativeBlocked
       /\ UNCHANGED <<mode, permit, known, preferred, transition, committed, jobs, registry, sent>>
   BY <1>2 DEF QueueTurn, owner, peers
 <2>2. r \in TakeRecord /\ r.gate = take[t].gate BY DEF TakeRecord
 <2>3. take[t] # Blank BY <1>0, BlankTyped
 <2> HIDE DEF r
 <2>4. \A u \in Take : /\ Disposed(take[u]) \in TakeRecord /\ Disposed(take[u]).gate # "open"
                       /\ Disposed(take[u]).pc = take[u].pc
                       /\ take[u] = Blank => Disposed(take[u]) = Blank
   BY DisposedDoes
 <2>5. take' \in [Take -> TakeRecord] BY <2>1, <2>2, <2>4
 <2>6. \A u \in Take : /\ take[u] = Blank => take'[u] = Blank
                       /\ take[u].pc = "replacing" => take'[u].pc = "replacing"
                       /\ take'[u].gate = "open" => take[u].gate = "open"
   BY <1>0, <2>1, <2>2, <2>3, <2>4
 <2> QED BY <1>0, <2>1, <2>5, <2>6, TakesMove
<1> QED BY <1>1, <1>2

LEMMA MediaAnsweredKeeps ==
    ASSUME CaptureIInv, NEW t \in Take, MediaAnswered(t)
    PROVE  CaptureIInv'
<1> USE DEF CaptureIInv, CaptureShaped
<1>0. take[t].pc \in {"media", "refused"} /\ swap' = swap BY DEF MediaAnswered
<1>1. CASE AcquireFails(t, jobs) BY <1>0, <1>1, AcquireFailsKeeps
<1>2. CASE ~AcquireFails(t, jobs)
 <2> DEFINE r == [take[t] EXCEPT !.pc = "resetting", !.graph = "live", !.intact = TRUE]
 <2>1. /\ take' = [take EXCEPT ![t] = r]
       /\ UNCHANGED <<mode, permit, known, preferred, transition, committed, jobs, native, registry, sent>>
   BY <1>2 DEF MediaAnswered, owner, peers
 <2>2. r \in TakeRecord /\ r.gate = take[t].gate /\ take[t] # Blank BY <1>0, BlankTyped DEF TakeRecord
 <2> HIDE DEF r
 <2>3. take' \in [Take -> TakeRecord] /\ take'[t] = r /\ \A u \in Take \ {t} : take'[u] = take[u] BY <2>1, <2>2
 <2> QED BY <1>0, <2>1, <2>2, <2>3, TakesMove
<1> QED BY <1>1, <1>2

LEMMA ResetAnsweredKeeps ==
    ASSUME CaptureIInv, NEW t \in Take, ResetAnswered(t)
    PROVE  CaptureIInv'
<1> USE DEF CaptureIInv, CaptureShaped
<1>0. take[t].pc = "resetting" /\ swap' = swap BY DEF ResetAnswered
<1>1. CASE AcquireFails(t, jobs) BY <1>0, <1>1, AcquireFailsKeeps
<1>2. CASE ~AcquireFails(t, jobs)
 <2> DEFINE r == [take[t] EXCEPT !.pc = "prepared", !.graph = "ready", !.intact = FALSE]
 <2>1. /\ take' = [take EXCEPT ![t] = r] /\ jobs' = Append(jobs, t)
       /\ UNCHANGED <<mode, permit, known, preferred, transition, committed, native, registry, sent>>
   BY <1>2 DEF ResetAnswered, owner, peers
 <2>2. r \in TakeRecord /\ r.gate = take[t].gate /\ take[t] # Blank BY <1>0, BlankTyped DEF TakeRecord
 <2> HIDE DEF r
 <2>3. take' \in [Take -> TakeRecord] /\ take'[t] = r /\ \A u \in Take \ {t} : take'[u] = take[u] BY <2>1, <2>2
 <2>4. jobs' \in Seq(Take \cup {"apply", "stale"}) /\ (jobs # <<>> => jobs' # <<>> /\ Head(jobs') = Head(jobs))
   BY <2>1, QueueDoes
 <2> QED BY <1>0, <2>1, <2>2, <2>3, <2>4, TakesMove
<1> QED BY <1>1, <1>2

\* What a failure makes of a graph.
LEMMA FailedTyped ==
    ASSUME NEW takes \in [Take -> TakeRecord], NEW t \in Take, takes[t] # Blank, NEW g \in {"disposed", "failed"},
           NEW after, after = [takes EXCEPT ![t].graph = g]
    PROVE  /\ after \in [Take -> TakeRecord]
           /\ \A u \in Take : /\ takes[u] = Blank => after[u] = Blank
                              /\ after[u].pc = takes[u].pc
                              /\ after[u].gate = takes[u].gate
<1> DEFINE r == [takes[t] EXCEPT !.graph = g]
<1>1. r \in TakeRecord /\ r.pc = takes[t].pc /\ r.gate = takes[t].gate BY DEF TakeRecord
<1>2. after = [takes EXCEPT ![t] = r] OBVIOUS
<1> HIDE DEF r
<1> QED BY <1>1, <1>2

\* A graph that fails shuts its gate; that of a call's microphone shuts them all.
LEMMA GraphFailsKeeps ==
    ASSUME CaptureIInv, NEW t \in Take, GraphFails(t)
    PROVE  CaptureIInv'
<1> USE DEF CaptureIInv, CaptureShaped
<1>0. take[t] # Blank /\ swap' = swap BY BlankTyped DEF GraphFails
<1> DEFINE fallen(takes) == IF t = committed /\ takes[t].graph = "ready" /\ takes[t].suppression = "RNNOISE"
                            THEN "disposed" ELSE "failed"
<1>1. CASE t = committed /\ mode = "test"
 <2>1. Idles(Stopped, jobs, NativeBlocked) /\ UNCHANGED <<known, preferred>> BY <1>1 DEF GraphFails
 <2>2. swap'.phase # "none" => Stopped[Job].pc = "replacing" BY <1>0, SwapIsSilent, StoppedDoes
 <2>3. NativeBlocked \in NativeRecord /\ NativeBlocked.pc = native.pc /\ ~NativeBlocked.intact
   BY NativeBlockedTyped
 <2> QED BY <1>0, <2>1, <2>2, <2>3, StoppedDoes, IdlesKeeps
<1>2. CASE ~(t = committed /\ mode = "test")
 <2>1. PICK takes \in [Take -> TakeRecord] :
           /\ take' = [takes EXCEPT ![t].graph = fallen(takes)]
           /\ takes[t] # Blank
           /\ \A u \in Take : /\ takes[u].pc = take[u].pc /\ (take[u] = Blank => takes[u] = Blank)
                              /\ takes[u].gate = "open" => take[u].gate = "open"
           /\ native' = native \/ native' = NativeBlocked
           /\ UNCHANGED <<mode, permit, known, preferred, transition, committed, jobs, registry, sent>>
  <3>1. CASE t # committed
   <4> DEFINE r == Closed(take[t])
              takes == [take EXCEPT ![t] = r]
   <4>1. r \in TakeRecord /\ r.gate # "open" /\ r.pc = take[t].pc BY ClosedDoes
   <4>2. r # Blank
    <5>1. r.graph = take[t].graph BY DEF Closed, TakeRecord
    <5>2. take[t].graph \in {"live", "ready"} BY DEF GraphFails
    <5> QED BY <5>1, <5>2, BlankTyped
   <4>3. take' = [takes EXCEPT ![t].graph = fallen(takes)] BY <3>1 DEF GraphFails
   <4>4. UNCHANGED <<mode, permit, known, preferred, transition, committed, jobs, native, registry, sent>>
     BY <3>1 DEF GraphFails, owner, peers
   <4> HIDE DEF r
   <4>5. takes \in [Take -> TakeRecord] /\ takes[t] = r /\ \A u \in Take \ {t} : takes[u] = take[u] BY <4>1
   <4> HIDE DEF takes
   <4> QED BY <1>0, <4>1, <4>2, <4>3, <4>4, <4>5
  <3>2. CASE t = committed
   <4> DEFINE takes == Blocked(take)
   <4>1. takes[t] # Blank
    <5>1. takes[t] = Closed(take[t]) BY <3>2 DEF Blocked
    <5>2. Closed(take[t]).graph = take[t].graph BY DEF Closed, TakeRecord
    <5>3. take[t].graph \in {"live", "ready"} BY DEF GraphFails
    <5> QED BY <5>1, <5>2, <5>3, BlankTyped
   <4>2. take' = [takes EXCEPT ![t].graph = fallen(takes)] /\ native' = NativeBlocked
     BY <1>2, <3>2 DEF GraphFails
   <4>3. UNCHANGED <<mode, permit, known, preferred, transition, committed, jobs, registry, sent>>
     BY <1>2, <3>2 DEF GraphFails, owner, peers
   <4>4. takes \in [Take -> TakeRecord] /\ NoneOpen(takes)
         /\ \A u \in Take : takes[u].pc = take[u].pc /\ (take[u] = Blank => takes[u] = Blank)
     BY BlockedDoes
   <4> HIDE DEF takes
   <4> QED BY <4>1, <4>2, <4>3, <4>4 DEF NoneOpen
  <3> QED BY <3>1, <3>2
 <2> DEFINE g == fallen(takes)
 <2>2. g \in {"disposed", "failed"} OBVIOUS
 <2>3. take' = [takes EXCEPT ![t].graph = g] BY <2>1
 <2> HIDE DEF g
 <2>4. /\ take' \in [Take -> TakeRecord]
       /\ \A u \in Take : /\ takes[u] = Blank => take'[u] = Blank
                          /\ take'[u].pc = takes[u].pc /\ take'[u].gate = takes[u].gate
  <3>1. takes[t] # Blank BY <2>1
  <3> QED BY <2>2, <2>3, <3>1, FailedTyped
 <2> QED BY <1>0, <2>1, <2>4, TakesMove
<1> QED BY <1>1, <1>2

\* A gate opens for the graph in use, while the microphone is not being changed.
LEMMA GateOpensKeeps ==
    ASSUME CaptureIInv, NEW t \in Take, GateOpens(t)
    PROVE  CaptureIInv'
<1> USE DEF CaptureIInv, CaptureShaped
<1> DEFINE g == IF take[t].graph = "ready" /\ t = committed /\ Allowed(permit, transition) THEN "open" ELSE "closed"
           r == [take[t] EXCEPT !.gate = g]
<1>1. /\ take' = [take EXCEPT ![t] = r] /\ take[t].gate = "opening"
      /\ UNCHANGED <<mode, permit, known, preferred, transition, committed, jobs, native, registry, sent, swap>>
  BY DEF GateOpens, owner, senders, peers
<1>2. /\ g \in {"open", "closed"}
      /\ g = "open" => t = committed /\ mode = "call" /\ permit /\ known /\ ~transition
  BY DEF Allowed
<1> HIDE DEF g
<1>3. r \in TakeRecord /\ r.pc = take[t].pc /\ r.gate = g /\ take[t] # Blank
  BY <1>1, <1>2, BlankTyped DEF TakeRecord
<1> HIDE DEF r
<1>4. take' \in [Take -> TakeRecord] /\ take'[t] = r /\ \A u \in Take \ {t} : take'[u] = take[u] BY <1>1, <1>3
<1>5. CaptureShaped' BY <1>1, <1>4
<1>6. Gated' BY <1>1, <1>2, <1>3, <1>4 DEF Gated
<1>7. Carried' /\ Registers' /\ Swapping' /\ Forward' BY <1>1, <1>3, <1>4, SwapIsSilent, StillSends DEF Job
<1>8. Applying' /\ Intact' BY <1>1 DEF Applying, Intact, Job
<1> QED BY <1>5, <1>6, <1>7, <1>8

LEMMA GateRetriesKeeps ==
    ASSUME CaptureIInv, NEW t \in Take, GateRetries(t)
    PROVE  CaptureIInv'
<1> USE DEF CaptureIInv, CaptureShaped
<1> DEFINE s == [take[t] EXCEPT !.gate = "closed"]
           r == IF t = committed THEN Reconciled(s, Allowed(permit, transition)) ELSE s
<1>1. /\ take' = [take EXCEPT ![t] = r] /\ take[t].gate = "blocked"
      /\ UNCHANGED <<mode, permit, known, preferred, transition, committed, jobs, native, registry, sent, swap>>
  BY DEF GateRetries, owner, senders, peers
<1>2. s \in TakeRecord /\ s.pc = take[t].pc /\ s.gate = "closed" /\ take[t] # Blank
  BY <1>1, BlankTyped DEF TakeRecord
<1> HIDE DEF s
<1>3. r \in TakeRecord /\ r.pc = take[t].pc /\ r.gate # "open" BY <1>2, ReconciledDoes
<1> HIDE DEF r
<1>4. take' \in [Take -> TakeRecord] /\ take'[t] = r /\ \A u \in Take \ {t} : take'[u] = take[u] BY <1>1, <1>3
<1> QED BY <1>1, <1>2, <1>3, <1>4, TakesMove
------------------------------------------------------------
(* Committing a take                                                       *)

\* The senders carry the take that is committed.
LEMMA CommitsKeeps ==
    ASSUME CaptureIInv, NEW t \in Take, jobs # <<>>, Job = t, Commits(t), \A p \in DOMAIN sent : sent[p] = t
    PROVE  CaptureIInv'
<1> USE DEF CaptureIInv, CaptureShaped
<1> DEFINE c == [Closed(take[t]) EXCEPT !.pc = "done"]
           r == Reconciled(c, Allowed(permit, FALSE))
<1>1. /\ take' = [u \in Take |-> IF u = t THEN r ELSE IF u = committed THEN Blank ELSE take[u]]
      /\ committed' = t /\ registry' = t /\ jobs' = Tail(jobs) /\ swap' = NoSwap
      /\ UNCHANGED <<known, preferred, native, sent>>
  BY DEF Commits, owner
<1>2. c \in TakeRecord /\ c.gate # "open"
 <2> DEFINE d == Closed(take[t])
 <2>1. d \in TakeRecord /\ d.gate # "open" BY ClosedDoes
 <2> HIDE DEF d
 <2>2. [d EXCEPT !.pc = "done"] \in TakeRecord /\ [d EXCEPT !.pc = "done"].gate # "open" BY <2>1 DEF TakeRecord
 <2> QED BY <2>2 DEF d
<1> HIDE DEF c
<1>3. r \in TakeRecord /\ r.gate # "open" BY <1>2, ReconciledDoes
<1> HIDE DEF r
<1>4. take' \in [Take -> TakeRecord] BY <1>1, <1>3, BlankTyped
<1>5. NoneOpen(take') BY <1>1, <1>3, BlankTyped DEF NoneOpen, Gated
<1>6. jobs' \in Seq(Take \cup {"apply", "stale"}) BY <1>1, QueueDoes
<1>7. NoSwap \in SwapRecord /\ NoSwap.phase = "none" BY DEF NoSwap, SwapRecord
<1>8. CaptureShaped' BY <1>1, <1>4, <1>6, <1>7
<1>9. Carried' /\ Registers' BY <1>1, VoiceCaptureAssumption DEF Carried, Registers
<1>10. Swapping' /\ Forward' BY <1>1, <1>7 DEF Swapping, Forward
<1>11. Applying' /\ Intact' BY <1>1, VoiceCaptureAssumption DEF Applying, Intact
<1> QED BY <1>5, <1>8, <1>9, <1>10, <1>11, ShutIsGated

\* The take at the head of the queue is given up: a sender that carries it carries a dead one.
LEMMA JobGoneKeeps ==
    ASSUME CaptureIInv, jobs # <<>>, Job \in Take, take' \in [Take -> TakeRecord], take'[Job] = Blank,
           \A u \in Take : /\ take[u] = Blank => take'[u] = Blank
                           /\ take'[u].gate = "open" => take[u].gate = "open",
           jobs' = Tail(jobs), swap' \in SwapRecord, swap'.phase = "none",
           transition' => transition \/ NoneOpen(take),
           UNCHANGED <<mode, permit, known, preferred, committed, native, registry, sent>>
    PROVE  CaptureIInv'
<1> USE DEF CaptureIInv, CaptureShaped
<1>1. jobs' \in Seq(Take \cup {"apply", "stale"}) BY QueueDoes
<1>2. CaptureShaped' BY <1>1
<1>3. Gated' BY DEF NoneOpen, Gated
<1>4. Carried' /\ Registers' BY DEF Carried, Registers
<1>5. Swapping' /\ Forward' BY DEF Swapping, Forward
<1>6. Applying' /\ Intact' BY VoiceCaptureAssumption DEF Applying, Intact
<1> QED BY <1>2, <1>3, <1>4, <1>5, <1>6

LEMMA VerificationFailsKeeps ==
    ASSUME CaptureIInv, NEW t \in Take, jobs # <<>>, Job = t, VerificationFails(t)
    PROVE  CaptureIInv'
<1> USE DEF CaptureIInv, CaptureShaped
<1>1. AcquireFails(t, Tail(jobs)) /\ swap' = NoSwap BY DEF VerificationFails
<1>2. NoSwap \in SwapRecord /\ NoSwap.phase = "none" BY DEF NoSwap, SwapRecord
<1>3. CASE take[t].newest /\ mode = "test" /\ committed = NoTake
 <2> DEFINE takes == [Stopped EXCEPT ![t] = Blank]
 <2>1. Idles(takes, Tail(jobs), NativeBlocked) /\ UNCHANGED <<known, preferred>> BY <1>1, <1>3 DEF AcquireFails
 <2>2. takes \in [Take -> TakeRecord] /\ NoneOpen(takes) BY StoppedDoes, BlankTyped DEF NoneOpen
 <2>3. NativeBlocked \in NativeRecord /\ NativeBlocked.pc = "idle" /\ ~NativeBlocked.intact
   BY NativeBlockedTyped, VoiceCaptureAssumption DEF Applying
 <2>4. Tail(jobs) \in Seq(Take \cup {"apply", "stale"}) BY QueueDoes
 <2> HIDE DEF takes
 <2> QED BY <1>1, <1>2, <2>1, <2>2, <2>3, <2>4, IdlesKeeps
<1>4. CASE ~(take[t].newest /\ mode = "test" /\ committed = NoTake)
 <2>1. /\ take' = [take EXCEPT ![t] = Blank] /\ jobs' = Tail(jobs)
       /\ UNCHANGED <<mode, permit, known, preferred, transition, committed, native, registry, sent>>
   BY <1>1, <1>4 DEF AcquireFails, owner, peers
 <2>2. /\ take' \in [Take -> TakeRecord] /\ take'[t] = Blank
       /\ \A u \in Take : u # t => take'[u] = take[u]
   BY <2>1, BlankTyped
 <2> QED BY <1>1, <1>2, <2>1, <2>2, BlankTyped, JobGoneKeeps
<1> QED BY <1>3, <1>4

LEMMA CommitStartsKeeps ==
    ASSUME CaptureIInv, NEW t \in Take, CommitStarts(t)
    PROVE  CaptureIInv'
<1> USE DEF CaptureIInv, CaptureShaped
<1>0. jobs # <<>> /\ Job = t /\ take[t].pc = "prepared" /\ swap.phase = "none" BY DEF CommitStarts, Swapping
<1>1. CASE ~IsCurrent(t)
 <2>1. /\ take' = [take EXCEPT ![t] = Blank] /\ jobs' = Tail(jobs)
       /\ UNCHANGED <<mode, permit, known, preferred, transition, committed, native, registry, sent, swap>>
   BY <1>1 DEF CommitStarts, owner, senders, peers
 <2>2. /\ take' \in [Take -> TakeRecord] /\ take'[t] = Blank
       /\ \A u \in Take : u # t => take'[u] = take[u]
   BY <2>1, BlankTyped
 <2> QED BY <1>0, <2>1, <2>2, BlankTyped, JobGoneKeeps
<1>2. CASE IsCurrent(t) /\ committed = NoTake
 <2>1. Commits(t) \/ VerificationFails(t) BY <1>2 DEF CommitStarts
 <2>2. \A p \in DOMAIN sent : sent[p] = t BY <1>2 DEF Registers
 <2> QED BY <1>0, <2>1, <2>2, CommitsKeeps, VerificationFailsKeeps
<1>3. CASE IsCurrent(t) /\ committed # NoTake
 <2> DEFINE b == Blocked(take)
            r == [Closed(b[t]) EXCEPT !.pc = "replacing"]
 <2>1. /\ transition' = TRUE /\ take' = [b EXCEPT ![t] = r]
       /\ swap' = [NoSwap EXCEPT !.phase = "forward", !.todo = DOMAIN sent]
       /\ UNCHANGED <<mode, permit, known, preferred, committed, jobs, native, registry, sent>>
   BY <1>3 DEF CommitStarts, owner, peers
 <2>2. /\ b \in [Take -> TakeRecord] /\ NoneOpen(b)
       /\ \A u \in Take : b[u].pc = take[u].pc /\ (take[u] = Blank => b[u] = Blank)
   BY BlockedDoes
 <2> HIDE DEF b
 <2>3. r \in TakeRecord /\ r.gate # "open" /\ r.pc = "replacing"
  <3> DEFINE d == Closed(b[t])
  <3>1. d \in TakeRecord /\ d.gate # "open" BY <2>2, ClosedDoes
  <3> HIDE DEF d
  <3>2. /\ [d EXCEPT !.pc = "replacing"] \in TakeRecord /\ [d EXCEPT !.pc = "replacing"].gate # "open"
        /\ [d EXCEPT !.pc = "replacing"].pc = "replacing"
    BY <3>1 DEF TakeRecord
  <3> QED BY <3>2 DEF d
 <2> HIDE DEF r
 <2>4. /\ take' \in [Take -> TakeRecord] /\ take'[t] = r
       /\ \A u \in Take \ {t} : take'[u] = b[u]
   BY <2>1, <2>2, <2>3
 <2>5. swap' \in SwapRecord /\ swap'.phase = "forward" /\ swap'.todo = DOMAIN sent
   BY <2>1 DEF NoSwap, SwapRecord
 <2>6. CaptureShaped' BY <2>1, <2>4, <2>5
 <2>7. Gated' BY <2>2, <2>3, <2>4, ShutIsGated DEF NoneOpen
 <2>8. take[t] # Blank BY <1>0, BlankTyped
 <2>9. Carried' BY <1>0, <2>1, <2>2, <2>4, <2>8 DEF Carried
 <2>10. Registers' /\ Swapping' /\ Forward' /\ Applying' /\ Intact'
   BY <1>0, <2>1, <2>3, <2>4, <2>5 DEF Registers, Swapping, Forward, Applying, Intact, Job
 <2> QED BY <2>6, <2>7, <2>9, <2>10
<1> QED BY <1>1, <1>2, <1>3

\* A step that only changes what the senders carry, while they are swapped.
LEMMA SendersMove ==
    ASSUME CaptureIInv, UNCHANGED <<mode, permit, known, preferred, transition, committed, take, jobs, native, registry>>,
           swap' \in SwapRecord, DOMAIN sent' \subseteq DOMAIN sent, swap'.phase # "none" => swap.phase # "none",
           \A p \in DOMAIN sent' : \/ sent'[p] = sent[p]
                                   \/ sent'[p] \in {committed, Nothing}
                                   \/ sent'[p] = Job,
           swap'.phase = "none" => swap.phase = "none" /\ \A p \in DOMAIN sent' : sent'[p] = sent[p],
           swap'.phase = "forward" =>
               /\ swap.phase = "forward"
               /\ \A p \in DOMAIN sent' : p \in swap'.todo \/ sent'[p] = Job \/ (p \notin swap.todo /\ sent'[p] = sent[p])
    PROVE  CaptureIInv'
<1> USE DEF CaptureIInv, CaptureShaped
<1>1. Job' = Job BY DEF Job
<1>2. CaptureShaped' OBVIOUS
<1>3. Gated' /\ Applying' /\ Intact' BY <1>1 DEF Gated, Applying, Intact
<1>4. Carried' BY <1>1 DEF Carried
<1>5. Registers' BY DEF Registers
<1>6. Swapping' /\ Forward' BY <1>1 DEF Swapping, Forward
<1> QED BY <1>2, <1>3, <1>4, <1>5, <1>6

LEMMA ReplacesKeeps ==
    ASSUME CaptureIInv, NEW p \in CallPeer, Replaces(p)
    PROVE  CaptureIInv'
<1> USE DEF CaptureIInv, CaptureShaped
<1>1. /\ swap.phase = "forward"
      /\ UNCHANGED <<mode, permit, known, preferred, transition, committed, take, jobs, native, registry>>
  BY DEF Replaces, Kept, owner
<1>2. CASE sent' = [sent EXCEPT ![p] = Job] /\ swap' = [swap EXCEPT !.todo = @ \ {p}, !.changed = @ \cup {p}]
 <2>1. swap' \in SwapRecord /\ swap'.phase = "forward" /\ swap'.todo = swap.todo \ {p}
   BY <1>1, <1>2 DEF SwapRecord
 <2>2. DOMAIN sent' = DOMAIN sent /\ \A q \in DOMAIN sent : sent'[q] = IF q = p THEN Job ELSE sent[q] BY <1>2
 <2> QED BY <1>1, <2>1, <2>2, SendersMove
<1>3. CASE UNCHANGED sent /\ swap' = [swap EXCEPT !.phase = "back"]
 <2>1. swap' \in SwapRecord /\ swap'.phase = "back" BY <1>3 DEF SwapRecord
 <2> QED BY <1>1, <1>3, <2>1, SendersMove
<1> QED BY <1>2, <1>3 DEF Replaces, Carries

LEMMA RestoresKeeps ==
    ASSUME CaptureIInv, NEW p \in CallPeer, Restores(p)
    PROVE  CaptureIInv'
<1> USE DEF CaptureIInv, CaptureShaped
<1>1. /\ swap.phase = "back" /\ registry = committed
      /\ UNCHANGED <<mode, permit, known, preferred, transition, committed, take, jobs, native, registry>>
  BY DEF Restores, Kept, owner, Registers
<1>2. swap' \in SwapRecord /\ swap'.phase = "back" BY <1>1 DEF Restores, SwapRecord
<1>3. sent' = [sent EXCEPT ![p] = registry] \/ sent' = [sent EXCEPT ![p] = Nothing] \/ sent' = sent
  BY DEF Restores, Carries
<1>4. DOMAIN sent' = DOMAIN sent /\ \A q \in DOMAIN sent : sent'[q] = sent[q] \/ sent'[q] \in {committed, Nothing}
  BY <1>1, <1>3
<1> QED BY <1>1, <1>2, <1>4, SendersMove

LEMMA SwapEndsKeeps ==
    ASSUME CaptureIInv, SwapEnds
    PROVE  CaptureIInv'
<1> USE DEF CaptureIInv, CaptureShaped
<1>1. swap.phase = "forward" /\ jobs # <<>> /\ Job \in Take BY DEF SwapEnds, Swapping
<1>2. \A p \in DOMAIN sent : sent[p] = Job BY <1>1 DEF SwapEnds, Carrying, Forward
<1>3. CASE IsCurrent(Job)
 <2>1. Commits(Job) \/ VerificationFails(Job) BY <1>3 DEF SwapEnds
 <2> QED BY <1>1, <1>2, <2>1, CommitsKeeps, VerificationFailsKeeps
<1>4. CASE ~IsCurrent(Job)
 <2>1. /\ swap' = [swap EXCEPT !.phase = "back"]
       /\ UNCHANGED <<mode, permit, known, preferred, transition, committed, take, jobs, native, registry, sent>>
   BY <1>4 DEF SwapEnds, owner, peers
 <2>2. swap' \in SwapRecord /\ swap'.phase = "back" BY <2>1 DEF SwapRecord
 <2> QED BY <1>1, <2>1, <2>2, SendersMove
<1> QED BY <1>3, <1>4

LEMMA RestoreEndsKeeps ==
    ASSUME CaptureIInv, RestoreEnds
    PROVE  CaptureIInv'
<1> USE DEF CaptureIInv, CaptureShaped
<1> DEFINE resumes == IsCurrent(Job) /\ ~swap.lost /\ ~take[Job].strict
           again(u) == Reconciled(take[u], Allowed(permit, FALSE))
<1>1. /\ take' = [u \in Take |-> IF u = Job THEN Blank ELSE IF u = committed /\ resumes THEN again(u) ELSE take[u]]
      /\ transition' = (transition /\ ~resumes) /\ jobs' = Tail(jobs) /\ swap' = NoSwap
      /\ UNCHANGED <<mode, permit, known, preferred, committed, native, registry, sent>>
      /\ swap.phase = "back"
  BY DEF RestoreEnds, owner, peers
<1>2. Job \in Take /\ jobs # <<>> /\ NoneOpen(take) BY <1>1, SwapIsSilent
<1>3. \A u \in Take : /\ again(u) \in TakeRecord /\ (again(u).gate = "open" => take[u].gate = "open")
                      /\ take[u] = Blank => again(u) = Blank
  BY ReconciledDoes
<1>4. NoSwap \in SwapRecord /\ NoSwap.phase = "none" BY DEF NoSwap, SwapRecord
<1> HIDE DEF resumes, again
<1>5. take' \in [Take -> TakeRecord] /\ take'[Job] = Blank BY <1>1, <1>2, <1>3, BlankTyped
<1>6. \A u \in Take : /\ take[u] = Blank => take'[u] = Blank
                      /\ take'[u].gate = "open" => take[u].gate = "open"
  BY <1>1, <1>3, BlankTyped
<1>7. transition' => transition \/ NoneOpen(take) BY <1>2
<1> QED BY <1>1, <1>2, <1>4, <1>5, <1>6, <1>7, JobGoneKeeps

------------------------------------------------------------
(* Browser constraints                                                     *)

LEMMA ApplyRequestedKeeps ==
    ASSUME CaptureIInv, ApplyRequested
    PROVE  CaptureIInv'
<1> USE DEF CaptureIInv, CaptureShaped
<1>1. /\ jobs' = Append(jobs, "apply")
      /\ UNCHANGED <<mode, permit, known, preferred, transition, committed, take, native, registry, sent, swap>>
  BY DEF ApplyRequested, owner, senders, peers
<1>2. jobs' \in Seq(Take \cup {"apply", "stale"}) /\ (jobs # <<>> => jobs' # <<>> /\ Head(jobs') = Head(jobs))
  BY <1>1, QueueDoes
<1> QED BY <1>1, <1>2, TakesMove

\* A step of the application at the head of the queue: no sender is swapped.
LEMMA ApplicationMoves ==
    ASSUME CaptureIInv, jobs # <<>>, Job \in {"apply", "stale"}, take' \in [Take -> TakeRecord],
           UNCHANGED <<mode, permit, known, preferred, committed, registry, sent, swap>>,
           \A u \in Take : take[u] = Blank => take'[u] = Blank,
           \/ NoneOpen(take')
           \/ (transition' => transition) /\ \A u \in Take : take'[u].gate = "open" => take[u].gate = "open",
           native' \in NativeRecord, Intact',
           jobs' = jobs \/ (jobs' = Tail(jobs) /\ native'.pc = "idle")
    PROVE  CaptureIInv'
<1> USE DEF CaptureIInv, CaptureShaped
<1>1. swap.phase = "none" BY VoiceCaptureAssumption DEF Swapping
<1>2. jobs' \in Seq(Take \cup {"apply", "stale"}) BY QueueDoes
<1>3. CaptureShaped' BY <1>2
<1>4. Carried' /\ Registers' /\ Swapping' /\ Forward' BY <1>1, StillSends
<1>5. Gated' BY ShutIsGated, GateStays
<1>6. Applying' BY DEF Applying, Job
<1> QED BY <1>3, <1>4, <1>5, <1>6

LEMMA ApplyStartsKeeps ==
    ASSUME CaptureIInv, ApplyStarts
    PROVE  CaptureIInv'
<1> USE DEF CaptureIInv, CaptureShaped
<1>1. /\ jobs # <<>> /\ Job \in {"apply", "stale"} /\ native.pc = "idle"
      /\ UNCHANGED <<mode, permit, known, preferred, committed, registry, sent, swap>>
  BY DEF ApplyStarts, owner, senders, peers
<1>2. CASE Job = "stale" \/ committed = NoTake \/ ~Session
 <2>1. jobs' = Tail(jobs) /\ UNCHANGED <<transition, take, native>> BY <1>2 DEF ApplyStarts
 <2> QED BY <1>1, <2>1, ApplicationMoves DEF Intact
<1>3. CASE ~(Job = "stale" \/ committed = NoTake \/ ~Session)
 <2>1. /\ native' = [pc |-> "constraints", take |-> committed, intact |-> FALSE]
       /\ take' = Blocked(take) /\ UNCHANGED jobs
   BY <1>3 DEF ApplyStarts
 <2>2. native' \in NativeRecord /\ Intact' BY <1>3, <2>1 DEF NativeRecord, Intact
 <2>3. take' \in [Take -> TakeRecord] /\ NoneOpen(take') /\ \A u \in Take : take[u] = Blank => take'[u] = Blank
   BY <2>1, BlockedDoes
 <2> QED BY <1>1, <2>1, <2>2, <2>3, ApplicationMoves
<1> QED BY <1>2, <1>3

LEMMA ApplyEndsDoes ==
    ASSUME ApplyEnds
    PROVE  native' \in NativeRecord /\ native'.pc = "idle" /\ Intact' /\ jobs' = Tail(jobs)
BY DEF ApplyEnds, NoNative, NativeRecord, Intact

\* What is being applied is applied to a take, at the head of the queue.
LEMMA ApplicationRuns ==
    ASSUME CaptureIInv, native.pc # "idle"
    PROVE  jobs # <<>> /\ Job \in {"apply", "stale"} /\ native.take \in Take /\ swap.phase = "none"
BY VoiceCaptureAssumption DEF CaptureIInv, CaptureShaped, Applying, NativeRecord, Swapping

LEMMA AsksResetKeeps ==
    ASSUME CaptureIInv, native.pc # "idle", NativeCurrent, NEW pc \in {"reset", "resetBack"}, AsksReset(pc), NativeStays
    PROVE  CaptureIInv'
<1> USE DEF CaptureIInv, CaptureShaped
<1>1. jobs # <<>> /\ Job \in {"apply", "stale"} /\ native.take \in Take BY ApplicationRuns
<1>2. committed \in Take BY <1>1 DEF NativeCurrent
<1>3. UNCHANGED <<mode, permit, known, preferred, committed, registry, sent, swap>>
  BY DEF NativeStays, owner, senders, peers
<1>4. UNCHANGED <<transition, jobs>> /\ take' = [take EXCEPT ![committed] = Closed(take[committed])]
  BY DEF AsksReset
<1>5. native' \in NativeRecord /\ Intact'
 <2> DEFINE ready == take[committed].graph = "ready"
 <2>1. native' = [native EXCEPT !.pc = pc, !.intact = ready] /\ ready \in BOOLEAN BY DEF AsksReset
 <2> HIDE DEF ready
 <2> QED BY <1>1, <1>3, <2>1 DEF NativeRecord, NativeCurrent, Intact
<1>6. /\ Closed(take[committed]) \in TakeRecord /\ Closed(take[committed]).gate # "open"
      /\ take[committed] = Blank => Closed(take[committed]) = Blank
  BY <1>2, ClosedDoes
<1>7. take' \in [Take -> TakeRecord] BY <1>2, <1>4, <1>6
<1>8. \A u \in Take : /\ take[u] = Blank => take'[u] = Blank
                      /\ take'[u].gate = "open" => take[u].gate = "open"
  BY <1>2, <1>4, <1>6
<1> QED BY <1>1, <1>3, <1>4, <1>5, <1>7, <1>8, ApplicationMoves

LEMMA ResumesKeeps ==
    ASSUME CaptureIInv, native.pc # "idle", native.take = committed, NEW outcome, Resumes(outcome), NativeStays
    PROVE  CaptureIInv'
<1> USE DEF CaptureIInv, CaptureShaped
<1> DEFINE r == Reconciled(take[committed], Allowed(permit, FALSE))
<1>1. jobs # <<>> /\ Job \in {"apply", "stale"} /\ native.take \in Take BY ApplicationRuns
<1>2. committed \in Take BY <1>1
<1>3. UNCHANGED <<mode, permit, known, preferred, committed, registry, sent, swap>>
  BY DEF NativeStays, owner, senders, peers
<1>4. take' = [take EXCEPT ![committed] = r] /\ transition' = FALSE /\ ApplyEnds BY DEF Resumes
<1>5. r \in TakeRecord /\ (r.gate = "open" => take[committed].gate = "open") /\ (take[committed] = Blank => r = Blank)
  BY <1>2, ReconciledDoes
<1> HIDE DEF r
<1>6. take' \in [Take -> TakeRecord] BY <1>2, <1>4, <1>5
<1>7. \A u \in Take : /\ take[u] = Blank => take'[u] = Blank
                      /\ take'[u].gate = "open" => take[u].gate = "open"
  BY <1>2, <1>4, <1>5
<1> QED BY <1>1, <1>3, <1>4, <1>6, <1>7, ApplyEndsDoes, ApplicationMoves

\* An application that is over, or goes on with the constraints of before.
LEMMA ApplicationGoesOn ==
    ASSUME CaptureIInv, native.pc # "idle", UNCHANGED <<transition, take>>, NativeStays,
           ApplyEnds \/ (native' = [native EXCEPT !.pc = "restore"] /\ UNCHANGED jobs)
    PROVE  CaptureIInv'
<1> USE DEF CaptureIInv, CaptureShaped
<1>1. jobs # <<>> /\ Job \in {"apply", "stale"} /\ native.take \in Take BY ApplicationRuns
<1>2. UNCHANGED <<mode, permit, known, preferred, committed, registry, sent, swap>>
  BY DEF NativeStays, owner, senders, peers
<1>3. native' \in NativeRecord /\ Intact'
 <2>1. CASE ApplyEnds BY <2>1, ApplyEndsDoes
 <2>2. CASE native' = [native EXCEPT !.pc = "restore"] BY <1>1, <1>2, <2>2 DEF NativeRecord, Intact
 <2> QED BY <2>1, <2>2
<1> QED BY <1>1, <1>2, <1>3, ApplyEndsDoes, ApplicationMoves

LEMMA ConstraintsAnsweredKeeps ==
    ASSUME CaptureIInv, ConstraintsAnswered
    PROVE  CaptureIInv'
<1>1. native.pc # "idle" /\ NativeStays BY DEF ConstraintsAnswered
<1>2. CASE NativeCurrent /\ AsksReset("reset") BY <1>1, <1>2, AsksResetKeeps
<1>3. CASE ~(NativeCurrent /\ AsksReset("reset"))
 <2>1. /\ UNCHANGED <<transition, take>>
       /\ ApplyEnds \/ (native' = [native EXCEPT !.pc = "restore"] /\ UNCHANGED jobs)
   BY <1>3 DEF ConstraintsAnswered
 <2> QED BY <1>1, <2>1, ApplicationGoesOn
<1> QED BY <1>2, <1>3

LEMMA NativeResetAnsweredKeeps ==
    ASSUME CaptureIInv, NativeResetAnswered
    PROVE  CaptureIInv'
<1>1. native.pc # "idle" /\ NativeStays BY DEF NativeResetAnswered
<1>2. CASE NativeCurrent /\ Resumes("ready") BY <1>1, <1>2, ResumesKeeps DEF NativeCurrent
<1>3. CASE ~(NativeCurrent /\ Resumes("ready"))
 <2>1. /\ UNCHANGED <<transition, take>>
       /\ ApplyEnds \/ (native' = [native EXCEPT !.pc = "restore"] /\ UNCHANGED jobs)
   BY <1>3 DEF NativeResetAnswered
 <2> QED BY <1>1, <2>1, ApplicationGoesOn
<1> QED BY <1>2, <1>3

\* A graph that cannot be recovered: its gate is shut with it.
LEMMA IrrecoverableKeeps ==
    ASSUME CaptureIInv, native.pc # "idle", Irrecoverable
    PROVE  CaptureIInv'
<1> USE DEF CaptureIInv, CaptureShaped
<1> DEFINE t == native.take
           hit == t = committed /\ take[t].graph = "ready"
<1>1. jobs # <<>> /\ Job \in {"apply", "stale"} /\ t \in Take /\ swap.phase = "none" BY ApplicationRuns
<1>2. CASE hit /\ mode = "test"
 <2>1. Idles(Stopped, Tail(jobs), NoNative) /\ UNCHANGED <<known, preferred, swap>> BY <1>2 DEF Irrecoverable
 <2>2. NoNative \in NativeRecord /\ NoNative.pc = "idle" /\ ~NoNative.intact BY DEF NoNative, NativeRecord
 <2>3. Tail(jobs) \in Seq(Take \cup {"apply", "stale"}) BY <1>1, QueueDoes
 <2> QED BY <1>1, <2>1, <2>2, <2>3, StoppedDoes, IdlesKeeps
<1>3. CASE ~(hit /\ mode = "test")
 <2> DEFINE g == IF take[t].suppression = "RNNOISE" THEN "disposed" ELSE "failed"
 <2>1. /\ take' = IF hit THEN [Blocked(take) EXCEPT ![t].graph = g] ELSE take
       /\ ApplyEnds
       /\ UNCHANGED <<mode, permit, known, preferred, transition, committed, registry, sent, swap>>
   BY <1>3 DEF Irrecoverable, owner, senders, peers
 <2>2. g \in {"disposed", "failed"} OBVIOUS
 <2> HIDE DEF g, hit
 <2>3. CASE ~hit BY <1>1, <2>1, <2>3, ApplyEndsDoes, ApplicationMoves
 <2>4. CASE hit
  <3> DEFINE b == Blocked(take)
  <3>1. b \in [Take -> TakeRecord] /\ NoneOpen(b) /\ \A u \in Take : take[u] = Blank => b[u] = Blank
    BY BlockedDoes
  <3>2. b[t] # Blank
   <4>1. t = committed /\ take[t].graph = "ready" BY <2>4 DEF hit
   <4>2. b[t] = Closed(take[t]) BY <1>1, <4>1 DEF Blocked
   <4>3. Closed(take[t]).graph = take[t].graph BY <1>1 DEF Closed, TakeRecord
   <4> QED BY <4>1, <4>2, <4>3, BlankTyped
  <3>3. take' = [b EXCEPT ![t].graph = g] BY <2>1, <2>4
  <3> HIDE DEF b, t
  <3>4. /\ take' \in [Take -> TakeRecord]
        /\ \A u \in Take : /\ b[u] = Blank => take'[u] = Blank
                           /\ take'[u].gate = b[u].gate
    BY <1>1, <2>2, <3>1, <3>2, <3>3, FailedTyped, SMTT(30)
  <3>5. NoneOpen(take') BY <3>1, <3>4 DEF NoneOpen
  <3> QED BY <1>1, <2>1, <3>1, <3>4, <3>5, ApplyEndsDoes, ApplicationMoves
 <2> QED BY <2>3, <2>4
<1> QED BY <1>2, <1>3

LEMMA RestoreAnsweredKeeps ==
    ASSUME CaptureIInv, RestoreAnswered
    PROVE  CaptureIInv'
BY AsksResetKeeps, IrrecoverableKeeps DEF RestoreAnswered

LEMMA RestoreResetAnsweredKeeps ==
    ASSUME CaptureIInv, RestoreResetAnswered
    PROVE  CaptureIInv'
<1>1. native.pc # "idle" BY DEF RestoreResetAnswered
<1> QED BY <1>1, ResumesKeeps, IrrecoverableKeeps DEF RestoreResetAnswered, CaptureIInv, Intact

------------------------------------------------------------
(* The call                                                                *)

LEMMA SetTransmissionKeeps ==
    ASSUME CaptureIInv, NEW b \in BOOLEAN, SetTransmission(b)
    PROVE  CaptureIInv'
<1> USE DEF CaptureIInv, CaptureShaped
<1>1. /\ permit' = b
      /\ UNCHANGED <<mode, known, preferred, transition, committed, jobs, registry, sent, swap>>
  BY DEF SetTransmission, senders, peers
<1>2. CASE Allowed(b, transition)
 <2>1. /\ take' = [t \in Take |-> IF t = committed THEN Reconciled(take[t], TRUE) ELSE take[t]]
       /\ UNCHANGED native
   BY <1>2 DEF SetTransmission
 <2>2. permit' BY <1>1, <1>2 DEF Allowed
 <2>3. \A t \in Take : /\ Reconciled(take[t], TRUE) \in TakeRecord /\ Reconciled(take[t], TRUE).pc = take[t].pc
                       /\ Reconciled(take[t], TRUE).gate = "open" => take[t].gate = "open"
                       /\ take[t] = Blank => Reconciled(take[t], TRUE) = Blank
   BY ReconciledDoes
 <2>4. take' \in [Take -> TakeRecord] BY <2>1, <2>3
 <2>5. \A t \in Take : /\ take[t] = Blank => take'[t] = Blank
                       /\ take[t].pc = "replacing" => take'[t].pc = "replacing"
                       /\ take'[t].gate = "open" => take[t].gate = "open"
   BY <2>1, <2>3
 <2> QED BY <1>1, <2>1, <2>2, <2>4, <2>5, TakesMove
<1>3. CASE ~Allowed(b, transition)
 <2>1. take' = Blocked(take) /\ native' = NativeBlocked BY <1>3 DEF SetTransmission
 <2>2. /\ take' \in [Take -> TakeRecord] /\ NoneOpen(take')
       /\ \A t \in Take : take'[t].pc = take[t].pc /\ (take[t] = Blank => take'[t] = Blank)
   BY <2>1, BlockedDoes
 <2>3. native' \in NativeRecord /\ native'.pc = native.pc /\ ~native'.intact BY <2>1, NativeBlockedTyped
 <2>4. CaptureShaped' BY <1>1, <2>2, <2>3
 <2>5. Carried' /\ Registers' /\ Swapping' /\ Forward' BY <1>1, <2>2, SwapIsSilent, StillSends DEF Job
 <2>6. Applying' /\ Intact' BY <1>1, <2>3 DEF Applying, Intact, Job
 <2> QED BY <2>2, <2>4, <2>5, <2>6, ShutIsGated
<1> QED BY <1>2, <1>3

\* Neither moves a take.
LEMMA CallKeeps ==
    ASSUME CaptureIInv, PreferencesLoaded \/ CallLapses
    PROVE  CaptureIInv'
<1>1. /\ UNCHANGED <<mode, permit, preferred, transition, committed, take, jobs, native, registry, sent, swap>>
      /\ known => known'
  BY DEF PreferencesLoaded, CallLapses, senders, peers
<1>2. known' \in BOOLEAN BY DEF PreferencesLoaded, CallLapses, CaptureIInv, CaptureShaped
<1> QED BY <1>1, <1>2, TakesMove DEF CaptureIInv, CaptureShaped

LEMMA RegisterKeeps ==
    ASSUME CaptureIInv, NEW p \in CallPeer, Register(p)
    PROVE  CaptureIInv'
<1>1. UNCHANGED <<mode, permit, known, preferred, transition, committed, take, jobs, native, registry, sent, swap>>
  BY DEF Register, owner
<1> QED BY <1>1, TakesMove DEF CaptureIInv, CaptureShaped

LEMMA RegisteredKeeps ==
    ASSUME CaptureIInv, NEW p \in CallPeer, Registered(p)
    PROVE  CaptureIInv'
<1> USE DEF CaptureIInv, CaptureShaped
<1>1. /\ swap.phase = "none" /\ registry # NoTake
      /\ UNCHANGED <<mode, permit, known, preferred, transition, committed, take, jobs, native, registry, swap>>
  BY DEF Registered, owner
<1>2. /\ DOMAIN sent' = DOMAIN sent \cup {p}
      /\ \A q \in DOMAIN sent' : sent'[q] = registry \/ (q \in DOMAIN sent /\ sent'[q] = sent[q])
  BY DEF Registered
<1>3. CaptureShaped' BY <1>1, <1>2
<1>4. Carried' /\ Registers' /\ Swapping' /\ Forward' BY <1>1, <1>2 DEF Carried, Registers, Swapping, Forward
<1>5. Gated' /\ Applying' /\ Intact' BY <1>1 DEF Gated, Applying, Intact, Job
<1> QED BY <1>3, <1>4, <1>5

LEMMA RemovePeerKeeps ==
    ASSUME CaptureIInv, NEW p \in CallPeer, RemovePeer(p)
    PROVE  CaptureIInv'
<1>1. UNCHANGED <<mode, permit, known, preferred, transition, committed, take, jobs, native, registry, swap>>
  BY DEF RemovePeer, owner
<1>2. DOMAIN sent' \subseteq DOMAIN sent /\ \A q \in DOMAIN sent' : sent'[q] = sent[q] BY DEF RemovePeer
<1> QED BY <1>1, <1>2, SendersMove DEF CaptureIInv, CaptureShaped, Forward

LEMMA CaptureStutters ==
    ASSUME CaptureIInv, UNCHANGED captureVars
    PROVE  CaptureIInv'
<1>1. UNCHANGED <<mode, permit, known, preferred, transition, committed, take, jobs, native, registry, sent, swap>>
  BY DEF captureVars
<1> QED BY <1>1, TakesMove DEF CaptureIInv, CaptureShaped

LEMMA CaptureStarts ==
    ASSUME VoiceCaptureInit
    PROVE  CaptureIInv
<1> USE DEF VoiceCaptureInit
<1>1. DOMAIN sent = {} OBVIOUS
<1>2. NoNative \in NativeRecord /\ NoNative.pc = "idle" /\ ~NoNative.intact BY DEF NoNative, NativeRecord
<1>3. NoSwap \in SwapRecord /\ NoSwap.phase = "none" BY DEF NoSwap, SwapRecord
<1>4. CaptureShaped
 <2>1. take \in [Take -> TakeRecord] BY BlankTyped
 <2>2. jobs \in Seq(Take \cup {"apply", "stale"}) OBVIOUS
 <2> QED BY <1>1, <1>2, <1>3, <2>1, <2>2 DEF CaptureShaped
<1>5. Gated BY BlankTyped DEF Gated
<1>6. Carried /\ Registers /\ Swapping /\ Forward /\ Applying /\ Intact
  BY <1>1, <1>2, <1>3 DEF Carried, Registers, Swapping, Forward, Applying, Intact
<1> QED BY <1>4, <1>5, <1>6 DEF CaptureIInv

\* Whatever is acquired, swapped, applied, fails or ends: the gates, the queue and the senders
\* of VoiceCaptureOwner stay as CaptureIInv says.
THEOREM CaptureInductive == VoiceCaptureSpec => []CaptureIInv
<1>1. VoiceCaptureInit => CaptureIInv BY CaptureStarts
<1>2. CaptureIInv /\ [VoiceCaptureNext]_captureVars => CaptureIInv'
 <2> SUFFICES ASSUME CaptureIInv, [VoiceCaptureNext]_captureVars
              PROVE  CaptureIInv'
   OBVIOUS
 <2>1. CASE Stop \/ PreferencesLoaded \/ CallLapses \/ \E b \in BOOLEAN : SetTransmission(b)
   BY <2>1, StopKeeps, CallKeeps, SetTransmissionKeeps
 <2>2. ASSUME NEW t \in Take,
              \/ \E m \in {"test", "call"}, only \in BOOLEAN : StartSession(t, m, only)
              \/ \E prefers \in Suppression, only \in BOOLEAN : Reacquire(t, prefers, only)
       PROVE  CaptureIInv'
   BY <2>2, StartSessionKeeps, ReacquireKeeps
 <2>3. ASSUME NEW t \in Take,
              \/ QueueTurn(t) \/ MediaAnswered(t) \/ ResetAnswered(t) \/ GraphFails(t)
              \/ GateOpens(t) \/ GateRetries(t) \/ CommitStarts(t)
       PROVE  CaptureIInv'
   BY <2>3, QueueTurnKeeps, MediaAnsweredKeeps, ResetAnsweredKeeps, GraphFailsKeeps, GateOpensKeeps,
      GateRetriesKeeps, CommitStartsKeeps
 <2>4. ASSUME NEW p \in CallPeer, Register(p) \/ Registered(p) \/ RemovePeer(p) \/ Replaces(p) \/ Restores(p)
       PROVE  CaptureIInv'
   BY <2>4, RegisterKeeps, RegisteredKeeps, RemovePeerKeeps, ReplacesKeeps, RestoresKeeps
 <2>5. CASE SwapEnds \/ RestoreEnds BY <2>5, SwapEndsKeeps, RestoreEndsKeeps
 <2>6. CASE \/ ApplyRequested \/ ApplyStarts \/ ConstraintsAnswered \/ NativeResetAnswered
            \/ RestoreAnswered \/ RestoreResetAnswered
   BY <2>6, ApplyRequestedKeeps, ApplyStartsKeeps, ConstraintsAnsweredKeeps, NativeResetAnsweredKeeps,
      RestoreAnsweredKeeps, RestoreResetAnsweredKeeps
 <2>7. CASE UNCHANGED captureVars BY <2>7, CaptureStutters
 <2> QED BY <2>1, <2>2, <2>3, <2>4, <2>5, <2>6, <2>7 DEF VoiceCaptureNext
<1> QED BY <1>1, <1>2, PTL DEF VoiceCaptureSpec

\* Whatever fails, is superseded or ends while the microphone is changed, an open gate is that
\* of the graph in use, in a call that permits it, and no sender carries another that works.
THEOREM MicrophoneIsOne == VoiceCaptureSpec => []OneOpenMicrophone
<1>1. CaptureIInv => OneOpenMicrophone
 <2> SUFFICES ASSUME CaptureIInv, NEW t \in Take, take[t].gate = "open"
              PROVE  /\ t = committed /\ mode = "call" /\ permit /\ known
                     /\ \A p \in DOMAIN sent : sent[p] \in {t, Nothing} \/ take[sent[p]].graph # "ready"
   BY DEF OneOpenMicrophone
 <2>1. t = committed /\ mode = "call" /\ permit /\ known BY DEF CaptureIInv, Gated
 <2>2. swap.phase = "none" BY SwapIsSilent DEF NoneOpen
 <2>3. \A p \in DOMAIN sent : sent[p] \in {t, Nothing} \/ take[sent[p]] = Blank
   BY <2>1, <2>2 DEF CaptureIInv, Carried
 <2> QED BY <2>1, <2>3, BlankTyped
<1> QED BY <1>1, CaptureInductive, PTL

------------------------------------------------------------
(* WebSession                                                              *)

CookieRecord == [session : Login \cup {NoLogin}, token : Nat, version : Nat, access : BOOLEAN]
RowRecord == [state : {"none", "live", "dead"}, token : Nat, version : Nat]
RefreshRecord == [pc : {"none", "sent", "ok", "invalid", "failed"}, with : CookieRecord]
CallRecord == [pc : {"idle", "sent", "ok", "refused", "refresh"},
               kind : {"boot", "use", "save", "check", "login", "logout"}, tab : Tab \cup {NoTab},
               with : CookieRecord, who : Login \cup {NoLogin}, retried : BOOLEAN, current : BOOLEAN]

WebShaped ==
    /\ webSession \in [Login -> RowRecord] /\ jar \in CookieRecord
    /\ \A l \in Login : webSession[l].state = "none" => webSession[l].token = 0
    /\ shown \in [Tab -> Login \cup {NoLogin}] /\ refreshing \in [Tab -> RefreshRecord]
    /\ webTask \in [WebTask -> CallRecord]
    /\ \A t \in WebTask : webTask[t].pc # "idle" => webTask[t].tab \in Tab
    /\ strayed \subseteq Tab

Does(t, kind) == webTask[t].pc # "idle" /\ webTask[t].kind = kind
Writes(t) == Does(t, "save") \/ Does(t, "login")
Moves(t) == Does(t, "save") /\ webTask[t].pc \in {"sent", "ok"}
Brings(b) == refreshing[b].pc \in {"sent", "ok"}

\* Whatever names a session names one that a login made.
Exists(l) == l # NoLogin => webSession[l].state # "none"
NamedExist ==
    /\ Exists(jar.session)
    /\ \A b \in Tab : Exists(refreshing[b].with.session)
    /\ \A t \in WebTask : Exists(webTask[t].with.session) /\ Exists(webTask[t].who)
    /\ \A t \in WebTask : webTask[t].pc = "ok" =>
           /\ webTask[t].kind \in {"boot", "save", "check", "login"} => webTask[t].who # NoLogin
           /\ webTask[t].kind \in {"save", "login"} => webTask[t].with.session = webTask[t].who

\* While some tab is not misled, one answer at most is on its way that changes a credential;
\* a save may wait for its tab's refresh.
OneWriter ==
    strayed # Tab =>
        /\ \A b, c \in Tab : refreshing[b].pc # "none" /\ refreshing[c].pc # "none" => b = c
        /\ \A s, t \in WebTask : Writes(s) /\ Writes(t) => s = t
        /\ \A b \in Tab, t \in WebTask : refreshing[b].pc # "none" /\ Writes(t) =>
               Does(t, "save") /\ webTask[t].pc = "refresh"

\* Then the newest credential of a session is in the jar or on its way there.
Newest(c) == Known(c) => c.token = webSession[c.session].token
Coming ==
    \/ \E b \in Tab : refreshing[b].pc = "ok"
    \/ \E t \in WebTask : Does(t, "save") /\ webTask[t].pc = "ok"
NewestArrives ==
    strayed # Tab =>
        /\ \A b \in Tab : Brings(b) => Newest(refreshing[b].with)
        /\ \A t \in WebTask : Writes(t) /\ webTask[t].pc = "ok" => Newest(webTask[t].with)
        /\ Newest(jar) \/ Coming

\* A tab that is not misled shows nobody exactly if it logged out or was found invalid; then,
\* or as soon as that is decided, nothing in the browser authorises.
Gone ==
    /\ ~Known(jar) /\ \A b \in Tab : ~Known(refreshing[b].with)
    /\ \A t \in WebTask : webTask[t].kind # "login" => ~Known(webTask[t].with)
LoggedOut(b) ==
    \/ b \in ended \/ refreshing[b].pc = "invalid"
    \/ \E t \in WebTask : Does(t, "logout") /\ webTask[t].tab = b /\ webTask[t].pc = "ok"
NobodyIsGone ==
    \A b \in Tab \ strayed : (b \in ended <=> shown[b] = NoLogin) /\ (LoggedOut(b) => Gone)

\* What a tab that logs out still waits for does not count any more.
Leaves(b) == b \in ended \/ \E t \in WebTask : Does(t, "logout") /\ webTask[t].tab = b
LateAnswersAreOld ==
    \A b \in Tab \ strayed, t \in WebTask :
        webTask[t].pc # "idle" /\ webTask[t].tab = b =>
            /\ Leaves(b) /\ webTask[t].kind \in {"save", "check"} => ~webTask[t].current
            /\ webTask[t].kind = "login" =>
                   /\ b \in ended
                   /\ ~\E o \in WebTask : Does(o, "logout") /\ webTask[o].tab = b

\* Otherwise whatever may authorise is of the session whose user the tab shows.
ShownIsCarried ==
    \A b \in Tab \ strayed : b \notin ended =>
        /\ jar.session = shown[b]
        /\ \A c \in Tab : Brings(c) \/ Known(refreshing[c].with) => refreshing[c].with.session = shown[b]
        /\ \A t \in WebTask :
               /\ Moves(t) \/ (webTask[t].kind # "login" /\ Known(webTask[t].with)) => webTask[t].with.session = shown[b]
               /\ webTask[t].pc = "ok" /\ webTask[t].tab = b /\ webTask[t].kind \in {"save", "check"} /\ webTask[t].current =>
                      webTask[t].who = shown[b]

\* A tab that boots does nothing else, and finds a user only if it was misled.
BootsAlone ==
    \A t \in WebTask : Does(t, "boot") =>
        /\ \A o \in WebTask : webTask[o].pc # "idle" /\ webTask[o].tab = webTask[t].tab => o = t
        /\ shown[webTask[t].tab] = NoLogin
        /\ webTask[t].pc = "ok" => webTask[t].tab \in strayed

WebIInv ==
    /\ WebShaped /\ NamedExist /\ OneWriter /\ NewestArrives
    /\ NobodyIsGone /\ LateAnswersAreOld /\ ShownIsCarried /\ BootsAlone

LEMMA ServeSaveKeeps ==
    ASSUME WebIInv, NEW t \in WebTask, ServeSave(t), Authorised(webTask[t].with)
    PROVE  WebIInv'
<1> USE DEF WebIInv, WebShaped
<1> DEFINE l == webTask[t].with.session
           c == [session |-> l, token |-> webSession[l].token + 1,
                 version |-> webSession[l].version + 1, access |-> TRUE]
           s == [webTask[t] EXCEPT !.pc = "ok", !.who = l, !.with = c]
           row == [webSession[l] EXCEPT !.token = webSession[l].token + 1, !.version = webSession[l].version + 1]
<1>1. /\ webTask' = [webTask EXCEPT ![t] = s] /\ webSession' = [webSession EXCEPT ![l] = row]
      /\ webTask[t].pc = "sent" /\ webTask[t].kind = "save"
      /\ UNCHANGED <<jar, shown, refreshing, ended, strayed>>
  BY DEF ServeSave, Comes
<1>2. l \in Login /\ webSession[l].state = "live" BY DEF Authorised, Known, CallRecord, CookieRecord
<1>3. /\ c \in CookieRecord /\ c.session = l /\ c.token = webSession[l].token + 1
      /\ row \in RowRecord /\ row.state = webSession[l].state /\ row.token = webSession[l].token + 1
 <2> DEFINE r == webSession[l]
 <2>1. r \in RowRecord BY <1>2
 <2> HIDE DEF r
 <2>3. r.token + 1 \in Nat /\ r.version + 1 \in Nat BY <2>1 DEF RowRecord
 <2>2. [r EXCEPT !.token = r.token + 1, !.version = r.version + 1] \in RowRecord
       /\ [r EXCEPT !.token = r.token + 1, !.version = r.version + 1].state = r.state
       /\ [r EXCEPT !.token = r.token + 1, !.version = r.version + 1].token = r.token + 1
   BY <2>1, <2>3 DEF RowRecord
 <2>4. c = [session |-> l, token |-> r.token + 1, version |-> r.version + 1, access |-> TRUE] BY DEF r
 <2>5. c \in CookieRecord /\ c.session = l /\ c.token = r.token + 1 BY <1>2, <2>3, <2>4 DEF CookieRecord
 <2> QED BY <2>2, <2>5 DEF r
<1> HIDE DEF c, row
<1>4. /\ s \in CallRecord /\ s.pc = "ok" /\ s.kind = "save" /\ s.tab = webTask[t].tab /\ s.with = c /\ s.who = l
      /\ s.current = webTask[t].current
  BY <1>1, <1>2, <1>3 DEF CallRecord
<1> HIDE DEF s
<1>5. /\ webTask' \in [WebTask -> CallRecord] /\ webTask'[t] = s /\ \A o \in WebTask : o # t => webTask'[o] = webTask[o]
      /\ webSession' \in [Login -> RowRecord]
      /\ \A k \in Login : webSession'[k].state = webSession[k].state /\ (k # l => webSession'[k] = webSession[k])
      /\ webSession'[l].token = webSession[l].token + 1
  BY <1>1, <1>2, <1>3, <1>4
<1>6. WebShaped' BY <1>1, <1>2, <1>4, <1>5
<1>7. NamedExist'
 <2>1. \A k \in Login \cup {NoLogin} : Exists(k)' <=> Exists(k) BY <1>5 DEF Exists
 <2>2. /\ jar.session \in Login \cup {NoLogin}
       /\ \A b \in Tab : refreshing[b].with.session \in Login \cup {NoLogin}
       /\ \A o \in WebTask : webTask[o].with.session \in Login \cup {NoLogin} /\ webTask[o].who \in Login \cup {NoLogin}
   BY DEF CookieRecord, CallRecord, RefreshRecord
 <2>3. Exists(l) BY <1>2 DEF Exists
 <2>4. l \in Login \cup {NoLogin} /\ l # NoLogin BY <1>2, WebSessionAssumption
 <2> HIDE DEF l, Exists
 <2>5. Exists(jar.session)' /\ \A b \in Tab : Exists(refreshing[b].with.session)'
   BY <1>1, <2>1, <2>2 DEF NamedExist
 <2>6. \A o \in WebTask : o # t => /\ Exists(webTask[o].with.session)' /\ Exists(webTask[o].who)'
   BY <1>5, <2>1, <2>2 DEF NamedExist
 <2>7. Exists(webTask[t].with.session)' /\ Exists(webTask[t].who)' BY <1>3, <1>4, <1>5, <2>1, <2>3, <2>4
 <2>8. \A o \in WebTask : o # t => (webTask'[o].pc = "ok" =>
           /\ webTask'[o].kind \in {"boot", "save", "check", "login"} => webTask'[o].who # NoLogin
           /\ webTask'[o].kind \in {"save", "login"} => webTask'[o].with.session = webTask'[o].who)
   BY <1>5 DEF NamedExist
 <2> QED BY <1>3, <1>4, <1>5, <2>4, <2>5, <2>6, <2>7, <2>8 DEF NamedExist
<1>8. OneWriter' BY <1>1, <1>4, <1>5 DEF OneWriter, Writes, Does
<1>9. NewestArrives'
 <2> SUFFICES ASSUME strayed # Tab
              PROVE  /\ \A b \in Tab : ~Brings(b)
                     /\ \A o \in WebTask : Writes(o) => o = t
                     /\ Newest(webTask[t].with)' /\ Coming'
   BY <1>1, <1>5 DEF NewestArrives, Writes, Does, Brings
 <2>1. Writes(t) /\ webTask[t].pc # "refresh" BY <1>1 DEF Writes, Does
 <2>2. \A b \in Tab : ~Brings(b) BY <2>1 DEF OneWriter, Brings
 <2>3. \A o \in WebTask : Writes(o) => o = t BY <2>1 DEF OneWriter
 <2>4. Newest(webTask[t].with)' BY <1>3, <1>4, <1>5 DEF Newest
 <2>5. Coming' BY <1>4, <1>5 DEF Coming, Does
 <2> QED BY <2>2, <2>3, <2>4, <2>5
<1>10. NobodyIsGone'
 <2>1. ~Gone BY <1>1, <1>2, WebSessionAssumption DEF Gone, Known
 <2>2. \A b \in Tab : LoggedOut(b)' => LoggedOut(b) BY <1>1, <1>4, <1>5 DEF LoggedOut, Does
 <2> QED BY <1>1, <2>1, <2>2 DEF NobodyIsGone
<1>11. LateAnswersAreOld' BY <1>1, <1>4, <1>5 DEF LateAnswersAreOld, Leaves, Does
<1>12. ShownIsCarried'
 <2> SUFFICES ASSUME NEW b \in Tab \ strayed, b \notin ended
              PROVE  /\ jar.session = shown[b]
                     /\ \A k \in Tab : (Brings(k) \/ Known(refreshing[k].with))' => refreshing[k].with.session = shown[b]
                     /\ \A o \in WebTask :
                            /\ (Moves(o) \/ (webTask[o].kind # "login" /\ Known(webTask[o].with)))' => webTask'[o].with.session = shown[b]
                            /\ webTask'[o].pc = "ok" /\ webTask'[o].tab = b /\ webTask'[o].kind \in {"save", "check"} /\ webTask'[o].current =>
                                   webTask'[o].who = shown[b]
   BY <1>1 DEF ShownIsCarried
 <2>1. l = shown[b] BY <1>1 DEF ShownIsCarried, Moves, Does
 <2>2. \A k \in CookieRecord : Known(k)' <=> Known(k) BY <1>5 DEF Known, CookieRecord
 <2>3. /\ jar.session = shown[b]
       /\ \A k \in Tab : (Brings(k) \/ Known(refreshing[k].with))' => refreshing[k].with.session = shown[b]
   BY <1>1, <1>5 DEF ShownIsCarried, Brings, Known, CookieRecord, RefreshRecord
 <2>4. \A o \in WebTask : o # t =>
           /\ (Moves(o) \/ (webTask[o].kind # "login" /\ Known(webTask[o].with)))' => webTask'[o].with.session = shown[b]
           /\ webTask'[o].pc = "ok" /\ webTask'[o].tab = b /\ webTask'[o].kind \in {"save", "check"} /\ webTask'[o].current =>
                  webTask'[o].who = shown[b]
   BY <1>1, <1>5 DEF ShownIsCarried, Moves, Does, Known, CookieRecord, CallRecord
 <2> QED BY <1>3, <1>4, <1>5, <2>1, <2>3, <2>4
<1>13. BootsAlone' BY <1>1, <1>4, <1>5 DEF BootsAlone, Does
<1> QED BY <1>6, <1>7, <1>8, <1>9, <1>10, <1>11, <1>12, <1>13

LEMMA NothingTyped ==
    /\ NoCookies \in CookieRecord /\ NoCookies.session = NoLogin /\ ~Known(NoCookies)
    /\ NoWebTask \in CallRecord /\ NoWebTask.pc = "idle" /\ NoWebTask.kind = "use"
    /\ NoWebTask.with = NoCookies /\ NoWebTask.who = NoLogin
    /\ NoRefresh \in RefreshRecord /\ NoRefresh.pc = "none" /\ NoRefresh.with = NoCookies
<1>1. NoCookies \in CookieRecord /\ NoCookies.session = NoLogin BY DEF NoCookies, CookieRecord
<1>2. ~Known(NoCookies) BY <1>1 DEF Known
<1> DEFINE c == NoCookies
<1>3. c \in CookieRecord BY <1>1
<1>4. /\ NoWebTask = [pc |-> "idle", kind |-> "use", tab |-> NoTab, with |-> c, who |-> NoLogin,
                      retried |-> FALSE, current |-> TRUE]
      /\ NoRefresh = [pc |-> "none", with |-> c]
  BY DEF NoWebTask, NoRefresh
<1> HIDE DEF c
<1>5. /\ NoWebTask \in CallRecord /\ NoWebTask.pc = "idle" /\ NoWebTask.kind = "use"
      /\ NoWebTask.with = c /\ NoWebTask.who = NoLogin
      /\ NoRefresh \in RefreshRecord /\ NoRefresh.pc = "none" /\ NoRefresh.with = c
  BY <1>3, <1>4 DEF CallRecord, RefreshRecord
<1> QED BY <1>1, <1>2, <1>5 DEF c

\* A call goes on without an answer that brings cookies, and shows nobody anything new,
\* unless its tab is misled.
LEMMA CallStepKeeps ==
    ASSUME WebIInv, NEW t \in WebTask, NEW s \in CallRecord, webTask' = [webTask EXCEPT ![t] = s],
           UNCHANGED <<webSession, jar, refreshing>>,
           strayed \subseteq strayed', strayed' \subseteq Tab, shown' \in [Tab -> Login \cup {NoLogin}],
           \A b \in Tab \ strayed' : shown'[b] = shown[b] /\ (b \in ended' <=> b \in ended),
           \A o \in WebTask : o # t /\ Does(o, "boot") =>
               shown'[webTask[o].tab] \in {NoLogin, shown[webTask[o].tab]},
           s.pc # "idle" => shown' = shown,
           webTask[t].kind = "save" => webTask[t].pc # "ok",
           webTask[t].pc # "idle", s.pc # "sent",
           s.with \in {webTask[t].with, NoCookies}, s.who = NoLogin \/ Exists(s.who),
           s.pc = "idle" => s.with = NoCookies,
           s.pc # "idle" => /\ s.kind = webTask[t].kind /\ s.tab = webTask[t].tab
                            /\ s.current = webTask[t].current /\ webTask[t].pc # "refresh",
           s.pc = "ok" => /\ s.kind \in {"boot", "check"} /\ s.who # NoLogin
                          /\ s.kind = "boot" => s.tab \in strayed
                          /\ s.tab \notin strayed /\ s.tab \notin ended => s.who = shown[s.tab]
    PROVE  WebIInv'
<1> USE DEF WebIInv, WebShaped
<1>1. /\ webTask' \in [WebTask -> CallRecord] /\ webTask'[t] = s /\ \A o \in WebTask : o # t => webTask'[o] = webTask[o]
      /\ webSession' = webSession /\ jar' = jar /\ refreshing' = refreshing
  OBVIOUS
<1>2. \A c \in CookieRecord : Known(c)' <=> Known(c) BY <1>1 DEF Known
<1>3. NoCookies.session = NoLogin /\ ~Known(NoCookies) BY NothingTyped
<1>4. /\ strayed' # Tab => strayed # Tab
      /\ \A b \in Tab \ strayed' : b \in Tab \ strayed
  OBVIOUS
<1>5. WebShaped' BY <1>1
<1>6. NamedExist' BY <1>1, <1>3 DEF NamedExist, Exists
<1>7. OneWriter' BY <1>1, <1>4 DEF OneWriter, Writes, Does, CallRecord
<1>8. NewestArrives'
 <2> SUFFICES ASSUME strayed' # Tab
              PROVE  /\ \A b \in Tab : Brings(b)' => Newest(refreshing[b].with)'
                     /\ \A o \in WebTask : Writes(o)' /\ webTask'[o].pc = "ok" => Newest(webTask[o].with)'
                     /\ Newest(jar)' \/ Coming'
   BY DEF NewestArrives
 <2>1. \A c \in CookieRecord : Newest(c)' <=> Newest(c) BY <1>1, <1>2 DEF Newest
 <2>2. \A b \in Tab : Brings(b)' => Newest(refreshing[b].with)'
   BY <1>1, <1>4, <2>1 DEF NewestArrives, Brings, RefreshRecord
 <2>3. \A o \in WebTask : Writes(o)' /\ webTask'[o].pc = "ok" => Newest(webTask[o].with)'
   BY <1>1, <1>4, <2>1 DEF NewestArrives, Writes, Does, CallRecord
 <2>4. Newest(jar)' \/ Coming' BY <1>1, <1>4, <2>1 DEF NewestArrives, Coming, Does
 <2> QED BY <2>2, <2>3, <2>4
<1>9. NobodyIsGone'
 <2>1. Gone => Gone' BY <1>1, <1>2, <1>3 DEF Gone, CallRecord, RefreshRecord
 <2>2. \A b \in Tab \ strayed' : LoggedOut(b)' => LoggedOut(b) BY <1>1 DEF LoggedOut, Does
 <2> QED BY <1>4, <2>1, <2>2 DEF NobodyIsGone
<1>10. LateAnswersAreOld'
 <2>1. \A b \in Tab \ strayed' : Leaves(b)' => Leaves(b) BY <1>1 DEF Leaves, Does
 <2> QED BY <1>1, <1>4, <2>1 DEF LateAnswersAreOld, Does
<1>11. ShownIsCarried'
 <2> SUFFICES ASSUME NEW b \in Tab \ strayed', b \notin ended'
              PROVE  /\ jar.session = shown[b]
                     /\ \A k \in Tab : (Brings(k) \/ Known(refreshing[k].with))' => refreshing[k].with.session = shown[b]
                     /\ \A o \in WebTask :
                            /\ (Moves(o) \/ (webTask[o].kind # "login" /\ Known(webTask[o].with)))' => webTask'[o].with.session = shown[b]
                            /\ webTask'[o].pc = "ok" /\ webTask'[o].tab = b /\ webTask'[o].kind \in {"save", "check"} /\ webTask'[o].current =>
                                   webTask'[o].who = shown[b]
   BY <1>1 DEF ShownIsCarried
 <2>1. b \in Tab \ strayed /\ b \notin ended OBVIOUS
 <2>2. /\ jar.session = shown[b]
       /\ \A k \in Tab : (Brings(k) \/ Known(refreshing[k].with))' => refreshing[k].with.session = shown[b]
   BY <1>1, <1>2, <2>1 DEF ShownIsCarried, Brings, RefreshRecord
 <2>3. \A o \in WebTask : o # t =>
           /\ (Moves(o) \/ (webTask[o].kind # "login" /\ Known(webTask[o].with)))' => webTask'[o].with.session = shown[b]
           /\ webTask'[o].pc = "ok" /\ webTask'[o].tab = b /\ webTask'[o].kind \in {"save", "check"} /\ webTask'[o].current =>
                  webTask'[o].who = shown[b]
   BY <1>1, <1>2, <2>1 DEF ShownIsCarried, Moves, Does, CallRecord
 <2>4. ~Moves(t)' /\ (s.kind # "login" /\ Known(s.with)' => s.with.session = shown[b])
   BY <1>1, <1>2, <1>3, <2>1 DEF ShownIsCarried, Moves, Does, CallRecord
 <2>5. s.pc = "ok" /\ s.tab = b /\ s.kind \in {"save", "check"} /\ s.current => s.who = shown[b] BY <2>1
 <2> QED BY <1>1, <2>2, <2>3, <2>4, <2>5
<1>12. BootsAlone' BY <1>1 DEF BootsAlone, Does, CallRecord
<1> QED BY <1>5, <1>6, <1>7, <1>8, <1>9, <1>10, <1>11, <1>12

LEMMA RefusalKeeps ==
    ASSUME WebIInv, NEW t \in WebTask, Refused(t), webTask[t].pc = "sent",
           UNCHANGED <<webSession, jar, shown, refreshing, ended, strayed>>
    PROVE  WebIInv'
<1> USE DEF WebIInv, WebShaped
<1> DEFINE s == [webTask[t] EXCEPT !.pc = "refused", !.with = NoCookies]
<1>1. webTask' = [webTask EXCEPT ![t] = s] BY DEF Refused, Comes
<1>2. /\ s \in CallRecord /\ s.pc = "refused" /\ s.with = NoCookies /\ s.kind = webTask[t].kind
      /\ s.tab = webTask[t].tab /\ s.current = webTask[t].current /\ s.who = webTask[t].who
  BY NothingTyped DEF CallRecord
<1> HIDE DEF s
<1>3. Exists(s.who) BY <1>2 DEF NamedExist
<1> QED BY <1>1, <1>2, <1>3, CallStepKeeps

LEMMA ReturnKeeps ==
    ASSUME WebIInv, NEW t \in WebTask, Returns(t), webTask[t].pc # "idle",
           webTask[t].kind = "save" => webTask[t].pc # "ok",
           UNCHANGED <<webSession, jar, refreshing>>,
           strayed \subseteq strayed', strayed' \subseteq Tab, shown' \in [Tab -> Login \cup {NoLogin}],
           \A b \in Tab \ strayed' : shown'[b] = shown[b] /\ (b \in ended' <=> b \in ended),
           \A o \in WebTask : o # t /\ Does(o, "boot") =>
               shown'[webTask[o].tab] \in {NoLogin, shown[webTask[o].tab]}
    PROVE  WebIInv'
<1>1. webTask' = [webTask EXCEPT ![t] = NoWebTask] BY DEF Returns, Comes
<1> QED BY <1>1, NothingTyped, CallStepKeeps

LEMMA ServeReadKeeps ==
    ASSUME WebIInv, NEW t \in WebTask, ServeRead(t)
    PROVE  WebIInv'
<1> USE DEF WebIInv, WebShaped
<1> DEFINE r == webTask[t]
<1>1. /\ r.pc = "sent" /\ r.kind \in {"boot", "use", "check"}
      /\ UNCHANGED <<webSession, jar, shown, refreshing, ended, strayed>>
  BY DEF ServeRead
<1>2. CASE ~Authorised(r.with)
 <2>1. Refused(t) BY <1>2 DEF ServeRead
 <2> QED BY <1>1, <2>1, RefusalKeeps
<1>3. CASE Authorised(r.with) /\ r.kind = "use"
 <2>1. Returns(t) BY <1>3 DEF ServeRead
 <2> QED BY <1>1, <1>3, <2>1, ReturnKeeps
<1>4. CASE Authorised(r.with) /\ r.kind # "use"
 <2> DEFINE s == [r EXCEPT !.pc = "ok", !.who = r.with.session, !.with = NoCookies]
 <2>1. webTask' = [webTask EXCEPT ![t] = s] BY <1>4 DEF ServeRead, Comes
 <2>2. r.with.session \in Login /\ Known(r.with) /\ r \in CallRecord /\ Exists(r.with.session) /\ r.tab \in Tab
   BY <1>1, <1>4 DEF Authorised, Known, CallRecord, CookieRecord, NamedExist
 <2>3. /\ s \in CallRecord /\ s.pc = "ok" /\ s.with = NoCookies /\ s.kind = r.kind
       /\ s.tab = r.tab /\ s.current = r.current /\ s.who = r.with.session
   BY <2>2, NothingTyped DEF CallRecord
 <2> HIDE DEF s
 <2>4. r.kind = "boot" => r.tab \in strayed BY <1>1, <2>2 DEF BootsAlone, Does, NobodyIsGone, LoggedOut, Gone
 <2>5. r.tab \notin strayed /\ r.tab \notin ended => s.who = shown[r.tab] BY <1>1, <2>2, <2>3 DEF ShownIsCarried
 <2>6. s.who # NoLogin BY <2>2, <2>3, WebSessionAssumption
 <2> QED BY <1>1, <1>4, <2>1, <2>2, <2>3, <2>4, <2>5, <2>6, CallStepKeeps
<1> QED BY <1>1, <1>2, <1>3, <1>4

LEMMA CallErrsKeeps ==
    ASSUME WebIInv, NEW t \in WebTask, CallErrs(t)
    PROVE  WebIInv'
<1> USE DEF WebIInv, WebShaped
<1> DEFINE b == webTask[t].tab
<1>1. /\ webTask[t].pc # "idle" /\ b \in Tab /\ Returns(t) /\ UNCHANGED <<webSession, jar, refreshing>>
      /\ webTask[t].kind = "save" => webTask[t].pc # "ok"
  BY DEF CallErrs, Lost
<1>2. /\ shown' = IF webTask[t].kind \in {"boot", "logout"} THEN [shown EXCEPT ![b] = NoLogin] ELSE shown
      /\ ended' = IF webTask[t].kind = "logout" THEN ended \cup {b} ELSE ended
      /\ strayed \subseteq strayed' /\ strayed' \subseteq Tab
      /\ webTask[t].kind = "logout" => b \in strayed'
  BY <1>1 DEF CallErrs
<1>3. webTask[t].kind = "boot" => shown[b] = NoLogin BY <1>1 DEF BootsAlone, Does
<1>4. shown' \in [Tab -> Login \cup {NoLogin}] BY <1>2
<1>5. /\ \A a \in Tab \ strayed' : shown'[a] = shown[a] /\ (a \in ended' <=> a \in ended)
      /\ \A o \in WebTask : o # t /\ Does(o, "boot") =>
             shown'[webTask[o].tab] \in {NoLogin, shown[webTask[o].tab]}
  BY <1>1, <1>2, <1>3 DEF Does
<1> QED BY <1>1, <1>2, <1>4, <1>5, ReturnKeeps

LEMMA ServeLoginKeeps ==
    ASSUME WebIInv, NEW t \in WebTask, ServeLogin(t)
    PROVE  WebIInv'
<1> USE DEF WebIInv, WebShaped
<1>1. /\ webTask[t].pc = "sent" /\ webTask[t].kind = "login"
      /\ UNCHANGED <<jar, shown, refreshing, ended, strayed>>
  BY DEF ServeLogin
<1>2. PICK l \in Login :
          /\ webSession[l].state = "none"
          /\ webSession' = [webSession EXCEPT ![l] = [@ EXCEPT !.state = "live"]]
          /\ Comes(t, [webTask[t] EXCEPT !.pc = "ok", !.who = l,
                       !.with = [session |-> l, token |-> 0, version |-> 0, access |-> TRUE]])
  BY DEF ServeLogin
<1> DEFINE c == [session |-> l, token |-> 0, version |-> 0, access |-> TRUE]
           s == [webTask[t] EXCEPT !.pc = "ok", !.who = l, !.with = c]
           row == [webSession[l] EXCEPT !.state = "live"]
<1>3. webTask' = [webTask EXCEPT ![t] = s] /\ webSession' = [webSession EXCEPT ![l] = row] BY <1>2 DEF Comes
<1>4. /\ c \in CookieRecord /\ c.session = l /\ c.token = 0
      /\ row \in RowRecord /\ row.state = "live" /\ row.token = 0
  BY <1>2 DEF CookieRecord, RowRecord
<1> HIDE DEF c, row
<1>5. /\ s \in CallRecord /\ s.pc = "ok" /\ s.kind = "login" /\ s.tab = webTask[t].tab /\ s.with = c /\ s.who = l
      /\ s.current = webTask[t].current
  BY <1>1, <1>4 DEF CallRecord
<1> HIDE DEF s
<1>6. /\ webTask' \in [WebTask -> CallRecord] /\ webTask'[t] = s /\ \A o \in WebTask : o # t => webTask'[o] = webTask[o]
      /\ webSession' \in [Login -> RowRecord] /\ webSession'[l] = row
      /\ \A k \in Login : k # l => webSession'[k] = webSession[k]
  BY <1>3, <1>4, <1>5
<1>7. \A k \in CookieRecord : Exists(k.session) =>
          (Known(k)' <=> Known(k)) /\ (Newest(k)' <=> Newest(k)) /\ Exists(k.session)'
  BY <1>2, <1>4, <1>6, WebSessionAssumption DEF Known, Newest, Exists, CookieRecord
<1>8. /\ Exists(jar.session) /\ \A b \in Tab : Exists(refreshing[b].with.session)
      /\ \A o \in WebTask : Exists(webTask[o].with.session)
      /\ \A b \in Tab : refreshing[b].with \in CookieRecord
      /\ \A o \in WebTask : webTask[o].with \in CookieRecord
  BY DEF NamedExist, CallRecord, RefreshRecord
<1>9. /\ Known(jar)' <=> Known(jar)
      /\ \A b \in Tab : Known(refreshing[b].with)' <=> Known(refreshing[b].with)
      /\ \A o \in WebTask : o # t => (Known(webTask[o].with)' <=> Known(webTask[o].with))
  BY <1>1, <1>6, <1>7, <1>8
<1>10. WebShaped' BY <1>1, <1>2, <1>4, <1>5, <1>6
<1>11. NamedExist'
 <2>1. \A k \in Login \cup {NoLogin} : Exists(k) => Exists(k)' BY <1>4, <1>6 DEF Exists
 <2>2. Exists(l)' BY <1>4, <1>6 DEF Exists
 <2>3. \A o \in WebTask : webTask[o].who \in Login \cup {NoLogin} BY DEF CallRecord
 <2>4. l # NoLogin BY WebSessionAssumption
 <2>5. /\ Exists(jar.session)' /\ \A b \in Tab : Exists(refreshing[b].with.session)'
       /\ \A o \in WebTask : o # t => Exists(webTask[o].with.session)' /\ Exists(webTask[o].who)'
  <3>1. \A o \in WebTask : Exists(webTask[o].who) BY DEF NamedExist
  <3> QED BY <1>1, <1>6, <1>7, <1>8, <2>1, <2>3, <3>1
 <2>6. Exists(webTask[t].with.session)' /\ Exists(webTask[t].who)' BY <1>4, <1>5, <1>6, <2>2
 <2>7. \A o \in WebTask : o # t => (webTask'[o].pc = "ok" =>
           /\ webTask'[o].kind \in {"boot", "save", "check", "login"} => webTask'[o].who # NoLogin
           /\ webTask'[o].kind \in {"save", "login"} => webTask'[o].with.session = webTask'[o].who)
   BY <1>6 DEF NamedExist
 <2> QED BY <1>4, <1>5, <1>6, <2>4, <2>5, <2>6, <2>7 DEF NamedExist
<1>12. OneWriter' BY <1>1, <1>5, <1>6 DEF OneWriter, Writes, Does
<1>13. NewestArrives'
 <2> SUFFICES ASSUME strayed # Tab
              PROVE  /\ \A b \in Tab : Brings(b)' => Newest(refreshing[b].with)'
                     /\ \A o \in WebTask : Writes(o)' /\ webTask'[o].pc = "ok" => Newest(webTask[o].with)'
                     /\ Newest(jar)' \/ Coming'
   BY <1>1 DEF NewestArrives
 <2>1. \A b \in Tab : Brings(b)' => Newest(refreshing[b].with)' BY <1>1, <1>7, <1>8 DEF NewestArrives, Brings
 <2>2. Newest(webTask[t].with)' BY <1>4, <1>5, <1>6 DEF Newest
 <2>3. \A o \in WebTask : o # t => (Writes(o)' /\ webTask'[o].pc = "ok" => Newest(webTask[o].with)')
   BY <1>6, <1>7, <1>8 DEF NewestArrives, Writes, Does
 <2>4. Newest(jar)' <=> Newest(jar) BY <1>1, <1>7, <1>8
 <2>5. Coming => Coming' BY <1>1, <1>5, <1>6 DEF Coming, Does
 <2> QED BY <2>1, <2>2, <2>3, <2>4, <2>5 DEF NewestArrives
<1>14. NobodyIsGone'
 <2>1. Gone => Gone' BY <1>1, <1>5, <1>6, <1>9 DEF Gone
 <2>2. \A b \in Tab : LoggedOut(b)' => LoggedOut(b) BY <1>1, <1>5, <1>6 DEF LoggedOut, Does
 <2> QED BY <1>1, <2>1, <2>2 DEF NobodyIsGone
<1>15. LateAnswersAreOld' BY <1>1, <1>5, <1>6 DEF LateAnswersAreOld, Leaves, Does
<1>16. ShownIsCarried' BY <1>1, <1>5, <1>6, <1>9 DEF ShownIsCarried, Moves, Does, Brings
<1>17. BootsAlone' BY <1>1, <1>5, <1>6 DEF BootsAlone, Does
<1> QED BY <1>10, <1>11, <1>12, <1>13, <1>14, <1>15, <1>16, <1>17

\* A session that is over is known to nobody.
LEMMA DeathKeeps ==
    ASSUME WebIInv, NEW l \in Login, webSession[l].state = "live",
           webSession' = [webSession EXCEPT ![l].state = "dead"]
    PROVE  /\ webSession' \in [Login -> RowRecord]
           /\ \A k \in Login : /\ webSession'[k].token = webSession[k].token
                               /\ webSession'[k].state = "none" <=> webSession[k].state = "none"
           /\ \A c \in CookieRecord : /\ Known(c)' <=> Known(c) /\ c.session # l
                                      /\ Newest(c) => Newest(c)'
           /\ \A k \in Login \cup {NoLogin} : Exists(k)' <=> Exists(k)
<1> USE DEF WebIInv, WebShaped
<1> DEFINE row == [webSession[l] EXCEPT !.state = "dead"]
<1>1. webSession' = [webSession EXCEPT ![l] = row] OBVIOUS
<1>2. row \in RowRecord /\ row.state = "dead" /\ row.token = webSession[l].token BY DEF RowRecord
<1> HIDE DEF row
<1>3. /\ webSession' \in [Login -> RowRecord] /\ webSession'[l] = row
      /\ \A k \in Login : k # l => webSession'[k] = webSession[k]
  BY <1>1, <1>2
<1>4. \A k \in Login : /\ webSession'[k].token = webSession[k].token
                       /\ webSession'[k].state = "none" <=> webSession[k].state = "none"
  BY <1>2, <1>3
<1>5. \A c \in CookieRecord : /\ Known(c)' <=> Known(c) /\ c.session # l BY <1>2, <1>3 DEF Known, CookieRecord
<1>6. \A c \in CookieRecord : Newest(c) => Newest(c)'
  BY <1>4, <1>5, WebSessionAssumption DEF Newest, Known, CookieRecord
<1>7. \A k \in Login \cup {NoLogin} : Exists(k)' <=> Exists(k) BY <1>4 DEF Exists
<1> QED BY <1>3, <1>4, <1>5, <1>6, <1>7

LEMMA SessionDiesKeeps ==
    ASSUME WebIInv, NEW l \in Login, SessionDies(l)
    PROVE  WebIInv'
<1> USE DEF WebIInv, WebShaped
<1>1. /\ webSession[l].state = "live" /\ webSession' = [webSession EXCEPT ![l].state = "dead"]
      /\ jar' = jar /\ shown' = shown /\ refreshing' = refreshing /\ webTask' = webTask /\ ended' = ended /\ strayed' = strayed
  BY DEF SessionDies
<1>2. /\ webSession' \in [Login -> RowRecord]
      /\ \A k \in Login : /\ webSession'[k].token = webSession[k].token
                          /\ webSession'[k].state = "none" <=> webSession[k].state = "none"
      /\ \A c \in CookieRecord : /\ Known(c)' => Known(c)
                                 /\ Newest(c) => Newest(c)'
      /\ \A k \in Login \cup {NoLogin} : Exists(k)' <=> Exists(k)
  BY <1>1, DeathKeeps
<1>3. /\ jar \in CookieRecord /\ jar.session \in Login \cup {NoLogin}
      /\ \A b \in Tab : refreshing[b].with \in CookieRecord /\ refreshing[b].with.session \in Login \cup {NoLogin}
      /\ \A t \in WebTask : /\ webTask[t].with \in CookieRecord /\ webTask[t].with.session \in Login \cup {NoLogin}
                            /\ webTask[t].who \in Login \cup {NoLogin}
  BY DEF CallRecord, CookieRecord, RefreshRecord
<1>4. WebShaped' BY <1>1, <1>2
<1>5. NamedExist' BY <1>1, <1>2, <1>3 DEF NamedExist
<1>6. OneWriter' /\ LateAnswersAreOld' /\ BootsAlone'
  BY <1>1 DEF OneWriter, LateAnswersAreOld, BootsAlone, Writes, Does, Leaves
<1>7. NewestArrives'
 <2>1. Coming' <=> Coming BY <1>1 DEF Coming, Does
 <2> QED BY <1>1, <1>2, <1>3, <2>1 DEF NewestArrives, Brings, Writes, Does
<1>8. NobodyIsGone'
 <2>1. Gone => Gone' BY <1>1, <1>2, <1>3 DEF Gone
 <2> QED BY <1>1, <2>1 DEF NobodyIsGone, LoggedOut, Does
<1>9. ShownIsCarried' BY <1>1, <1>2, <1>3 DEF ShownIsCarried, Moves, Brings, Does
<1> QED BY <1>4, <1>5, <1>6, <1>7, <1>8, <1>9

LEMMA AccessExpiresKeeps ==
    ASSUME WebIInv, AccessExpires
    PROVE  WebIInv'
<1> USE DEF WebIInv, WebShaped
<1> DEFINE c == [jar EXCEPT !.access = FALSE]
<1>1. /\ jar' = c
      /\ webSession' = webSession /\ shown' = shown /\ refreshing' = refreshing /\ webTask' = webTask /\ ended' = ended
      /\ strayed' = strayed
  BY DEF AccessExpires
<1>2. c \in CookieRecord /\ c.session = jar.session /\ c.token = jar.token BY DEF CookieRecord
<1> HIDE DEF c
<1>3. WebShaped' BY <1>1, <1>2
<1>4. NamedExist' BY <1>1, <1>2 DEF NamedExist, Exists
<1>5. OneWriter' /\ LateAnswersAreOld' /\ BootsAlone'
  BY <1>1 DEF OneWriter, LateAnswersAreOld, BootsAlone, Writes, Does, Leaves
<1>6. (Known(jar)' <=> Known(jar)) /\ (Newest(jar)' <=> Newest(jar)) BY <1>1, <1>2 DEF Known, Newest
<1>7. \A k \in CookieRecord : (Known(k)' <=> Known(k)) /\ (Newest(k)' <=> Newest(k)) BY <1>1 DEF Known, Newest
<1>8. NewestArrives'
 <2>1. Coming' <=> Coming BY <1>1 DEF Coming, Does
 <2> QED BY <1>1, <1>6, <1>7, <2>1 DEF NewestArrives, Brings, Writes, Does, CallRecord, RefreshRecord
<1>9. NobodyIsGone'
 <2>1. Gone => Gone' BY <1>1, <1>6, <1>7 DEF Gone, CallRecord, RefreshRecord
 <2> QED BY <1>1, <2>1 DEF NobodyIsGone, LoggedOut, Does
<1>10. ShownIsCarried' BY <1>1, <1>2, <1>7 DEF ShownIsCarried, Moves, Brings, Does, CallRecord, RefreshRecord
<1> QED BY <1>3, <1>4, <1>5, <1>8, <1>9, <1>10

LEMMA RefreshFailsKeeps ==
    ASSUME WebIInv, NEW b \in Tab, RefreshFails(b)
    PROVE  WebIInv'
<1> USE DEF WebIInv, WebShaped
<1> DEFINE w == [refreshing[b] EXCEPT !.pc = "failed"]
<1>1. /\ refreshing' = [refreshing EXCEPT ![b] = w] /\ refreshing[b].pc \in {"sent", "ok"}
      /\ strayed' = IF refreshing[b].pc = "ok" THEN Tab ELSE strayed \cup {b}
      /\ webSession' = webSession /\ jar' = jar /\ shown' = shown /\ webTask' = webTask /\ ended' = ended
  BY DEF RefreshFails
<1>2. w \in RefreshRecord /\ w.pc = "failed" /\ w.with = refreshing[b].with BY DEF RefreshRecord
<1> HIDE DEF w
<1>3. /\ refreshing' \in [Tab -> RefreshRecord] /\ refreshing'[b].pc = "failed"
      /\ \A a \in Tab : refreshing'[a].with = refreshing[a].with /\ (a # b => refreshing'[a].pc = refreshing[a].pc)
      /\ strayed \subseteq strayed' /\ strayed' \subseteq Tab
      /\ strayed' # Tab => strayed # Tab /\ refreshing[b].pc = "sent"
  BY <1>1, <1>2
<1>4. WebShaped' BY <1>1, <1>3
<1>5. NamedExist' BY <1>1, <1>3 DEF NamedExist, Exists
<1>6. OneWriter' BY <1>1, <1>3 DEF OneWriter, Writes, Does
<1>7. LateAnswersAreOld' /\ BootsAlone' BY <1>1, <1>3 DEF LateAnswersAreOld, BootsAlone, Does, Leaves
<1>8. \A k \in CookieRecord : (Known(k)' <=> Known(k)) /\ (Newest(k)' <=> Newest(k)) BY <1>1 DEF Known, Newest
<1>9. NewestArrives'
 <2> SUFFICES ASSUME strayed' # Tab
              PROVE  /\ \A a \in Tab : Brings(a)' => Newest(refreshing[a].with)'
                     /\ \A o \in WebTask : Writes(o)' /\ webTask'[o].pc = "ok" => Newest(webTask[o].with)'
                     /\ Newest(jar)' \/ Coming'
   BY DEF NewestArrives
 <2>1. \A a \in Tab : Brings(a)' => Newest(refreshing[a].with)'
   BY <1>3, <1>8 DEF NewestArrives, Brings, RefreshRecord
 <2>2. \A o \in WebTask : Writes(o)' /\ webTask'[o].pc = "ok" => Newest(webTask[o].with)'
   BY <1>1, <1>3, <1>8 DEF NewestArrives, Writes, Does, CallRecord
 <2>3. Coming => Coming' BY <1>1, <1>3 DEF Coming, Does
 <2> QED BY <1>1, <1>3, <1>8, <2>1, <2>2, <2>3 DEF NewestArrives
<1>10. NobodyIsGone'
 <2>1. Gone => Gone' BY <1>1, <1>3, <1>8 DEF Gone, CallRecord, RefreshRecord
 <2>2. \A a \in Tab : LoggedOut(a)' => LoggedOut(a) BY <1>1, <1>3 DEF LoggedOut, Does
 <2> QED BY <1>1, <1>3, <2>1, <2>2 DEF NobodyIsGone
<1>11. ShownIsCarried' BY <1>1, <1>3, <1>8 DEF ShownIsCarried, Moves, Brings, Does, CallRecord, RefreshRecord
<1> QED BY <1>4, <1>5, <1>6, <1>7, <1>9, <1>10, <1>11

\* The newest credential of a session gives way to the next one.
LEMMA RotationKeeps ==
    ASSUME WebIInv, NEW l \in Login, webSession[l].state = "live", NEW row \in RowRecord,
           webSession' = [webSession EXCEPT ![l] = row],
           row.state = "live", row.token = webSession[l].token + 1
    PROVE  /\ webSession' \in [Login -> RowRecord]
           /\ \A k \in Login : webSession'[k].state = "none" => webSession'[k].token = 0
           /\ webSession'[l].token = webSession[l].token + 1
           /\ \A k \in Login : k # l => webSession'[k] = webSession[k]
           /\ \A c \in CookieRecord : Known(c)' <=> Known(c)
           /\ \A k \in Login \cup {NoLogin} : Exists(k)' <=> Exists(k)
<1> USE DEF WebIInv, WebShaped
<1>1. /\ webSession' \in [Login -> RowRecord] /\ webSession'[l] = row
      /\ \A k \in Login : k # l => webSession'[k] = webSession[k]
  OBVIOUS
<1>2. \A k \in Login : webSession'[k].state = webSession[k].state BY <1>1
<1>3. \A c \in CookieRecord : Known(c)' <=> Known(c) BY <1>2 DEF Known, CookieRecord
<1>4. \A k \in Login \cup {NoLogin} : Exists(k)' <=> Exists(k) BY <1>2 DEF Exists
<1> QED BY <1>1, <1>3, <1>4

LEMMA ServeRefreshKeeps ==
    ASSUME WebIInv, NEW b \in Tab, ServeRefresh(b), Rotates(refreshing[b].with)
    PROVE  WebIInv'
<1> USE DEF WebIInv, WebShaped
<1> DEFINE old == refreshing[b].with
           l == old.session
           c == [session |-> l, token |-> old.token + 1, version |-> webSession[l].version, access |-> TRUE]
           w == [pc |-> "ok", with |-> c]
           row == [webSession[l] EXCEPT !.token = webSession[l].token + 1]
<1>1. /\ refreshing' = [refreshing EXCEPT ![b] = w] /\ refreshing[b].pc = "sent"
      /\ webSession' = [webSession EXCEPT ![l] = row]
      /\ jar' = jar /\ shown' = shown /\ webTask' = webTask /\ ended' = ended /\ strayed' = strayed
  BY DEF ServeRefresh
<1>2. old \in CookieRecord /\ l \in Login /\ webSession[l].state = "live" /\ old.token = webSession[l].token
  BY DEF Rotates, Known, CookieRecord, RefreshRecord
<1>3. /\ c \in CookieRecord /\ c.session = l /\ c.token = webSession[l].token + 1
      /\ row \in RowRecord /\ row.state = "live" /\ row.token = webSession[l].token + 1
 <2> DEFINE r == webSession[l]
 <2>1. r \in RowRecord /\ r.state = "live" BY <1>2
 <2>2. /\ c = [session |-> l, token |-> r.token + 1, version |-> r.version, access |-> TRUE]
       /\ row = [r EXCEPT !.token = r.token + 1]
   BY <1>2
 <2> HIDE DEF r, l, c, row
 <2>3. r.token + 1 \in Nat /\ r.version \in Nat BY <2>1 DEF RowRecord
 <2>4. c \in CookieRecord /\ c.session = l /\ c.token = r.token + 1 BY <1>2, <2>2, <2>3 DEF CookieRecord
 <2>5. row \in RowRecord /\ row.state = "live" /\ row.token = r.token + 1 BY <2>1, <2>2, <2>3 DEF RowRecord
 <2> QED BY <2>4, <2>5 DEF r
<1> HIDE DEF c, row
<1>4. w \in RefreshRecord /\ w.pc = "ok" /\ w.with = c BY <1>3 DEF RefreshRecord
<1> HIDE DEF w
<1>5. /\ refreshing' \in [Tab -> RefreshRecord] /\ refreshing'[b] = w
      /\ \A a \in Tab : a # b => refreshing'[a] = refreshing[a]
  BY <1>1, <1>4
<1>6. /\ webSession' \in [Login -> RowRecord]
      /\ \A k \in Login : webSession'[k].state = "none" => webSession'[k].token = 0
      /\ webSession'[l].token = webSession[l].token + 1
      /\ \A k \in CookieRecord : Known(k)' <=> Known(k)
      /\ \A k \in Login \cup {NoLogin} : Exists(k)' <=> Exists(k)
  BY <1>1, <1>2, <1>3, RotationKeeps
<1>7. /\ jar \in CookieRecord /\ jar.session \in Login \cup {NoLogin}
      /\ \A a \in Tab : refreshing[a].with \in CookieRecord /\ refreshing[a].with.session \in Login \cup {NoLogin}
      /\ \A t \in WebTask : /\ webTask[t].with \in CookieRecord /\ webTask[t].with.session \in Login \cup {NoLogin}
                            /\ webTask[t].who \in Login \cup {NoLogin}
  BY DEF CallRecord, CookieRecord, RefreshRecord
<1>8. \A a \in Tab : refreshing'[a].with.session = refreshing[a].with.session BY <1>3, <1>4, <1>5
<1> HIDE DEF l
<1>9. WebShaped' BY <1>1, <1>5, <1>6
<1>10. NamedExist' BY <1>1, <1>6, <1>7, <1>8 DEF NamedExist
<1>11. OneWriter' BY <1>1, <1>4, <1>5 DEF OneWriter, Writes, Does
<1>12. LateAnswersAreOld' /\ BootsAlone' BY <1>1 DEF LateAnswersAreOld, BootsAlone, Does, Leaves
<1>13. NewestArrives'
 <2> SUFFICES ASSUME strayed # Tab
              PROVE  /\ \A a \in Tab : Brings(a)' => Newest(refreshing[a].with)'
                     /\ \A o \in WebTask : Writes(o)' => webTask'[o].pc # "ok"
                     /\ Coming'
   BY <1>1 DEF NewestArrives
 <2>1. \A a \in Tab : Brings(a)' => a = b BY <1>1, <1>5 DEF OneWriter, Brings
 <2>2. Newest(refreshing[b].with)' BY <1>3, <1>4, <1>5, <1>6 DEF Newest
 <2>3. \A o \in WebTask : Writes(o)' => webTask'[o].pc # "ok" BY <1>1 DEF OneWriter, Writes, Does
 <2>4. Coming' BY <1>4, <1>5 DEF Coming
 <2> QED BY <2>1, <2>2, <2>3, <2>4
<1>14. ~Gone BY <1>2 DEF Gone, Rotates
<1>15. NobodyIsGone'
 <2>1. \A a \in Tab : LoggedOut(a)' => LoggedOut(a) BY <1>1, <1>4, <1>5 DEF LoggedOut, Does
 <2> QED BY <1>1, <1>14, <2>1 DEF NobodyIsGone
<1>16. ShownIsCarried'
 <2> SUFFICES ASSUME NEW a \in Tab \ strayed, a \notin ended
              PROVE  /\ jar.session = shown[a]
                     /\ \A k \in Tab : (Brings(k) \/ Known(refreshing[k].with))' => refreshing'[k].with.session = shown[a]
                     /\ \A o \in WebTask :
                            /\ Moves(o) \/ (webTask[o].kind # "login" /\ Known(webTask[o].with)') => webTask[o].with.session = shown[a]
                            /\ webTask[o].pc = "ok" /\ webTask[o].tab = a /\ webTask[o].kind \in {"save", "check"} /\ webTask[o].current =>
                                   webTask[o].who = shown[a]
   BY <1>1 DEF ShownIsCarried, Moves, Does
 <2>1. l = shown[a] BY <1>1 DEF ShownIsCarried, Brings, l
 <2>2. \A k \in Tab : (Brings(k) \/ Known(refreshing[k].with))' => refreshing'[k].with.session = shown[a]
  <3>1. \A k \in Tab : k # b => ((Brings(k) \/ Known(refreshing[k].with))' => refreshing'[k].with.session = shown[a])
    BY <1>1, <1>5, <1>6, <1>7 DEF ShownIsCarried, Brings
  <3> QED BY <1>3, <1>4, <1>5, <2>1, <3>1
 <2> QED BY <1>1, <1>6, <1>7, <2>2 DEF ShownIsCarried
<1> QED BY <1>9, <1>10, <1>11, <1>12, <1>13, <1>15, <1>16

\* A refresh that is refused finds its session over, unless its tab is misled.
LEMMA RefreshRefusedKeeps ==
    ASSUME WebIInv, NEW b \in Tab, ServeRefresh(b), ~Rotates(refreshing[b].with)
    PROVE  WebIInv'
<1> USE DEF WebIInv, WebShaped
<1> DEFINE w == [refreshing[b] EXCEPT !.pc = "invalid"]
<1>1. /\ refreshing' = [refreshing EXCEPT ![b] = w] /\ refreshing[b].pc = "sent"
      /\ webSession' = webSession /\ jar' = jar /\ shown' = shown /\ webTask' = webTask /\ ended' = ended /\ strayed' = strayed
  BY DEF ServeRefresh
<1>2. w \in RefreshRecord /\ w.pc = "invalid" /\ w.with = refreshing[b].with BY DEF RefreshRecord
<1> HIDE DEF w
<1>3. /\ refreshing' \in [Tab -> RefreshRecord] /\ refreshing'[b].pc = "invalid"
      /\ \A a \in Tab : refreshing'[a].with = refreshing[a].with /\ (a # b => refreshing'[a].pc = refreshing[a].pc)
  BY <1>1, <1>2
<1>4. WebShaped' /\ NamedExist' BY <1>1, <1>3 DEF NamedExist, Exists
<1>5. OneWriter' BY <1>1, <1>3 DEF OneWriter, Writes, Does
<1>6. LateAnswersAreOld' /\ BootsAlone' BY <1>1, <1>3 DEF LateAnswersAreOld, BootsAlone, Does, Leaves
<1>7. \A k \in CookieRecord : (Known(k)' <=> Known(k)) /\ (Newest(k)' <=> Newest(k)) BY <1>1 DEF Known, Newest
<1>8. NewestArrives'
 <2>1. \A a \in Tab : Brings(a)' => Brings(a) BY <1>1, <1>3 DEF Brings
 <2>2. Coming => Coming' BY <1>1, <1>3 DEF Coming, Does
 <2> QED BY <1>1, <1>3, <1>7, <2>1, <2>2 DEF NewestArrives, Writes, Does, CallRecord, RefreshRecord
<1>9. NobodyIsGone'
 <2>1. Gone => Gone' BY <1>1, <1>3, <1>7 DEF Gone, CallRecord, RefreshRecord
 <2>2. \A a \in Tab : a # b => (LoggedOut(a)' => LoggedOut(a)) BY <1>1, <1>3 DEF LoggedOut, Does
 <2>3. b \notin strayed => Gone
  <3> SUFFICES ASSUME b \notin strayed, b \notin ended
               PROVE  Gone
    BY DEF NobodyIsGone, LoggedOut
  <3>1. ~Known(refreshing[b].with) BY <1>1 DEF NewestArrives, Brings, Newest, Rotates
  <3>2. refreshing[b].with.session = shown[b] /\ shown[b] # NoLogin
    BY <1>1 DEF ShownIsCarried, NobodyIsGone, Brings
  <3>3. \A k \in CookieRecord : k.session = shown[b] => ~Known(k) BY <3>1, <3>2 DEF Known
  <3> QED BY <3>3 DEF ShownIsCarried, Gone, RefreshRecord, CallRecord
 <2> QED BY <1>1, <2>1, <2>2, <2>3 DEF NobodyIsGone
<1>10. ShownIsCarried' BY <1>1, <1>3, <1>7 DEF ShownIsCarried, Moves, Brings, Does, CallRecord, RefreshRecord
<1> QED BY <1>4, <1>5, <1>6, <1>8, <1>9, <1>10

LEMMA ServeLogoutKeeps ==
    ASSUME WebIInv, NEW t \in WebTask, ServeLogout(t)
    PROVE  WebIInv'
<1> USE DEF WebIInv, WebShaped
<1> DEFINE l == webTask[t].with.session
           s == [webTask[t] EXCEPT !.pc = "ok", !.with = NoCookies]
<1>1. /\ webTask[t].pc = "sent" /\ webTask[t].kind = "logout"
      /\ jar' = jar /\ shown' = shown /\ refreshing' = refreshing /\ ended' = ended /\ strayed' = strayed
  BY DEF ServeLogout
<1>2. CASE ~Authorised(webTask[t].with)
 <2>1. Refused(t) /\ webSession' = webSession BY <1>2 DEF ServeLogout
 <2> QED BY <1>1, <2>1, RefusalKeeps
<1>3. CASE Authorised(webTask[t].with)
 <2>1. /\ webTask' = [webTask EXCEPT ![t] = s]
       /\ webSession' = [webSession EXCEPT ![l].state = "dead"]
   BY <1>3 DEF ServeLogout, Comes
 <2>2. l \in Login /\ webSession[l].state = "live" /\ Known(webTask[t].with)
   BY <1>3 DEF Authorised, Known, CallRecord, CookieRecord
 <2>3. /\ s \in CallRecord /\ s.pc = "ok" /\ s.with = NoCookies /\ s.kind = "logout"
       /\ s.tab = webTask[t].tab /\ s.current = webTask[t].current /\ s.who = webTask[t].who
   BY <1>1, NothingTyped DEF CallRecord
 <2> HIDE DEF s
 <2>4. /\ webTask' \in [WebTask -> CallRecord] /\ webTask'[t] = s /\ \A o \in WebTask : o # t => webTask'[o] = webTask[o]
   BY <2>1, <2>3
 <2>5. /\ webSession' \in [Login -> RowRecord]
       /\ \A k \in Login : /\ webSession'[k].token = webSession[k].token
                           /\ webSession'[k].state = "none" <=> webSession[k].state = "none"
       /\ \A c \in CookieRecord : /\ Known(c)' <=> Known(c) /\ c.session # l
                                  /\ Newest(c) => Newest(c)'
       /\ \A k \in Login \cup {NoLogin} : Exists(k)' <=> Exists(k)
   BY <2>1, <2>2, DeathKeeps
 <2> HIDE DEF l
 <2>6. /\ jar \in CookieRecord /\ jar.session \in Login \cup {NoLogin}
       /\ \A b \in Tab : refreshing[b].with \in CookieRecord /\ refreshing[b].with.session \in Login \cup {NoLogin}
       /\ \A o \in WebTask : /\ webTask[o].with \in CookieRecord /\ webTask[o].with.session \in Login \cup {NoLogin}
                             /\ webTask[o].who \in Login \cup {NoLogin}
   BY DEF CallRecord, CookieRecord, RefreshRecord
 <2>7. NoCookies \in CookieRecord /\ NoCookies.session = NoLogin /\ ~Known(NoCookies) /\ ~Known(NoCookies)'
   BY <2>5, NothingTyped
 <2>8. WebShaped' BY <1>1, <2>3, <2>4, <2>5
 <2>9. NamedExist'
  <3>1. Exists(NoLogin)' BY DEF Exists
  <3>2. /\ Exists(jar.session)' /\ \A b \in Tab : Exists(refreshing[b].with.session)'
        /\ \A o \in WebTask : Exists(webTask[o].with.session)' /\ Exists(webTask[o].who)'
   <4>1. \A o \in WebTask : webTask'[o].who = webTask[o].who BY <2>3, <2>4
   <4>2. \A o \in WebTask : webTask'[o].with.session \in {NoLogin, webTask[o].with.session} BY <2>3, <2>4, <2>7
   <4> QED BY <1>1, <2>5, <2>6, <3>1, <4>1, <4>2 DEF NamedExist
  <3> QED BY <1>1, <2>3, <2>4, <3>2 DEF NamedExist
 <2>10. OneWriter' BY <1>1, <2>3, <2>4 DEF OneWriter, Writes, Does
 <2>11. NewestArrives'
  <3>1. Coming' <=> Coming BY <1>1, <2>3, <2>4 DEF Coming, Does
  <3>2. \A o \in WebTask : Writes(o)' => Writes(o) /\ o # t /\ webTask'[o] = webTask[o]
    BY <2>3, <2>4 DEF Writes, Does
  <3> QED BY <1>1, <2>5, <2>6, <3>1, <3>2 DEF NewestArrives, Brings
 <2>12. ~Gone BY <1>1, <2>2 DEF Gone
 <2>13. NobodyIsGone'
  <3> DEFINE b == webTask[t].tab
  <3>1. \A a \in Tab : LoggedOut(a)' => LoggedOut(a) \/ a = b BY <1>1, <2>3, <2>4 DEF LoggedOut, Does
  <3>2. b \in Tab \ strayed => Gone'
   <4> SUFFICES ASSUME b \in Tab \ strayed
                PROVE  Gone'
     OBVIOUS
   <4>1. b \notin ended BY <2>12 DEF NobodyIsGone, LoggedOut
   <4>2. l = shown[b] BY <1>1, <2>2, <4>1 DEF ShownIsCarried, l
   <4>3. /\ ~Known(jar)' /\ \A a \in Tab : ~Known(refreshing[a].with)'
     BY <1>1, <2>5, <2>6, <4>1, <4>2 DEF ShownIsCarried
   <4>4. \A o \in WebTask : webTask'[o].kind # "login" => ~Known(webTask[o].with)'
     BY <2>3, <2>4, <2>5, <2>6, <2>7, <4>1, <4>2 DEF ShownIsCarried
   <4> QED BY <4>3, <4>4 DEF Gone
  <3> QED BY <1>1, <2>12, <3>1, <3>2 DEF NobodyIsGone
 <2>14. LateAnswersAreOld' BY <1>1, <2>3, <2>4 DEF LateAnswersAreOld, Leaves, Does
 <2>15. ShownIsCarried'
  <3>1. \A o \in WebTask : Moves(o)' => Moves(o) /\ o # t BY <2>3, <2>4 DEF Moves, Does
  <3>2. \A o \in WebTask : o # t => webTask'[o] = webTask[o] BY <2>4
  <3>3. ~Known(webTask[t].with)' /\ webTask'[t].kind = "logout" BY <2>3, <2>4, <2>7
  <3> QED BY <1>1, <2>5, <2>6, <3>1, <3>2, <3>3 DEF ShownIsCarried, Brings
 <2>16. BootsAlone' BY <1>1, <2>3, <2>4 DEF BootsAlone, Does
 <2> QED BY <2>8, <2>9, <2>10, <2>11, <2>13, <2>14, <2>15, <2>16
<1> QED BY <1>2, <1>3

\* A save whose answer is lost is looked up, with whatever is in the jar.
LEMMA ReconcilesKeeps ==
    ASSUME WebIInv, NEW t \in WebTask, Reconciles(t)
    PROVE  WebIInv'
<1> USE DEF WebIInv, WebShaped
<1> DEFINE s == [webTask[t] EXCEPT !.pc = "sent", !.kind = "check", !.with = jar, !.retried = FALSE]
<1>1. /\ webTask' = [webTask EXCEPT ![t] = s] /\ webTask[t].kind = "save" /\ webTask[t].pc \in {"sent", "ok"}
      /\ strayed' = IF webTask[t].pc = "ok" THEN Tab ELSE strayed
      /\ webSession' = webSession /\ jar' = jar /\ shown' = shown /\ refreshing' = refreshing /\ ended' = ended
  BY DEF Reconciles, Comes, Lost
<1>2. /\ s \in CallRecord /\ s.pc = "sent" /\ s.kind = "check" /\ s.with = jar /\ s.tab = webTask[t].tab
      /\ s.who = webTask[t].who /\ s.current = webTask[t].current
  BY ZenonT(60) DEF CallRecord
<1> HIDE DEF s
<1>3. /\ webTask' \in [WebTask -> CallRecord] /\ webTask'[t] = s /\ \A o \in WebTask : o # t => webTask'[o] = webTask[o]
      /\ strayed \subseteq strayed' /\ strayed' \subseteq Tab
      /\ strayed' # Tab => strayed # Tab /\ webTask[t].pc = "sent"
  BY <1>1, <1>2
<1>4. \A k \in CookieRecord : (Known(k)' <=> Known(k)) /\ (Newest(k)' <=> Newest(k)) BY <1>1 DEF Known, Newest
<1>5. WebShaped' BY <1>1, <1>2, <1>3
<1>6. NamedExist' BY <1>1, <1>2, <1>3 DEF NamedExist, Exists
<1>7. OneWriter' BY <1>1, <1>2, <1>3 DEF OneWriter, Writes, Does
<1>8. NewestArrives'
 <2> SUFFICES ASSUME strayed' # Tab
              PROVE  /\ \A b \in Tab : Brings(b)' => Newest(refreshing[b].with)'
                     /\ \A o \in WebTask : Writes(o)' /\ webTask'[o].pc = "ok" => Newest(webTask[o].with)'
                     /\ Newest(jar)' \/ Coming'
   BY DEF NewestArrives
 <2>1. Coming => Coming' BY <1>1, <1>2, <1>3 DEF Coming, Does
 <2>2. \A o \in WebTask : Writes(o)' => Writes(o) /\ webTask'[o] = webTask[o]
   BY <1>1, <1>2, <1>3 DEF Writes, Does
 <2> QED BY <1>1, <1>3, <1>4, <2>1, <2>2 DEF NewestArrives, Brings, CallRecord, RefreshRecord
<1>9. NobodyIsGone'
 <2>1. Gone => Gone' BY <1>1, <1>2, <1>3, <1>4 DEF Gone, CallRecord, RefreshRecord
 <2>2. \A a \in Tab : LoggedOut(a)' => LoggedOut(a) BY <1>1, <1>2, <1>3 DEF LoggedOut, Does
 <2> QED BY <1>1, <1>3, <2>1, <2>2 DEF NobodyIsGone
<1>10. LateAnswersAreOld' BY <1>1, <1>2, <1>3 DEF LateAnswersAreOld, Leaves, Does
<1>11. ShownIsCarried'
  BY <1>1, <1>2, <1>3, <1>4 DEF ShownIsCarried, Moves, Brings, Does, CallRecord, RefreshRecord
<1>12. BootsAlone' BY <1>1, <1>2, <1>3 DEF BootsAlone, Does
<1> QED BY <1>5, <1>6, <1>7, <1>8, <1>9, <1>10, <1>11, <1>12

\* A refresh that starts while nothing else writes takes the newest credential.
LEMMA WaitsForRefreshKeeps ==
    ASSUME WebIInv, NEW t \in WebTask, WaitsForRefresh(t)
    PROVE  WebIInv'
<1> USE DEF WebIInv, WebShaped
<1> DEFINE b == webTask[t].tab
           s == [webTask[t] EXCEPT !.pc = "refresh"]
           w == [pc |-> "sent", with |-> jar]
<1>1. /\ webTask' = [webTask EXCEPT ![t] = s] /\ webTask[t].pc = "refused" /\ webTask[t].kind \notin {"login", "logout"}
      /\ webSession' = webSession /\ jar' = jar /\ shown' = shown /\ ended' = ended /\ b \in Tab
  BY DEF WaitsForRefresh, Comes
<1>2. /\ s \in CallRecord /\ s.pc = "refresh" /\ s.kind = webTask[t].kind /\ s.with = webTask[t].with
      /\ s.tab = webTask[t].tab /\ s.who = webTask[t].who /\ s.current = webTask[t].current
  BY DEF CallRecord
<1> HIDE DEF s
<1>3. CASE refreshing[b].pc # "none"
 <2>1. refreshing' = refreshing /\ strayed' = strayed BY <1>3 DEF WaitsForRefresh
 <2>2. Exists(s.who) BY <1>2 DEF NamedExist
 <2> QED BY <1>1, <1>2, <2>1, <2>2, CallStepKeeps
<1>4. CASE refreshing[b].pc = "none"
 <2>1. /\ refreshing' = [refreshing EXCEPT ![b] = w]
       /\ strayed' = IF Overlaps(t) THEN Tab ELSE strayed
   BY <1>4 DEF WaitsForRefresh
 <2>2. w \in RefreshRecord /\ w.pc = "sent" /\ w.with = jar BY DEF RefreshRecord
 <2> HIDE DEF w
 <2>3. /\ webTask' \in [WebTask -> CallRecord] /\ webTask'[t] = s /\ \A o \in WebTask : o # t => webTask'[o] = webTask[o]
       /\ refreshing' \in [Tab -> RefreshRecord] /\ refreshing'[b] = w /\ \A a \in Tab : a # b => refreshing'[a] = refreshing[a]
   BY <1>1, <1>2, <2>1, <2>2
 <2>4. /\ strayed \subseteq strayed' /\ strayed' \subseteq Tab
       /\ strayed' # Tab => /\ strayed # Tab /\ \A a \in Tab : refreshing[a].pc = "none"
                            /\ \A o \in WebTask : o # t => ~Writes(o)
   BY <2>1 DEF Overlaps, Writes, Does
 <2>5. \A k \in CookieRecord : (Known(k)' <=> Known(k)) /\ (Newest(k)' <=> Newest(k)) BY <1>1 DEF Known, Newest
 <2>6. WebShaped' BY <1>1, <1>2, <2>3, <2>4
 <2>7. NamedExist' BY <1>1, <1>2, <2>2, <2>3 DEF NamedExist, Exists
 <2>8. OneWriter' BY <1>1, <1>2, <2>2, <2>3, <2>4 DEF OneWriter, Writes, Does
 <2>9. NewestArrives'
  <3> SUFFICES ASSUME strayed' # Tab
               PROVE  /\ \A a \in Tab : Brings(a)' => Newest(refreshing[a].with)'
                      /\ \A o \in WebTask : ~(Writes(o)' /\ webTask'[o].pc = "ok")
                      /\ Newest(jar)'
    BY DEF NewestArrives
  <3>1. ~Coming BY <1>1, <2>4 DEF Coming, Writes
  <3>2. Newest(jar) BY <2>4, <3>1 DEF NewestArrives
  <3>3. \A o \in WebTask : ~(Writes(o)' /\ webTask'[o].pc = "ok") BY <1>2, <2>3, <2>4 DEF Writes, Does
  <3>4. \A a \in Tab : Brings(a)' => a = b BY <2>3, <2>4 DEF Brings
  <3> QED BY <1>1, <2>2, <2>3, <2>5, <3>2, <3>3, <3>4
 <2>10. NobodyIsGone'
  <3>1. Gone => Gone' BY <1>1, <1>2, <2>2, <2>3, <2>5 DEF Gone, CallRecord, RefreshRecord
  <3>2. \A a \in Tab : LoggedOut(a)' => LoggedOut(a) BY <1>1, <1>2, <2>2, <2>3 DEF LoggedOut, Does
  <3> QED BY <1>1, <2>4, <3>1, <3>2 DEF NobodyIsGone
 <2>11. LateAnswersAreOld' /\ BootsAlone'
   BY <1>1, <1>2, <2>3, <2>4 DEF LateAnswersAreOld, BootsAlone, Leaves, Does
 <2>12. ShownIsCarried'
   BY <1>1, <1>2, <2>2, <2>3, <2>4, <2>5 DEF ShownIsCarried, Moves, Brings, Does, CallRecord, RefreshRecord
 <2> QED BY <2>6, <2>7, <2>8, <2>9, <2>10, <2>11, <2>12
<1> QED BY <1>3, <1>4

LEMMA SaveServedKeeps ==
    ASSUME WebIInv, NEW t \in WebTask, ServeSave(t)
    PROVE  WebIInv'
<1>1. ~Authorised(webTask[t].with) => WebIInv' BY RefusalKeeps DEF ServeSave
<1> QED BY <1>1, ServeSaveKeeps

\* What a tab waits for is known to be old from now on, and nothing else changes.
LEMMA OutdatedCalls ==
    ASSUME NEW tasks \in [WebTask -> CallRecord], NEW b \in Tab
    PROVE  /\ Outdated(tasks, b) \in [WebTask -> CallRecord]
           /\ \A o \in WebTask :
                  LET old == Outdated(tasks, b)[o] IN
                  /\ old.pc = tasks[o].pc /\ old.kind = tasks[o].kind /\ old.tab = tasks[o].tab
                  /\ old.with = tasks[o].with /\ old.who = tasks[o].who
                  /\ old.current => tasks[o].current
                  /\ webTask[o].pc # "idle" /\ webTask[o].tab = b => ~old.current
<1> DEFINE Of(o) == webTask[o].pc # "idle" /\ webTask[o].tab = b
           asked == Outdated(tasks, b)
           old(o) == [tasks[o] EXCEPT !.current = FALSE]
<1>1. \A o \in WebTask : /\ old(o) \in CallRecord /\ old(o).pc = tasks[o].pc /\ old(o).kind = tasks[o].kind
                         /\ old(o).tab = tasks[o].tab /\ old(o).with = tasks[o].with /\ old(o).who = tasks[o].who
                         /\ ~old(o).current
 <2> TAKE o \in WebTask
 <2> DEFINE r == tasks[o]
 <2>1. r \in CallRecord OBVIOUS
 <2> HIDE DEF r
 <2>2. /\ [r EXCEPT !.current = FALSE] \in CallRecord /\ [r EXCEPT !.current = FALSE].pc = r.pc
       /\ [r EXCEPT !.current = FALSE].kind = r.kind /\ [r EXCEPT !.current = FALSE].tab = r.tab
       /\ [r EXCEPT !.current = FALSE].with = r.with /\ [r EXCEPT !.current = FALSE].who = r.who
       /\ ~[r EXCEPT !.current = FALSE].current
   BY <2>1 DEF CallRecord
 <2> QED BY <2>2 DEF r
<1>2. asked = [o \in WebTask |-> IF Of(o) THEN old(o) ELSE tasks[o]] BY DEF Outdated, CallsOf
<1> HIDE DEF old, asked
<1>3. /\ asked \in [WebTask -> CallRecord]
      /\ \A o \in WebTask :
             /\ asked[o].pc = tasks[o].pc /\ asked[o].kind = tasks[o].kind /\ asked[o].tab = tasks[o].tab
             /\ asked[o].with = tasks[o].with /\ asked[o].who = tasks[o].who
             /\ asked[o].current => tasks[o].current
             /\ Of(o) => ~asked[o].current
  BY <1>1, <1>2
<1> QED BY <1>3 DEF asked

LEMMA CallIssuedKeeps ==
    ASSUME WebIInv, NEW t \in WebTask, NEW b \in Tab,
           NEW kind \in {"boot", "use", "save", "login", "logout"}, Call(t, b, kind)
    PROVE  WebIInv'
<1> USE DEF WebIInv, WebShaped
<1> DEFINE n == [NoWebTask EXCEPT !.pc = "sent", !.kind = kind, !.tab = b, !.with = jar]
           asked == IF kind = "logout" THEN Outdated(webTask, b) ELSE webTask
           Of(o) == webTask[o].pc # "idle" /\ webTask[o].tab = b
<1>1. /\ webTask[t].pc = "idle" /\ webTask' = [asked EXCEPT ![t] = n]
      /\ kind \in {"boot", "login"} <=> shown[b] = NoLogin
      /\ strayed' = IF kind \in {"login", "save"} /\ Overlaps(t) THEN Tab ELSE strayed
      /\ webSession' = webSession /\ jar' = jar /\ shown' = shown /\ refreshing' = refreshing /\ ended' = ended
  BY DEF Call
<1>2. /\ \A o \in WebTask : Of(o) => webTask[o].kind # kind /\ webTask[o].kind \notin {"boot", "login"}
      /\ kind = "boot" => \A o \in WebTask : ~Of(o)
  BY DEF Call, Kinds, CallsOf
<1>3. /\ n \in CallRecord /\ n.pc = "sent" /\ n.kind = kind /\ n.tab = b /\ n.with = jar /\ n.who = NoLogin
  BY NothingTyped DEF CallRecord
<1> HIDE DEF n
<1>4. /\ asked \in [WebTask -> CallRecord]
      /\ \A o \in WebTask : /\ asked[o].pc = webTask[o].pc /\ asked[o].kind = webTask[o].kind /\ asked[o].tab = webTask[o].tab
                            /\ asked[o].with = webTask[o].with /\ asked[o].who = webTask[o].who
                            /\ asked[o].current => webTask[o].current
                            /\ kind = "logout" /\ Of(o) => ~asked[o].current
 <2>1. CASE kind = "logout" BY <2>1, OutdatedCalls
 <2>2. CASE kind # "logout" BY <2>2
 <2> QED BY <2>1, <2>2
<1> HIDE DEF asked
<1>5. /\ webTask' \in [WebTask -> CallRecord] /\ webTask'[t] = n
      /\ \A o \in WebTask : o # t =>
             /\ webTask'[o].pc = webTask[o].pc /\ webTask'[o].kind = webTask[o].kind /\ webTask'[o].tab = webTask[o].tab
             /\ webTask'[o].with = webTask[o].with /\ webTask'[o].who = webTask[o].who
             /\ webTask'[o].current => webTask[o].current
             /\ kind = "logout" /\ Of(o) => ~webTask'[o].current
  BY <1>1, <1>3, <1>4
<1>6. /\ strayed \subseteq strayed' /\ strayed' \subseteq Tab
      /\ strayed' # Tab => /\ strayed # Tab
                           /\ kind \in {"login", "save"} =>
                                  /\ \A a \in Tab : refreshing[a].pc = "none"
                                  /\ \A o \in WebTask : o # t => ~Writes(o) /\ ~Does(o, "logout")
  BY <1>1 DEF Overlaps, Writes, Does
<1>7. \A k \in CookieRecord : (Known(k)' <=> Known(k)) /\ (Newest(k)' <=> Newest(k)) BY <1>1 DEF Known, Newest
<1>8. WebShaped' BY <1>1, <1>3, <1>5, <1>6
<1>9. NamedExist' BY <1>1, <1>3, <1>5 DEF NamedExist, Exists
<1>10. OneWriter' BY <1>1, <1>3, <1>5, <1>6 DEF OneWriter, Writes, Does
<1>11. NewestArrives'
 <2>1. Coming => Coming' BY <1>1, <1>3, <1>5 DEF Coming, Does
 <2>2. \A o \in WebTask : Writes(o)' /\ webTask'[o].pc = "ok" => Writes(o) /\ webTask[o].pc = "ok" /\ webTask'[o].with = webTask[o].with
   BY <1>1, <1>3, <1>5 DEF Writes, Does
 <2> QED BY <1>1, <1>6, <1>7, <2>1, <2>2 DEF NewestArrives, Brings, CallRecord, RefreshRecord
<1>12. NobodyIsGone'
 <2>1. Gone => Gone' BY <1>1, <1>3, <1>5, <1>7 DEF Gone, CallRecord, RefreshRecord
 <2>2. \A a \in Tab : LoggedOut(a)' => LoggedOut(a) BY <1>1, <1>3, <1>5 DEF LoggedOut, Does
 <2> QED BY <1>1, <1>6, <2>1, <2>2 DEF NobodyIsGone
<1>13. LateAnswersAreOld'
 <2> SUFFICES ASSUME NEW a \in Tab \ strayed', NEW o \in WebTask, webTask'[o].pc # "idle", webTask'[o].tab = a
              PROVE  /\ Leaves(a)' /\ webTask'[o].kind \in {"save", "check"} => ~webTask'[o].current
                     /\ webTask'[o].kind = "login" =>
                            /\ a \in ended
                            /\ ~\E p \in WebTask : Does(p, "logout")' /\ webTask'[p].tab = a
   BY <1>1 DEF LateAnswersAreOld
 <2>1. a \in Tab \ strayed /\ strayed' # Tab BY <1>6
 <2>2. a \in ended <=> shown[a] = NoLogin BY <2>1 DEF NobodyIsGone
 <2>3. CASE o = t BY <1>1, <1>3, <1>5, <1>6, <2>1, <2>2, <2>3 DEF Leaves, Does
 <2>4. CASE o # t
  <3>1. webTask[o].pc # "idle" /\ webTask[o].tab = a BY <1>5, <2>4
  <3>2. CASE kind = "logout" /\ a = b BY <1>2, <1>3, <1>5, <2>1, <2>4, <3>1, <3>2 DEF LateAnswersAreOld
  <3>3. CASE ~(kind = "logout" /\ a = b)
   <4>1. \A p \in WebTask : Does(p, "logout")' /\ webTask'[p].tab = a => Does(p, "logout") /\ webTask[p].tab = a
     BY <1>3, <1>5, <3>3 DEF Does
   <4>2. Leaves(a)' => Leaves(a) BY <1>1, <4>1 DEF Leaves
   <4> QED BY <1>5, <2>1, <2>4, <3>1, <4>1, <4>2 DEF LateAnswersAreOld
  <3> QED BY <3>2, <3>3
 <2> QED BY <2>3, <2>4
<1>14. ShownIsCarried'
 <2> SUFFICES ASSUME NEW a \in Tab \ strayed', a \notin ended
              PROVE  /\ jar.session = shown[a]
                     /\ \A k \in Tab : (Brings(k) \/ Known(refreshing[k].with))' => refreshing[k].with.session = shown[a]
                     /\ \A o \in WebTask :
                            /\ (Moves(o) \/ (webTask[o].kind # "login" /\ Known(webTask[o].with)))' => webTask'[o].with.session = shown[a]
                            /\ webTask'[o].pc = "ok" /\ webTask'[o].tab = a /\ webTask'[o].kind \in {"save", "check"} /\ webTask'[o].current =>
                                   webTask'[o].who = shown[a]
   BY <1>1 DEF ShownIsCarried
 <2>1. a \in Tab \ strayed BY <1>6
 <2>2. jar.session = shown[a] /\ \A k \in Tab : (Brings(k) \/ Known(refreshing[k].with))' => refreshing[k].with.session = shown[a]
   BY <1>1, <1>7, <2>1 DEF ShownIsCarried, Brings, RefreshRecord
 <2>3. \A o \in WebTask : o # t =>
           /\ (Moves(o) \/ (webTask[o].kind # "login" /\ Known(webTask[o].with)))' => webTask'[o].with.session = shown[a]
           /\ webTask'[o].pc = "ok" /\ webTask'[o].tab = a /\ webTask'[o].kind \in {"save", "check"} /\ webTask'[o].current =>
                  webTask'[o].who = shown[a]
   BY <1>5, <1>7, <2>1 DEF ShownIsCarried, Moves, Does, CallRecord
 <2> QED BY <1>3, <1>5, <2>2, <2>3
<1>15. BootsAlone' BY <1>1, <1>2, <1>3, <1>5, <1>6 DEF BootsAlone, Does
<1> QED BY <1>8, <1>9, <1>10, <1>11, <1>12, <1>13, <1>14, <1>15

\* A user is shown again as whom the tab shows already, if the tab still waits for it.
LEMMA CheckSucceedsKeeps ==
    ASSUME WebIInv, NEW t \in WebTask, CallSucceeds(t), webTask[t].kind \in {"use", "boot", "check"}
    PROVE  WebIInv'
<1> USE DEF WebIInv, WebShaped
<1> DEFINE b == webTask[t].tab
           r == webTask[t]
<1>1. /\ r.pc = "ok" /\ b \in Tab /\ Returns(t) /\ webSession' = webSession /\ jar' = jar /\ refreshing' = refreshing /\ strayed' = strayed
  BY DEF CallSucceeds, Returns, Comes
<1>2. r.kind # "use" => r.who \in Login /\ r.who # NoLogin
  BY <1>1, WebSessionAssumption DEF NamedExist, CallRecord
<1>3. CASE r.kind = "use"
 <2>1. shown' = shown /\ ended' = ended BY <1>3 DEF CallSucceeds
 <2> QED BY <1>1, <1>3, <2>1, ReturnKeeps
<1>4. CASE r.kind = "boot"
 <2>1. shown' = [shown EXCEPT ![b] = r.who] /\ ended' = ended \ {b} BY <1>4 DEF CallSucceeds
 <2>2. b \in strayed BY <1>1, <1>4 DEF BootsAlone, Does
 <2>3. \A o \in WebTask : o # t /\ Does(o, "boot") => shown'[webTask[o].tab] = shown[webTask[o].tab]
   BY <1>1, <1>4, <2>1 DEF BootsAlone, Does
 <2>4. shown' \in [Tab -> Login \cup {NoLogin}] BY <1>2, <1>4, <2>1
 <2> QED BY <1>1, <1>4, <2>1, <2>2, <2>3, <2>4, ReturnKeeps
<1>5. CASE r.kind = "check"
 <2>1. shown' = (IF r.current THEN [shown EXCEPT ![b] = r.who] ELSE shown) /\ ended' = ended
   BY <1>5 DEF CallSucceeds, Accepts
 <2>2. b \notin strayed /\ r.current => r.who = shown[b]
   BY <1>1, <1>5 DEF ShownIsCarried, LateAnswersAreOld, Leaves
 <2>3. \A o \in WebTask : o # t /\ Does(o, "boot") => shown'[webTask[o].tab] = shown[webTask[o].tab]
   BY <1>1, <1>5, <2>1 DEF BootsAlone, Does
 <2>4. shown' \in [Tab -> Login \cup {NoLogin}] BY <1>2, <1>5, <2>1
 <2>5. \A a \in Tab \ strayed : shown'[a] = shown[a] BY <1>1, <2>1, <2>2
 <2> QED BY <1>1, <1>5, <2>1, <2>3, <2>4, <2>5, ReturnKeeps
<1> QED BY <1>3, <1>4, <1>5

\* The newest credential comes to the jar with the session it had.
LEMMA SaveSucceedsKeeps ==
    ASSUME WebIInv, NEW t \in WebTask, CallSucceeds(t), webTask[t].kind = "save"
    PROVE  WebIInv'
<1> USE DEF WebIInv, WebShaped
<1> DEFINE b == webTask[t].tab
           r == webTask[t]
           c == webTask[t].with
<1>1. /\ r.pc = "ok" /\ r.kind = "save" /\ b \in Tab /\ c \in CookieRecord /\ jar' = c
      /\ webTask' = [webTask EXCEPT ![t] = NoWebTask]
      /\ shown' = IF r.current THEN [shown EXCEPT ![b] = r.who] ELSE shown
      /\ webSession' = webSession /\ refreshing' = refreshing /\ ended' = ended /\ strayed' = strayed
  BY DEF CallSucceeds, Accepts, CallRecord
<1>2. r.who \in Login /\ r.who # NoLogin /\ c.session = r.who
  BY <1>1, WebSessionAssumption DEF NamedExist, CallRecord
<1>3. /\ \A a \in Tab \ strayed : shown'[a] = shown[a]
      /\ shown' \in [Tab -> Login \cup {NoLogin}]
 <2>1. b \notin strayed /\ r.current => r.who = shown[b] BY <1>1 DEF ShownIsCarried, LateAnswersAreOld, Leaves
 <2> QED BY <1>1, <1>2, <2>1
<1>4. /\ webTask' \in [WebTask -> CallRecord] /\ webTask'[t] = NoWebTask
      /\ \A o \in WebTask : o # t => webTask'[o] = webTask[o]
      /\ NoWebTask.pc = "idle" /\ NoWebTask.with = NoCookies /\ NoWebTask.who = NoLogin
      /\ ~Known(NoCookies) /\ NoCookies.session = NoLogin
  BY <1>1, NothingTyped
<1>5. \A k \in CookieRecord : (Known(k)' <=> Known(k)) /\ (Newest(k)' <=> Newest(k)) BY <1>1 DEF Known, Newest
<1>6. NoCookies \in CookieRecord BY NothingTyped
<1>7. WebShaped' BY <1>1, <1>3, <1>4
<1>8. NamedExist' BY <1>1, <1>4 DEF NamedExist, Exists
<1>9. OneWriter' BY <1>1, <1>4 DEF OneWriter, Writes, Does
<1>10. NewestArrives'
 <2> SUFFICES ASSUME strayed # Tab
              PROVE  /\ \A a \in Tab : ~Brings(a)'
                     /\ \A o \in WebTask : ~Writes(o)'
                     /\ Newest(jar)'
   BY <1>1 DEF NewestArrives
 <2>1. \A a \in Tab : ~Brings(a)' BY <1>1 DEF OneWriter, Writes, Does, Brings
 <2>2. \A o \in WebTask : ~Writes(o)' BY <1>1, <1>4 DEF OneWriter, Writes, Does
 <2>3. Newest(c) BY <1>1 DEF NewestArrives, Writes, Does
 <2> QED BY <1>1, <1>5, <2>1, <2>2, <2>3
<1>11. NobodyIsGone'
 <2>1. Gone => Gone' BY <1>1, <1>4, <1>5, <1>6 DEF Gone, CallRecord, RefreshRecord
 <2>2. \A a \in Tab : LoggedOut(a)' => LoggedOut(a) BY <1>1, <1>4 DEF LoggedOut, Does
 <2> QED BY <1>1, <1>3, <2>1, <2>2 DEF NobodyIsGone
<1>12. LateAnswersAreOld' BY <1>1, <1>4 DEF LateAnswersAreOld, Leaves, Does
<1>13. ShownIsCarried'
 <2> SUFFICES ASSUME NEW a \in Tab \ strayed, a \notin ended
              PROVE  /\ c.session = shown[a]
                     /\ \A k \in Tab : Brings(k) \/ Known(refreshing[k].with) => refreshing[k].with.session = shown[a]
                     /\ \A o \in WebTask :
                            /\ (Moves(o) \/ (webTask[o].kind # "login" /\ Known(webTask[o].with)))' => webTask'[o].with.session = shown[a]
                            /\ webTask'[o].pc = "ok" /\ webTask'[o].tab = a /\ webTask'[o].kind \in {"save", "check"} /\ webTask'[o].current =>
                                   webTask'[o].who = shown[a]
   BY <1>1, <1>3, <1>5 DEF ShownIsCarried, Brings, RefreshRecord
 <2>1. c.session = shown[a] BY <1>1 DEF ShownIsCarried, Moves, Does
 <2>2. \A k \in Tab : Brings(k) \/ Known(refreshing[k].with) => refreshing[k].with.session = shown[a]
   BY DEF ShownIsCarried
 <2>3. \A o \in WebTask : o # t =>
           /\ (Moves(o) \/ (webTask[o].kind # "login" /\ Known(webTask[o].with)))' => webTask'[o].with.session = shown[a]
           /\ webTask'[o].pc = "ok" /\ webTask'[o].tab = a /\ webTask'[o].kind \in {"save", "check"} /\ webTask'[o].current =>
                  webTask'[o].who = shown[a]
   BY <1>4, <1>5 DEF ShownIsCarried, Moves, Does, CallRecord
 <2>4. ~Moves(t)' /\ ~Known(webTask[t].with)' /\ webTask'[t].pc = "idle" BY <1>4, <1>5, <1>6 DEF Moves, Does
 <2> QED BY <2>1, <2>2, <2>3, <2>4
<1>14. BootsAlone' BY <1>1, <1>4 DEF BootsAlone, Does
<1> QED BY <1>7, <1>8, <1>9, <1>10, <1>11, <1>12, <1>13, <1>14

\* Who logged out is shown nowhere that the logout has not misled, and leaves nothing behind.
LEMMA LogoutSucceedsKeeps ==
    ASSUME WebIInv, NEW t \in WebTask, CallSucceeds(t), webTask[t].kind = "logout"
    PROVE  WebIInv'
<1> USE DEF WebIInv, WebShaped
<1> DEFINE b == webTask[t].tab
<1>1. /\ webTask[t].pc = "ok" /\ b \in Tab /\ jar' = NoCookies
      /\ webTask' = [webTask EXCEPT ![t] = NoWebTask]
      /\ shown' = [shown EXCEPT ![b] = NoLogin] /\ ended' = ended \cup {b} /\ strayed' = strayed \cup (Tab \ {b})
      /\ webSession' = webSession /\ refreshing' = refreshing
  BY DEF CallSucceeds
<1>2. /\ webTask' \in [WebTask -> CallRecord] /\ webTask'[t] = NoWebTask
      /\ \A o \in WebTask : o # t => webTask'[o] = webTask[o]
      /\ NoWebTask.pc = "idle" /\ NoWebTask.with = NoCookies /\ NoWebTask.who = NoLogin
      /\ NoCookies \in CookieRecord /\ NoCookies.session = NoLogin /\ ~Known(NoCookies)
  BY <1>1, NothingTyped
<1>3. /\ strayed' \subseteq Tab /\ strayed \subseteq strayed'
      /\ strayed' # Tab => strayed # Tab
      /\ \A a \in Tab \ strayed' : a = b /\ a \notin strayed
  BY <1>1
<1>4. \A k \in CookieRecord : (Known(k)' <=> Known(k)) /\ (Newest(k)' <=> Newest(k)) BY <1>1 DEF Known, Newest
<1>5. WebShaped' BY <1>1, <1>2, <1>3
<1>6. NamedExist' BY <1>1, <1>2 DEF NamedExist, Exists
<1>7. OneWriter' BY <1>1, <1>2, <1>3 DEF OneWriter, Writes, Does
<1>8. NewestArrives'
 <2>1. Newest(jar)' BY <1>1, <1>2, <1>4 DEF Newest
 <2>2. \A o \in WebTask : Writes(o)' => Writes(o) /\ webTask'[o] = webTask[o] BY <1>2 DEF Writes, Does
 <2> QED BY <1>1, <1>3, <1>4, <2>1, <2>2 DEF NewestArrives, Brings, CallRecord, RefreshRecord
<1>9. NobodyIsGone'
 <2>1. b \in Tab \ strayed => Gone BY <1>1 DEF NobodyIsGone, LoggedOut, Does
 <2>2. Gone => Gone' BY <1>1, <1>2, <1>4 DEF Gone, CallRecord, RefreshRecord
 <2> QED BY <1>1, <1>3, <2>1, <2>2 DEF NobodyIsGone
<1>10. LateAnswersAreOld'
 <2> SUFFICES ASSUME b \notin strayed, NEW o \in WebTask, o # t, webTask[o].pc # "idle", webTask[o].tab = b
              PROVE  /\ webTask[o].kind \in {"save", "check"} => ~webTask[o].current
                     /\ webTask[o].kind # "login"
   BY <1>1, <1>2, <1>3 DEF LateAnswersAreOld
 <2>1. Leaves(b) /\ Does(t, "logout") BY <1>1 DEF Leaves, Does
 <2> QED BY <1>1, <2>1 DEF LateAnswersAreOld
<1>11. ShownIsCarried' BY <1>1, <1>3 DEF ShownIsCarried
<1>12. BootsAlone' BY <1>1, <1>2, <1>3 DEF BootsAlone, Does
<1> QED BY <1>5, <1>6, <1>7, <1>8, <1>9, <1>10, <1>11, <1>12

\* A login that nothing overlapped brings the only credential that authorises anything.
LEMMA LoginSucceedsKeeps ==
    ASSUME WebIInv, NEW t \in WebTask, CallSucceeds(t), webTask[t].kind = "login"
    PROVE  WebIInv'
<1> USE DEF WebIInv, WebShaped
<1>0. PICK b \in Tab : b = webTask[t].tab BY DEF CallSucceeds
<1> DEFINE c == webTask[t].with
           who == webTask[t].who
           asked == Outdated(webTask, b)
<1>1. /\ webTask[t].pc = "ok" /\ webTask[t].tab = b /\ c \in CookieRecord /\ jar' = c
      /\ webTask' = [asked EXCEPT ![t] = NoWebTask]
      /\ shown' = [shown EXCEPT ![b] = who] /\ ended' = ended \ {b} /\ strayed' = strayed \cup (Tab \ {b})
      /\ webSession' = webSession /\ refreshing' = refreshing
  BY <1>0 DEF CallSucceeds, CallRecord
<1>2. who \in Login /\ who # NoLogin /\ c.session = who BY <1>1, WebSessionAssumption DEF NamedExist, CallRecord
<1>3. /\ asked \in [WebTask -> CallRecord]
      /\ \A o \in WebTask : /\ asked[o].pc = webTask[o].pc /\ asked[o].kind = webTask[o].kind /\ asked[o].tab = webTask[o].tab
                            /\ asked[o].with = webTask[o].with /\ asked[o].who = webTask[o].who
                            /\ webTask[o].pc # "idle" /\ webTask[o].tab = b => ~asked[o].current
  BY <1>1, OutdatedCalls
<1> HIDE DEF asked
<1>4. /\ webTask' \in [WebTask -> CallRecord] /\ webTask'[t] = NoWebTask
      /\ \A o \in WebTask : o # t =>
             /\ webTask'[o].pc = webTask[o].pc /\ webTask'[o].kind = webTask[o].kind /\ webTask'[o].tab = webTask[o].tab
             /\ webTask'[o].with = webTask[o].with /\ webTask'[o].who = webTask[o].who
             /\ webTask[o].pc # "idle" /\ webTask[o].tab = b => ~webTask'[o].current
      /\ NoWebTask.pc = "idle" /\ NoWebTask.with = NoCookies /\ NoWebTask.who = NoLogin
      /\ NoCookies \in CookieRecord /\ NoCookies.session = NoLogin /\ ~Known(NoCookies)
  BY <1>1, <1>3, NothingTyped
<1>5. /\ strayed' \subseteq Tab
      /\ strayed' # Tab => strayed # Tab
      /\ \A a \in Tab \ strayed' : a = b /\ a \notin strayed
  BY <1>1
<1>6. \A k \in CookieRecord : (Known(k)' <=> Known(k)) /\ (Newest(k)' <=> Newest(k)) BY <1>1 DEF Known, Newest
<1>7. strayed # Tab => /\ \A a \in Tab : refreshing[a].pc = "none"
                       /\ \A o \in WebTask : o # t => ~Writes(o)
                       /\ Newest(c)
 <2>1. Writes(t) /\ webTask[t].pc = "ok" BY <1>1 DEF Writes, Does
 <2> QED BY <2>1 DEF OneWriter, Does, NewestArrives
<1>8. b \notin strayed => /\ b \in ended /\ Gone
                          /\ ~\E o \in WebTask : Does(o, "logout") /\ webTask[o].tab = b
  BY <1>1 DEF LateAnswersAreOld, NobodyIsGone, LoggedOut
<1>9. WebShaped' BY <1>1, <1>2, <1>4, <1>5
<1>10. NamedExist' BY <1>1, <1>4 DEF NamedExist, Exists
<1>11. OneWriter' BY <1>1, <1>4, <1>5, <1>7 DEF OneWriter, Writes, Does
<1>12. NewestArrives' BY <1>1, <1>4, <1>5, <1>6, <1>7 DEF NewestArrives, Brings, Writes, Does
<1>13. NobodyIsGone'
 <2> SUFFICES ASSUME b \notin strayed
              PROVE  ~LoggedOut(b)'
   BY <1>1, <1>2, <1>5 DEF NobodyIsGone
 <2> QED BY <1>1, <1>4, <1>5, <1>7, <1>8 DEF LoggedOut, Does
<1>14. LateAnswersAreOld'
 <2> SUFFICES ASSUME b \notin strayed, NEW o \in WebTask, o # t, webTask[o].pc # "idle", webTask[o].tab = b
              PROVE  webTask[o].kind # "login" /\ ~webTask'[o].current
   BY <1>1, <1>4, <1>5 DEF LateAnswersAreOld
 <2>1. strayed # Tab BY <1>1
 <2> QED BY <1>4, <1>7, <2>1 DEF Writes, Does
<1>15. ShownIsCarried'
 <2> SUFFICES ASSUME b \notin strayed
              PROVE  /\ c.session = who
                     /\ \A k \in Tab : ~(Brings(k) \/ Known(refreshing[k].with))'
                     /\ \A o \in WebTask :
                            /\ ~(Moves(o) \/ (webTask[o].kind # "login" /\ Known(webTask[o].with)))'
                            /\ webTask'[o].pc = "ok" /\ webTask'[o].tab = b => ~webTask'[o].current
   BY <1>1, <1>5 DEF ShownIsCarried
 <2>1. strayed # Tab OBVIOUS
 <2>2. \A k \in Tab : ~(Brings(k) \/ Known(refreshing[k].with))'
   BY <1>1, <1>6, <1>7, <1>8, <2>1 DEF Gone, Brings, RefreshRecord
 <2>3. \A o \in WebTask : o # t => /\ ~(Moves(o) \/ (webTask[o].kind # "login" /\ Known(webTask[o].with)))'
                                   /\ webTask'[o].pc = "ok" /\ webTask'[o].tab = b => ~webTask'[o].current
   BY <1>1, <1>4, <1>6, <1>7, <1>8, <2>1 DEF Gone, Moves, Writes, Does, CallRecord
 <2>4. ~Moves(t)' /\ ~Known(webTask[t].with)' /\ webTask'[t].pc = "idle" BY <1>4, <1>6 DEF Moves, Does
 <2> QED BY <1>2, <2>2, <2>3, <2>4
<1>16. BootsAlone' BY <1>1, <1>4, <1>5 DEF BootsAlone, Does
<1> QED BY <1>9, <1>10, <1>11, <1>12, <1>13, <1>14, <1>15, <1>16

\* What the tab's calls learn of its refresh.
LEMMA AnsweredCalls ==
    ASSUME WebIInv, NEW b \in Tab, RefreshAnswered(b)
    PROVE  LET r == refreshing[b] IN
           /\ webTask' \in [WebTask -> CallRecord]
           /\ \A o \in WebTask :
                  /\ webTask'[o].kind = webTask[o].kind /\ webTask'[o].tab = webTask[o].tab /\ webTask'[o].who = webTask[o].who
                  /\ webTask'[o].current => webTask[o].current
                  /\ r.pc = "invalid" /\ webTask[o].pc # "idle" /\ webTask[o].tab = b => ~webTask'[o].current
                  /\ \/ webTask'[o].pc = webTask[o].pc /\ webTask'[o].with = webTask[o].with
                     \/ /\ webTask[o].pc = "refresh" /\ r.pc = "ok"
                        /\ webTask'[o].pc = "sent" /\ webTask'[o].with = r.with
                     \/ /\ webTask[o].pc = "refresh" /\ webTask'[o].pc = "refused" /\ webTask'[o].with = webTask[o].with
<1> USE DEF WebIInv, WebShaped
<1> DEFINE r == refreshing[b]
           waits(o) == webTask[o].pc = "refresh" /\ webTask[o].tab = b
           after(o) == IF r.pc = "ok" THEN [webTask[o] EXCEPT !.pc = "sent", !.retried = TRUE, !.with = r.with]
                       ELSE [webTask[o] EXCEPT !.pc = "refused", !.retried = TRUE]
           answered == [o \in WebTask |-> IF waits(o) THEN after(o) ELSE webTask[o]]
<1>1. webTask' = IF r.pc = "invalid" THEN Outdated(answered, b) ELSE answered
 <2>1. answered = [o \in WebTask |-> IF o \in CallsOf(b) /\ webTask[o].pc = "refresh" THEN after(o) ELSE webTask[o]]
   BY DEF CallsOf
 <2> HIDE DEF answered
 <2> QED BY <2>1 DEF RefreshAnswered
<1>2. \A o \in WebTask :
          /\ after(o) \in CallRecord
          /\ after(o).kind = webTask[o].kind /\ after(o).tab = webTask[o].tab /\ after(o).who = webTask[o].who
          /\ after(o).current = webTask[o].current
          /\ IF r.pc = "ok" THEN after(o).pc = "sent" /\ after(o).with = r.with
             ELSE after(o).pc = "refused" /\ after(o).with = webTask[o].with
 <2> TAKE o \in WebTask
 <2> DEFINE old == webTask[o]
            c == r.with
            again == [old EXCEPT !.pc = "sent", !.retried = TRUE, !.with = c]
            refused == [old EXCEPT !.pc = "refused", !.retried = TRUE]
 <2>1. old \in CallRecord /\ c \in CookieRecord BY DEF RefreshRecord
 <2>2. after(o) = IF r.pc = "ok" THEN again ELSE refused OBVIOUS
 <2> HIDE DEF old, c, after
 <2>3. /\ again \in CallRecord /\ again.kind = old.kind /\ again.tab = old.tab /\ again.who = old.who
       /\ again.current = old.current /\ again.pc = "sent" /\ again.with = c
   BY <2>1 DEF CallRecord
 <2>4. /\ refused \in CallRecord /\ refused.kind = old.kind /\ refused.tab = old.tab /\ refused.who = old.who
       /\ refused.current = old.current /\ refused.pc = "refused" /\ refused.with = old.with
   BY <2>1 DEF CallRecord
 <2> HIDE DEF again, refused
 <2> QED BY <2>2, <2>3, <2>4 DEF old, c
<1> HIDE DEF after
<1>3. /\ answered \in [WebTask -> CallRecord]
      /\ \A o \in WebTask :
             /\ answered[o].kind = webTask[o].kind /\ answered[o].tab = webTask[o].tab /\ answered[o].who = webTask[o].who
             /\ answered[o].current = webTask[o].current
             /\ \/ answered[o].pc = webTask[o].pc /\ answered[o].with = webTask[o].with
                \/ /\ webTask[o].pc = "refresh" /\ r.pc = "ok"
                   /\ answered[o].pc = "sent" /\ answered[o].with = r.with
                \/ /\ webTask[o].pc = "refresh" /\ answered[o].pc = "refused" /\ answered[o].with = webTask[o].with
  BY <1>2
<1> HIDE DEF answered
<1>4. CASE r.pc = "invalid"
 <2> DEFINE asked == Outdated(answered, b)
 <2>1. /\ asked \in [WebTask -> CallRecord]
       /\ \A o \in WebTask : /\ asked[o].pc = answered[o].pc /\ asked[o].kind = answered[o].kind /\ asked[o].tab = answered[o].tab
                             /\ asked[o].with = answered[o].with /\ asked[o].who = answered[o].who
                             /\ asked[o].current => answered[o].current
                             /\ webTask[o].pc # "idle" /\ webTask[o].tab = b => ~asked[o].current
   BY <1>3, OutdatedCalls
 <2>2. webTask' = asked BY <1>1, <1>4
 <2> HIDE DEF asked
 <2> QED BY <1>3, <1>4, <2>1, <2>2
<1>5. CASE r.pc # "invalid"
 <2>1. webTask' = answered BY <1>1, <1>5
 <2> QED BY <1>3, <1>5, <2>1
<1> QED BY <1>4, <1>5

LEMMA RefreshAnsweredKeeps ==
    ASSUME WebIInv, NEW b \in Tab, RefreshAnswered(b)
    PROVE  WebIInv'
<1> USE DEF WebIInv, WebShaped
<1> DEFINE r == refreshing[b]
<1>1. /\ r.pc \in {"ok", "invalid", "failed"} /\ r \in RefreshRecord
      /\ refreshing' = [refreshing EXCEPT ![b] = NoRefresh]
      /\ jar' = (IF r.pc = "ok" THEN r.with ELSE jar)
      /\ shown' = (IF r.pc = "invalid" THEN [shown EXCEPT ![b] = NoLogin] ELSE shown)
      /\ ended' = (IF r.pc = "invalid" THEN ended \cup {b} ELSE ended)
      /\ webSession' = webSession /\ strayed' = strayed
  BY DEF RefreshAnswered
<1>2. /\ webTask' \in [WebTask -> CallRecord]
      /\ \A o \in WebTask :
             /\ webTask'[o].kind = webTask[o].kind /\ webTask'[o].tab = webTask[o].tab /\ webTask'[o].who = webTask[o].who
             /\ webTask'[o].current => webTask[o].current
             /\ r.pc = "invalid" /\ webTask[o].pc # "idle" /\ webTask[o].tab = b => ~webTask'[o].current
             /\ \/ webTask'[o].pc = webTask[o].pc /\ webTask'[o].with = webTask[o].with
                \/ /\ webTask[o].pc = "refresh" /\ r.pc = "ok"
                   /\ webTask'[o].pc = "sent" /\ webTask'[o].with = r.with
                \/ /\ webTask[o].pc = "refresh" /\ webTask'[o].pc = "refused" /\ webTask'[o].with = webTask[o].with
  BY AnsweredCalls
<1>3. /\ refreshing' \in [Tab -> RefreshRecord] /\ refreshing'[b] = NoRefresh
      /\ \A a \in Tab : a # b => refreshing'[a] = refreshing[a]
      /\ NoRefresh.pc = "none" /\ NoRefresh.with = NoCookies
      /\ NoCookies \in CookieRecord /\ NoCookies.session = NoLogin /\ ~Known(NoCookies)
  BY <1>1, NothingTyped
<1>4. r.with \in CookieRecord BY <1>1 DEF RefreshRecord
<1>5. \A k \in CookieRecord : (Known(k)' <=> Known(k)) /\ (Newest(k)' <=> Newest(k)) BY <1>1 DEF Known, Newest
<1>6. \A o \in WebTask : /\ webTask'[o].pc = "idle" <=> webTask[o].pc = "idle"
                         /\ webTask'[o].pc = "ok" <=> webTask[o].pc = "ok"
                         /\ webTask'[o].with \in {webTask[o].with, r.with}
                         /\ webTask'[o].pc = "ok" => webTask'[o].with = webTask[o].with
  BY <1>2
<1>7. WebShaped' BY <1>1, <1>2, <1>3, <1>4, <1>6
<1>8. NamedExist' BY <1>1, <1>2, <1>3, <1>6, SMTT(30) DEF NamedExist, Exists
<1>9. OneWriter'
 <2> SUFFICES ASSUME strayed # Tab
              PROVE  /\ \A a \in Tab : refreshing'[a].pc = "none"
                     /\ \A s, t \in WebTask : Writes(s)' /\ Writes(t)' => s = t
   BY <1>1 DEF OneWriter
 <2>1. \A a \in Tab : refreshing'[a].pc = "none" BY <1>1, <1>3 DEF OneWriter
 <2>2. \A s, t \in WebTask : Writes(s)' /\ Writes(t)' => s = t BY <1>2, <1>6 DEF OneWriter, Writes, Does
 <2> QED BY <2>1, <2>2
<1>10. NewestArrives'
 <2> SUFFICES ASSUME strayed # Tab
              PROVE  /\ \A a \in Tab : ~Brings(a)'
                     /\ \A o \in WebTask : Writes(o)' /\ webTask'[o].pc = "ok" => Newest(webTask[o].with)'
                     /\ Newest(jar)' \/ Coming'
   BY <1>1 DEF NewestArrives
 <2>1. \A a \in Tab : ~Brings(a)' BY <1>1, <1>3 DEF OneWriter, Brings
 <2>2. \A o \in WebTask : Writes(o)' /\ webTask'[o].pc = "ok" => Newest(webTask[o].with)'
   BY <1>2, <1>5, <1>6 DEF NewestArrives, Writes, Does, CallRecord
 <2>3. r.pc = "ok" => Newest(jar)' BY <1>1, <1>4, <1>5 DEF NewestArrives, Brings
 <2>4. r.pc # "ok" => Newest(jar)' \/ Coming'
  <3>1. r.pc # "ok" /\ Coming => Coming' BY <1>1, <1>2, <1>3, <1>6 DEF Coming, Does
  <3> QED BY <1>1, <1>5, <3>1 DEF NewestArrives
 <2> QED BY <2>1, <2>2, <2>3, <2>4
<1>11. NobodyIsGone'
 <2>1. Gone => Gone'
  <3> SUFFICES ASSUME Gone
               PROVE  Gone'
    OBVIOUS
  <3>1. ~Known(r.with) /\ ~Known(jar)' /\ \A a \in Tab : ~Known(refreshing[a].with)'
    BY <1>1, <1>3, <1>4, <1>5 DEF Gone, RefreshRecord
  <3>2. \A o \in WebTask : webTask'[o].kind # "login" => ~Known(webTask[o].with)'
    BY <1>2, <1>4, <1>5, <1>6, <3>1 DEF Gone, CallRecord
  <3> QED BY <3>1, <3>2 DEF Gone
 <2>2. \A a \in Tab : LoggedOut(a)' => LoggedOut(a) BY <1>1, <1>2, <1>3, <1>6 DEF LoggedOut, Does
 <2> QED BY <1>1, <2>1, <2>2 DEF NobodyIsGone
<1>12. LateAnswersAreOld'
 <2> SUFFICES ASSUME NEW a \in Tab \ strayed, NEW o \in WebTask, webTask[o].pc # "idle", webTask[o].tab = a
              PROVE  /\ Leaves(a)' /\ webTask'[o].kind \in {"save", "check"} => ~webTask'[o].current
                     /\ webTask'[o].kind = "login" =>
                            /\ a \in ended'
                            /\ ~\E p \in WebTask : Does(p, "logout")' /\ webTask'[p].tab = a
   BY <1>1, <1>2, <1>6 DEF LateAnswersAreOld
 <2>1. \A p \in WebTask : Does(p, "logout")' /\ webTask'[p].tab = a => Does(p, "logout") /\ webTask[p].tab = a
   BY <1>2, <1>6 DEF Does
 <2>2. webTask[o].kind = "login" =>
           a \in ended' /\ ~\E p \in WebTask : Does(p, "logout")' /\ webTask'[p].tab = a
   BY <1>1, <2>1 DEF LateAnswersAreOld
 <2>3. CASE r.pc = "invalid" /\ a = b BY <1>2, <2>2, <2>3
 <2>4. CASE ~(r.pc = "invalid" /\ a = b)
  <3>1. Leaves(a)' => Leaves(a) BY <1>1, <2>1, <2>4 DEF Leaves
  <3> QED BY <1>2, <2>2, <3>1 DEF LateAnswersAreOld
 <2> QED BY <2>3, <2>4
<1>13. ShownIsCarried'
 <2> SUFFICES ASSUME NEW a \in Tab \ strayed, a \notin ended'
              PROVE  /\ jar'.session = shown[a]
                     /\ \A k \in Tab : (Brings(k) \/ Known(refreshing[k].with))' => refreshing'[k].with.session = shown[a]
                     /\ \A o \in WebTask :
                            /\ (Moves(o) \/ (webTask[o].kind # "login" /\ Known(webTask[o].with)))' => webTask'[o].with.session = shown[a]
                            /\ webTask'[o].pc = "ok" /\ webTask'[o].tab = a /\ webTask'[o].kind \in {"save", "check"} /\ webTask'[o].current =>
                                   webTask'[o].who = shown[a]
   BY <1>1 DEF ShownIsCarried
 <2>1. a \notin ended BY <1>1
 <2>2. r.pc = "ok" => r.with.session = shown[a] BY <2>1 DEF ShownIsCarried, Brings
 <2>3. jar'.session = shown[a] BY <1>1, <2>1, <2>2 DEF ShownIsCarried
 <2>4. \A k \in Tab : (Brings(k) \/ Known(refreshing[k].with))' => refreshing'[k].with.session = shown[a]
   BY <1>3, <1>5, <2>1 DEF ShownIsCarried, Brings, RefreshRecord
 <2>5. \A o \in WebTask : (Moves(o) \/ (webTask[o].kind # "login" /\ Known(webTask[o].with)))' => webTask'[o].with.session = shown[a]
   BY <1>2, <1>4, <1>5, <2>1, <2>2 DEF ShownIsCarried, Moves, Does, CallRecord
 <2>6. \A o \in WebTask : webTask'[o].pc = "ok" /\ webTask'[o].tab = a /\ webTask'[o].kind \in {"save", "check"} /\ webTask'[o].current =>
           webTask'[o].who = shown[a]
   BY <1>2, <1>6, <2>1 DEF ShownIsCarried
 <2> QED BY <2>3, <2>4, <2>5, <2>6
<1>14. BootsAlone' BY <1>1, <1>2, <1>6 DEF BootsAlone, Does
<1> QED BY <1>7, <1>8, <1>9, <1>10, <1>11, <1>12, <1>13, <1>14

LEMMA TabsStart == WebSessionInit => WebIInv
<1> SUFFICES ASSUME WebSessionInit
             PROVE  WebIInv
  OBVIOUS
<1>1. /\ webSession = [l \in Login |-> [state |-> "none", token |-> 0, version |-> 0]]
      /\ jar = NoCookies /\ shown = [b \in Tab |-> NoLogin]
      /\ refreshing = [b \in Tab |-> NoRefresh] /\ webTask = [t \in WebTask |-> NoWebTask]
      /\ ended = Tab /\ strayed = {}
  BY DEF WebSessionInit
<1> DEFINE row == [state |-> "none", token |-> 0, version |-> 0]
<1>2. row \in RowRecord /\ row.state = "none" /\ row.token = 0 BY DEF RowRecord
<1> HIDE DEF row
<1>3. webSession = [l \in Login |-> row] BY <1>1 DEF row
<1>4. /\ webSession \in [Login -> RowRecord]
      /\ \A l \in Login : webSession[l].state = "none" /\ webSession[l].token = 0
  BY <1>2, <1>3
<1>5. /\ NoCookies \in CookieRecord /\ NoCookies.session = NoLogin /\ ~Known(NoCookies)
      /\ NoWebTask \in CallRecord /\ NoWebTask.pc = "idle" /\ NoWebTask.kind = "use"
      /\ NoWebTask.with = NoCookies /\ NoWebTask.who = NoLogin
      /\ NoRefresh \in RefreshRecord /\ NoRefresh.pc = "none" /\ NoRefresh.with = NoCookies
  BY NothingTyped
<1>6. /\ \A t \in WebTask : webTask[t] = NoWebTask
      /\ \A b \in Tab : refreshing[b] = NoRefresh
      /\ webTask \in [WebTask -> CallRecord] /\ refreshing \in [Tab -> RefreshRecord]
      /\ shown \in [Tab -> Login \cup {NoLogin}] /\ \A b \in Tab : shown[b] = NoLogin
  BY <1>1, <1>5
<1>7. WebShaped BY <1>1, <1>4, <1>5, <1>6 DEF WebShaped
<1>8. NamedExist BY <1>1, <1>5, <1>6 DEF NamedExist, Exists
<1>9. OneWriter /\ LateAnswersAreOld /\ BootsAlone
  BY <1>1, <1>5, <1>6 DEF OneWriter, LateAnswersAreOld, BootsAlone, Writes, Does
<1>10. NewestArrives BY <1>1, <1>5, <1>6 DEF NewestArrives, Newest, Brings, Writes, Does
<1>11. NobodyIsGone BY <1>1, <1>5, <1>6 DEF NobodyIsGone, LoggedOut, Gone, Does
<1>12. ShownIsCarried BY <1>1 DEF ShownIsCarried
<1> QED BY <1>7, <1>8, <1>9, <1>10, <1>11, <1>12 DEF WebIInv

\* The tabs of a browser: while some tab is not misled, one writer at most is at work and the
\* newest credential is in the jar or on its way there; a tab that nobody misled shows the
\* user of the one session that may still authorise, or nobody once nothing does any more.
THEOREM TabsInductive == WebSessionSpec => []WebIInv
<1>1. WebIInv /\ WebSessionNext => WebIInv'
 <2> SUFFICES ASSUME WebIInv, WebSessionNext
              PROVE  WebIInv'
   OBVIOUS
 <2>1. ASSUME NEW t \in WebTask, NEW b \in Tab, NEW kind \in {"boot", "use", "save", "login", "logout"}, Call(t, b, kind)
       PROVE  WebIInv'
   BY <2>1, CallIssuedKeeps
 <2>2. ASSUME NEW t \in WebTask, ServeRead(t) \/ ServeLogin(t) \/ ServeLogout(t)
       PROVE  WebIInv'
   BY <2>2, ServeReadKeeps, ServeLoginKeeps, ServeLogoutKeeps
 <2>3. ASSUME NEW t \in WebTask, ServeSave(t)
       PROVE  WebIInv'
   BY <2>3, SaveServedKeeps
 <2>4. ASSUME NEW t \in WebTask, CallSucceeds(t)
       PROVE  WebIInv'
  <3>1. webTask[t].kind \in {"boot", "use", "save", "check", "login", "logout"}
    BY DEF WebIInv, WebShaped, CallRecord
  <3> QED BY <2>4, <3>1, CheckSucceedsKeeps, SaveSucceedsKeeps, LoginSucceedsKeeps, LogoutSucceedsKeeps
 <2>5. ASSUME NEW t \in WebTask, WaitsForRefresh(t) \/ Reconciles(t) \/ CallErrs(t)
       PROVE  WebIInv'
   BY <2>5, WaitsForRefreshKeeps, ReconcilesKeeps, CallErrsKeeps
 <2>6. ASSUME NEW b \in Tab, ServeRefresh(b) \/ RefreshFails(b) \/ RefreshAnswered(b)
       PROVE  WebIInv'
   BY <2>6, ServeRefreshKeeps, RefreshRefusedKeeps, RefreshFailsKeeps, RefreshAnsweredKeeps
 <2>7. ASSUME AccessExpires
       PROVE  WebIInv'
   BY <2>7, AccessExpiresKeeps
 <2>8. ASSUME NEW l \in Login, SessionDies(l)
       PROVE  WebIInv'
   BY <2>8, SessionDiesKeeps
 <2> QED BY <2>1, <2>2, <2>3, <2>4, <2>5, <2>6, <2>7, <2>8 DEF WebSessionNext
<1>2. WebIInv /\ UNCHANGED webVars => WebIInv'
 <2> SUFFICES ASSUME WebIInv, UNCHANGED webVars
              PROVE  WebIInv'
   OBVIOUS
 <2>1. /\ webSession' = webSession /\ jar' = jar /\ shown' = shown /\ refreshing' = refreshing /\ webTask' = webTask
       /\ ended' = ended /\ strayed' = strayed
   BY DEF webVars
 <2> QED
   BY <2>1, SMTT(30) DEF WebIInv, WebShaped, NamedExist, OneWriter, NewestArrives, NobodyIsGone, LateAnswersAreOld,
               ShownIsCarried, BootsAlone, Exists, Writes, Does, Moves, Brings, Newest, Known, Coming, Gone,
               LoggedOut, Leaves
<1> QED BY <1>1, <1>2, TabsStart, PTL DEF WebSessionSpec

\* TabShowsItsSession, of however many tabs, calls and logins: a tab that no other tab, lost
\* answer or overlap misled shows the user whose session the cookies are of, and nobody only
\* when no session is left that the cookies would authorise; nothing late shows a user again.
THEOREM TabsShowTheirSession == WebSessionSpec => []TabShowsItsSession
<1>1. WebIInv => TabShowsItsSession
  BY DEF WebIInv, NobodyIsGone, ShownIsCarried, LoggedOut, Gone, TabShowsItsSession
<1> QED BY <1>1, TabsInductive, PTL
=============================================================================
