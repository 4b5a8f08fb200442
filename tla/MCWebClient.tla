---------------------------- MODULE MCWebClient -----------------------------
(***************************************************************************)
(* Small instances of the web client: the tabs' session, the voice call of *)
(* a tab, its microphone, its connections, the wishes for its senders, its *)
(* audio output, the screen it presents, what it makes of another's media, *)
(* and its sounds. They share no variable, so the run explores one of them *)
(* per behaviour.                                                          *)
(***************************************************************************)
EXTENDS WebSession, VoiceClient, VoiceCapture, VoicePeers, CallTransport, AudioOutput,
        ScreenPresenter, RemoteMedia, SoundCues, TLC

\* x1 and x2 stand for two of a kind that may be exchanged: tabs, channels,
\* recordings, members or values; so do y1 and y2.
CONSTANTS x1, x2, y1, y2, z1, z2, u1, k1, k2, d1

VARIABLE focus

Components ==
    {"WebSession", "VoiceClient", "VoiceCapture", "VoicePeers", "CallTransport",
     "AudioOutput", "ScreenPresenter", "RemoteMedia", "SoundCues"}

MCInit ==
    /\ focus \in Components
    /\ WebSessionInit /\ VoiceClientInit /\ VoiceCaptureInit /\ VoicePeerInit
    /\ CallTransportInit /\ AudioOutputInit /\ ScreenPresenterInit
    /\ RemoteMediaInit /\ SoundCuesInit
    \* what an idle component starts with makes no difference
    /\ focus # "VoiceCapture" => preferred = "BROWSER"
    /\ focus # "CallTransport" => wish.rate = AUTO
    /\ effectiveProfile = [device |-> Usual, sfx |-> Usual, receive |-> Usual]
    /\ focus # "RemoteMedia" => current = NoScreen

\* Only the named component takes a step.
Only(name) ==
    /\ focus = name /\ UNCHANGED focus
    /\ IF name = "WebSession" THEN TRUE ELSE UNCHANGED webVars
    /\ IF name = "VoiceClient" THEN TRUE ELSE UNCHANGED voiceClientVars
    /\ IF name = "VoiceCapture" THEN TRUE ELSE UNCHANGED captureVars
    /\ IF name = "VoicePeers" THEN TRUE ELSE UNCHANGED peerVars
    /\ IF name = "CallTransport" THEN TRUE ELSE UNCHANGED transportVars
    /\ IF name = "AudioOutput" THEN TRUE ELSE UNCHANGED outputVars
    /\ IF name = "ScreenPresenter" THEN TRUE ELSE UNCHANGED screenVars
    /\ IF name = "RemoteMedia" THEN TRUE ELSE UNCHANGED remoteVars
    /\ IF name = "SoundCues" THEN TRUE ELSE UNCHANGED soundVars

Count(conditions) == Cardinality({i \in DOMAIN conditions : conditions[i]})
\* Sessions renewed or ended.
Aged == Cardinality({l \in Login : webSession[l].token > 0})
        + Cardinality({l \in Login : webSession[l].state = "dead"})
\* What keeps the microphone shut, and attempts under way.
Restricted == Count(<<memberMuted, granted # Capability, ~viewing>>)
Busy == Cardinality({t \in Attempt : attempt[t].pc # "idle"})
\* What else is under way.
Pending ==
    Cardinality({t \in Unmute : unmute[t].pc # "idle"})
    + Count(<<shownCall.isDeafened, Len(packets) + Len(inbox) = MaxQueue>>)
\* What rarely happens to a capture.
Unusual == Count(<<~known /\ mode # "idle", browserOnly, native.pc # "idle", waiting # {}>>)
\* What is out of the ordinary with the outputs: a device stands for a role's settings too.
Odd ==
    Count(<<picking, reconcile.newer, stray, effects # "none" \/ context["sfx"] # NoContext, lost # {},
            profile.device # Usual>>)
\* What is not as it usually is with another's media.
Besides ==
    Cardinality(hidden) + Cardinality(streamMuted) + Cardinality(unrendered)
    + Count(<<~callAllowed, voice # "call">>)
\* What is on its way to or from the tab.
UnderWay == Len(words) + Len(viewerWords) + Cardinality(coming) + BagCardinality(queries)

\* A history nobody's properties hold after is not explored any further.
MCVars ==
    <<focus, webVars, voiceClientVars, captureVars, peerVars, transportVars,
      outputVars, screenVars, remoteVars, soundVars>>

MCNext ==
    \/ Only("WebSession") /\ strayed # Tab /\ Aged <= 1 /\ WebSessionNext
    \/ Only("VoiceClient") /\ doubted = {} /\ Restricted + Busy + Pending <= 2 /\ VoiceClientNext
    \/ Only("VoiceCapture") /\ astray = {} /\ Unusual <= 1 /\ VoiceCaptureNext
    \/ Only("VoicePeers") /\ VoicePeerNext
    \/ Only("CallTransport") /\ ~slipped /\ ~unread /\ CallTransportNext
    \/ Only("AudioOutput") /\ ~outdated /\ Odd <= 2 /\ AudioOutputNext
    \/ Only("ScreenPresenter") /\ marred = {} /\ ScreenPresenterNext
    \/ Only("RemoteMedia") /\ ~crossedMedia /\ ~overtaken /\ Besides + UnderWay <= 3 /\ RemoteMediaNext
    \/ Only("SoundCues") /\ SoundCuesNext

MCSpec == MCInit /\ [][MCNext]_MCVars

Symmetry == Permutations({x1, x2}) \union Permutations({y1, y2})

\* The type of what is explored: the others stay as they start.
ClientTypeOK ==
    /\ focus = "WebSession" => WebSessionTypeOK
    /\ focus = "VoiceClient" => VoiceClientTypeOK
    /\ focus = "VoiceCapture" => VoiceCaptureTypeOK
    /\ focus = "VoicePeers" => VoicePeerTypeOK
    /\ focus = "CallTransport" => CallTransportTypeOK
    /\ focus = "AudioOutput" => AudioOutputTypeOK
    /\ focus = "ScreenPresenter" => ScreenPresenterTypeOK
    /\ focus = "RemoteMedia" => RemoteMediaTypeOK
    /\ focus = "SoundCues" => SoundTypeOK

\* When everything said has been heard, the tab and the gateway agree on the call it is in, on
\* its microphone and the screen it presents, and the tab plays what it watches of another's
\* media. When nothing is under way on the microphone and the outputs, the recording shown as
\* ready is what is sent and the output shown as applied is used. The sounds are timely all along.
CallSettles ==
    /\ VoiceSettles /\ ScreenSettles /\ RemoteMediaSettles
    /\ MicrophoneSettles /\ OutputSettles /\ CuesAreTimely
=============================================================================
