----------------------------- MODULE RemoteMedia -----------------------------
(***************************************************************************)
(* What a tab makes of the media another member of the call sends it: the  *)
(* voice, and the screen the member presents while the tab watches it      *)
(* (hooks/useVoice.ts), and what its playback lets be heard                *)
(* (lib/voicePlayback.ts). The gateway's events and the offers it relays   *)
(* arrive in order; the tracks of an offer arrive later, one by one.       *)
(* Whoever asks for the shares or the viewers is answered by a handler that*)
(* reads first and emits later, so an answer may be older than what was    *)
(* told before it. Watching and no longer watching are served at once here:*)
(* their steps are in ScreenShares.                                        *)
(*                                                                         *)
(* The voice comes first and once: it is on the connection from the start. *)
(* All of a share's screen is in one stream, whose name stays the same     *)
(* when the tab stops watching and watches again, with new tracks.         *)
(***************************************************************************)
EXTENDS Naturals, Sequences, Bags

CONSTANTS Screen,            \* shares the member may present, each once
          Sending,          \* times it may add a screen to the connection
          NoScreen, NoSending,
          MaxWords          \* bound: events on their way before another action

VARIABLES
    current, captured, watching,    \* the gateway's share and whether the tab watches it; the member picked a screen
    presented,                      \* shares so far
    viewerWords, viewerKnown,       \* what the member is told of the tab, and knows
    carries, sending, offered,      \* the share of each sending, the one on the connection, the one last offered
    queries,        \* the gateway's handlers of screen:share-state and screen:viewer-state
    words,                          \* to the tab: the gateway's events and the member's offers
    coming,                         \* tracks of the offer being applied
    shareOf, subscribed, hidden, streamMuted,   \* the tab: screenShareIdsByPresenterRef, subscribedShareIdsRef,
                                                \* hiddenScreenAudioShareIdsRef, streamAudioByShareIdRef
    voice, callAllowed, callPolicy, \* the voice's classification; what the listener allows, and what is applied
    audio,          \* per stream its audio element: the sending it plays, where it is kept, the share it is bound to
    streamShare, streamObject, screenStreams,   \* per stream: the share, the sending last seen, whether video came
    retired,        \* sendings never to be used again
    screenPolicy,   \* per share, whether its audio may be heard
    shownVideo,     \* the video shown (remoteScreenStreams)
    unrendered,     \* shares told to have stopped whose removal waits for the next render
    crossedMedia,   \* history: tracks of another visit to the share, or of another share, were taken
    overtaken       \* history: an answer was older than what had been told before it

remoteVars == <<current, captured, watching, presented, viewerWords, viewerKnown, carries, sending, offered, queries, words, coming,
                shareOf, subscribed, hidden, streamMuted, voice, callAllowed, callPolicy, audio, streamShare,
                streamObject, screenStreams, retired, screenPolicy, shownVideo, unrendered, crossedMedia, overtaken>>

NoAudio == [by |-> NoSending, kept |-> "nowhere", share |-> NoScreen]
Track(kind, i) == [kind |-> kind, by |-> i]
\* The tab asks for the shares and for what it watches; the member, for its viewers.
Unread(what) == SetToBag({[what |-> what, read |-> FALSE, of |-> {}]})

RemoteMediaTypeOK ==
    /\ {current, shareOf} \subseteq Screen \cup {NoScreen} /\ presented \cup subscribed \cup hidden \cup streamMuted \subseteq Screen
    /\ {sending, offered, shownVideo} \subseteq Sending \cup {NoSending} /\ retired \subseteq Sending
    /\ carries \in [Sending -> Screen \cup {NoScreen}]
    /\ {captured, watching, viewerKnown, callAllowed, crossedMedia, overtaken} \subseteq BOOLEAN
    /\ viewerWords \in Seq({"joined", "left"}) /\ coming \subseteq [kind : {"audio", "video"}, by : Sending]
    /\ \A w \in {words[i] : i \in DOMAIN words} :
          w.kind \in {"started", "stopped", "shares", "viewers", "viewerJoined", "viewerLeft", "offer"}
    /\ IsABag(queries)
    /\ BagToSet(queries) \subseteq [what : {"shares", "viewers", "member"}, read : BOOLEAN, of : SUBSET Screen]
    /\ voice \in {"none", "waits", "call"} /\ callPolicy \in {"none", "allowed", "denied"}
    /\ audio \in [Screen -> [by : Sending \cup {NoSending}, kept : {"nowhere", "screen", "pending"}, share : Screen \cup {NoScreen}]]
    /\ streamShare \in [Screen -> Screen \cup {NoScreen}] /\ streamObject \in [Screen -> Sending \cup {NoSending}]
    /\ screenStreams \subseteq Screen /\ screenPolicy \in [Screen -> {"none", "allowed", "denied"}] /\ unrendered \subseteq Screen
    /\ watching => current # NoScreen

\* The tab joins the call, where a share may be live.
RemoteMediaInit ==
    /\ \E s \in Screen :
          \/ current = NoScreen /\ presented = {}
          \/ current = s /\ presented = {s}
    /\ words = <<>> /\ queries = Unread("shares") (+) Unread("viewers")
    /\ captured = (current # NoScreen) /\ watching = FALSE /\ viewerWords = <<>> /\ viewerKnown = FALSE
    /\ carries = [i \in Sending |-> NoScreen] /\ sending = NoSending /\ offered = NoSending /\ coming = {}
    /\ shareOf = NoScreen /\ subscribed = {} /\ hidden = {} /\ streamMuted = {}
    /\ voice = "none" /\ callAllowed = TRUE /\ callPolicy = "none"
    /\ audio = [s \in Screen |-> NoAudio] /\ streamShare = [s \in Screen |-> NoScreen]
    /\ streamObject = [s \in Screen |-> NoSending] /\ screenStreams = {} /\ retired = {}
    /\ screenPolicy = [s \in Screen |-> "none"] /\ shownVideo = NoSending /\ unrendered = {}
    /\ crossedMedia = FALSE /\ overtaken = FALSE

farVars == <<current, captured, watching, presented, viewerWords, viewerKnown, carries, sending, offered, overtaken>>
mediaVars == <<audio, streamShare, streamObject, screenStreams, retired, screenPolicy, shownVideo>>
nearVars == <<coming, shareOf, subscribed, hidden, streamMuted, voice, callAllowed, callPolicy, mediaVars, unrendered,
              crossedMedia>>
Short == Len(words) + Len(viewerWords) < MaxWords
Says(kind, s) == words' = Append(words, [kind |-> kind, share |-> s])

------------------------------------------------------------
(* The gateway and the member who presents.                                *)

ShareGranted ==
    /\ current = NoScreen /\ Short
    /\ \E s \in Screen \ presented : current' = s /\ presented' = presented \cup {s} /\ Says("started", s)
    /\ queries' = queries (+) Unread("member")
    /\ UNCHANGED <<captured, watching, viewerWords, viewerKnown, carries, sending, offered, overtaken, nearVars>>

\* The screen is added anew, with new tracks, for a viewer who is known.
Adds(share, known) ==
    IF known THEN \E i \in Sending : /\ carries[i] = NoScreen /\ sending' = i
                                     /\ carries' = [carries EXCEPT ![i] = share]
             ELSE sending' = NoSending /\ UNCHANGED carries

ScreenCaptured ==
    /\ current # NoScreen /\ ~captured /\ captured' = TRUE /\ Adds(current, viewerKnown)
    /\ UNCHANGED <<current, watching, presented, viewerWords, viewerKnown, offered, queries, words, overtaken, nearVars>>

ShareEnded ==
    /\ current # NoScreen /\ Short /\ Says("stopped", current)
    /\ current' = NoScreen /\ captured' = FALSE /\ watching' = FALSE
    /\ viewerWords' = <<>> /\ viewerKnown' = FALSE /\ sending' = NoSending
    /\ queries' = [q \in {r \in BagToSet(queries) : r.what # "member"} |-> queries[q]]
    /\ UNCHANGED <<presented, carries, offered, overtaken, nearVars>>

\* The tab asks to watch, or to stop; the gateway tells it first, then the member.
Watches ==
    /\ shareOf # NoScreen /\ shareOf = current /\ ~watching /\ Short
    /\ watching' = TRUE /\ Says("viewerJoined", current) /\ viewerWords' = Append(viewerWords, "joined")
    /\ UNCHANGED <<current, captured, presented, viewerKnown, carries, sending, offered, queries, overtaken, nearVars>>

WatchesNoMore ==
    /\ watching /\ Short /\ watching' = FALSE /\ Says("viewerLeft", current)
    /\ viewerWords' = Append(viewerWords, "left")
    /\ UNCHANGED <<current, captured, presented, viewerKnown, carries, sending, offered, queries, overtaken, nearVars>>

MemberHears ==
    /\ viewerWords # <<>> /\ viewerWords' = Tail(viewerWords) /\ viewerKnown' = (Head(viewerWords) = "joined")
    /\ IF captured /\ viewerKnown' # viewerKnown THEN Adds(current, viewerKnown') ELSE UNCHANGED <<sending, carries>>
    /\ UNCHANGED <<current, captured, watching, presented, offered, queries, words, overtaken, nearVars>>

\* One offer at a time: the one before was answered.
MemberOffers ==
    /\ offered # sending /\ coming = {} /\ ~\E i \in DOMAIN words : words[i].kind = "offer"
    /\ offered' = sending /\ words' = Append(words, [kind |-> "offer", by |-> sending])
    /\ UNCHANGED <<current, captured, watching, presented, viewerWords, viewerKnown, carries, sending, queries, overtaken,
                   nearVars>>

\* A handler reads the shares, or who watches them ...
Truth(what) ==
    CASE what = "shares" -> {current} \ {NoScreen}
      [] OTHER -> IF watching THEN {current} ELSE {}

QueryRead(q) ==
    /\ q \in BagToSet(queries) /\ ~q.read
    /\ queries' = (queries (-) SetToBag({q})) (+) SetToBag({[q EXCEPT !.read = TRUE, !.of = Truth(q.what)]})
    /\ UNCHANGED <<farVars, words, nearVars>>

\* ... and answers after further awaits. The member takes the answer for what it knows of the tab.
QueryAnswered(q) ==
    /\ q \in BagToSet(queries) /\ q.read /\ queries' = queries (-) SetToBag({q})
    /\ IF q.what = "member"
       THEN viewerWords' = Append(viewerWords, IF q.of # {} THEN "joined" ELSE "left") /\ UNCHANGED words
       ELSE words' = Append(words, [kind |-> q.what, of |-> q.of]) /\ UNCHANGED viewerWords
    /\ overtaken' = (overtaken \/ q.of # Truth(q.what))
    /\ UNCHANGED <<current, captured, watching, presented, viewerKnown, carries, sending, offered, nearVars>>

------------------------------------------------------------
(* What the listener wants.                                                *)

PolicyFor(allowed) == IF allowed THEN "allowed" ELSE "denied"

\* Deafened, muted for this listener, or the saved volumes not yet there.
CallAllowanceChanges ==
    /\ callAllowed' = ~callAllowed
    /\ callPolicy' = IF voice = "none" THEN callPolicy ELSE PolicyFor(callAllowed')
    /\ UNCHANGED <<farVars, queries, words, coming, shareOf, subscribed, hidden, streamMuted, voice, mediaVars, unrendered,
                   crossedMedia>>

StreamAudioChanges(s) ==
    /\ s = shareOf
    /\ \/ hidden' = (hidden \cup {s}) \ (hidden \cap {s}) /\ UNCHANGED streamMuted
       \/ streamMuted' = (streamMuted \cup {s}) \ (streamMuted \cap {s}) /\ UNCHANGED hidden
    /\ screenPolicy' = [screenPolicy EXCEPT ![s] = PolicyFor(s \notin hidden' \cup streamMuted')]
    /\ UNCHANGED <<farVars, queries, words, coming, shareOf, subscribed, voice, callAllowed, callPolicy, audio, streamShare,
                   streamObject, screenStreams, retired, shownVideo, unrendered, crossedMedia>>

------------------------------------------------------------
(* Binding and teardown.                                                   *)

Permitted(s) == PolicyFor(s \notin hidden \cup streamMuted)

\* With the share of its presenter go all elements that wait to be classified.
Abandoned(ended) ==
    {k \in Screen : audio[k].share \in ended \/ (audio[k].kept = "pending" /\ shareOf \in ended)}
EndedStreams(ended) == {k \in Screen : streamShare[k] \in ended}
RetiredBy(ended) ==
    ({audio[k].by : k \in Abandoned(ended)} \cup {streamObject[k] : k \in EndedStreams(ended)}) \ {NoSending}

\* What waits is taken for the share's, once it is subscribed to.
Bound(ended, s, subscriptions) ==
    {k \in Screen \ Abandoned(ended) : /\ s \in subscriptions /\ audio[k].kept = "pending"
                                       /\ audio[k].by \notin retired \cup RetiredBy(ended)}

\* Tears down the media of the shares that ended, forgets the policies of the silent ones, binds what waits to s.
Reclassifies(ended, silent, s, subscriptions) ==
    LET streams == EndedStreams(ended)
        bound == Bound(ended, s, subscriptions)
    IN
    /\ audio' = [k \in Screen |-> IF k \in Abandoned(ended) THEN NoAudio
                                  ELSE IF k \in bound THEN [by |-> audio[k].by, kept |-> "screen", share |-> s] ELSE audio[k]]
    /\ retired' = retired \cup RetiredBy(ended)
    /\ streamShare' = [k \in Screen |-> IF k \in bound THEN s ELSE IF k \in streams THEN NoScreen ELSE streamShare[k]]
    /\ streamObject' = [k \in Screen |-> IF k \in bound THEN audio[k].by
                                         ELSE IF k \in streams \/ (audio[k].kept = "pending" /\ k \in Abandoned(ended))
                                         THEN NoSending ELSE streamObject[k]]
    /\ screenStreams' = IF shareOf \in ended THEN {} ELSE screenStreams
    /\ screenPolicy' = [t \in Screen |-> IF t = s /\ bound # {} THEN Permitted(s)
                                         ELSE IF t \in ended \cup silent THEN "none" ELSE screenPolicy[t]]

\* Tracks of another share are bound, or the removal of another share still waits.
Crossed(ended, s, subscriptions) ==
    \/ \E k \in Bound(ended, s, subscriptions) : carries[audio[k].by] # s
    \/ s # NoScreen /\ unrendered \ {s} # {}

------------------------------------------------------------
(* The gateway's events.                                                   *)

HearsWord(kind) ==
    /\ words # <<>> /\ Head(words).kind = kind /\ words' = Tail(words)
    /\ UNCHANGED <<farVars, voice, callAllowed, callPolicy>>
Word1 == Head(words).share
Answer1 == Head(words).of

\* The tab asks anew what it watches.
ShareStarted ==
    /\ HearsWord("started") /\ shareOf' = Word1 /\ queries' = queries (+) Unread("viewers")
    /\ Reclassifies({}, {}, Word1, subscribed) /\ crossedMedia' = (crossedMedia \/ Crossed({}, Word1, subscribed))
    /\ UNCHANGED <<coming, subscribed, hidden, streamMuted, shownVideo, unrendered>>

\* The shares there are: what is not among them is dropped.
SharesListed ==
    /\ HearsWord("shares")
    /\ LET ended == IF Answer1 = {} THEN {shareOf} \ {NoScreen} ELSE {}
           s == IF Answer1 = {} THEN NoScreen ELSE CHOOSE t \in Answer1 : TRUE
       IN
       /\ subscribed' = subscribed \cap Answer1 /\ streamMuted' = streamMuted \cap Answer1 /\ hidden' = hidden \cap Answer1
       /\ shareOf' = s /\ shownVideo' = IF Answer1 = {} THEN NoSending ELSE shownVideo
       /\ Reclassifies(ended, Screen \ Answer1, s, subscribed')
       /\ crossedMedia' = (crossedMedia \/ Crossed(ended, s, subscribed'))
    /\ UNCHANGED <<queries, coming, unrendered>>

\* What the tab watches: the answer takes the place of what it knew.
ViewersListed ==
    /\ HearsWord("viewers") /\ subscribed' = Answer1
    /\ LET ended == subscribed \ Answer1 IN
       /\ Reclassifies(ended, {}, shareOf, Answer1) /\ crossedMedia' = (crossedMedia \/ Crossed(ended, shareOf, Answer1))
    /\ shownVideo' = IF shareOf \in Answer1 THEN shownVideo ELSE NoSending
    /\ UNCHANGED <<queries, coming, shareOf, hidden, streamMuted, unrendered>>

\* Whatever share the member presents by now is taken away.
RemovesRemoteScreen(s, silent) ==
    /\ shownVideo' = NoSending /\ shareOf' = NoScreen /\ hidden' = hidden \ (silent \cup {shareOf})
    /\ Reclassifies({shareOf} \ {NoScreen}, silent, NoScreen, {})
    /\ crossedMedia' = (crossedMedia \/ shareOf \notin {s, NoScreen})

\* React may put the removal off to the next render.
ShareStopped ==
    /\ HearsWord("stopped") /\ subscribed' = subscribed \ {Word1} /\ streamMuted' = streamMuted \ {Word1}
    /\ \/ RemovesRemoteScreen(Word1, {Word1}) /\ UNCHANGED unrendered
       \/ /\ unrendered' = unrendered \cup {Word1} /\ hidden' = hidden \ {Word1}
          /\ screenPolicy' = [screenPolicy EXCEPT ![Word1] = "none"]
          /\ UNCHANGED <<shareOf, audio, streamShare, streamObject, screenStreams, retired, shownVideo, crossedMedia>>
    /\ UNCHANGED <<queries, coming>>

Rendered(s) ==
    /\ s \in unrendered /\ unrendered' = unrendered \ {s} /\ RemovesRemoteScreen(s, {})
    /\ UNCHANGED <<farVars, queries, words, coming, subscribed, streamMuted, voice, callAllowed, callPolicy>>

ViewerJoinedSelf ==
    /\ HearsWord("viewerJoined") /\ subscribed' = subscribed \cup {Word1}
    /\ IF shareOf = Word1
       THEN /\ Reclassifies({}, {}, Word1, subscribed')
            /\ crossedMedia' = (crossedMedia \/ Crossed({}, Word1, subscribed')) /\ UNCHANGED shownVideo
       ELSE UNCHANGED <<mediaVars, crossedMedia>>
    /\ UNCHANGED <<queries, coming, shareOf, hidden, streamMuted, unrendered>>

ViewerLeftSelf ==
    /\ HearsWord("viewerLeft") /\ subscribed' = subscribed \ {Word1}
    /\ Reclassifies({Word1}, {}, NoScreen, {}) /\ shownVideo' = IF shareOf = Word1 THEN NoSending ELSE shownVideo
    /\ UNCHANGED <<queries, coming, shareOf, hidden, streamMuted, unrendered, crossedMedia>>

OfferHeard ==
    /\ HearsWord("offer")
    /\ LET i == Head(words).by IN
       coming' = IF i = NoSending THEN {} ELSE {Track("audio", i), Track("video", i)}
    /\ UNCHANGED <<queries, shareOf, subscribed, hidden, streamMuted, mediaVars, unrendered, crossedMedia>>

------------------------------------------------------------
(* Tracks.                                                                 *)

VoiceArrives ==
    /\ voice = "none" /\ voice' = "waits"
    /\ UNCHANGED <<farVars, queries, words, coming, shareOf, subscribed, hidden, streamMuted, callAllowed, callPolicy, mediaVars,
                   unrendered, crossedMedia>>

\* Fifty milliseconds later.
VoiceClassified ==
    /\ voice = "waits" /\ voice' = "call" /\ callPolicy' = PolicyFor(callAllowed)
    /\ UNCHANGED <<farVars, queries, words, coming, shareOf, subscribed, hidden, streamMuted, callAllowed, mediaVars, unrendered,
                   crossedMedia>>

Arrives(t) ==
    /\ voice # "none" /\ t \in coming /\ coming' = coming \ {t}
    /\ UNCHANGED <<farVars, queries, words, shareOf, subscribed, hidden, streamMuted, voice, callAllowed, callPolicy, unrendered>>
Subscribed == shareOf # NoScreen /\ shareOf \in subscribed
Stray(i) == Subscribed /\ carries[i] # shareOf

\* Audio of the same stream that waits is the screen's after all.
VideoArrives(i) ==
    LET k == carries[i] IN
    /\ Arrives(Track("video", i)) /\ crossedMedia' = (crossedMedia \/ Stray(i)) /\ UNCHANGED retired
    /\ IF Subscribed /\ i \notin retired
       THEN /\ screenStreams' = screenStreams \cup {k} /\ shownVideo' = i
            /\ streamShare' = [streamShare EXCEPT ![k] = shareOf] /\ streamObject' = [streamObject EXCEPT ![k] = i]
            /\ IF audio[k].kept = "pending"
               THEN /\ audio' = [audio EXCEPT ![k] = [by |-> @.by, kept |-> "screen", share |-> shareOf]]
                    /\ screenPolicy' = [screenPolicy EXCEPT ![shareOf] = Permitted(shareOf)]
               ELSE UNCHANGED <<audio, screenPolicy>>
       ELSE UNCHANGED <<audio, streamShare, streamObject, screenStreams, screenPolicy, shownVideo>>

\* The element there is of the stream is kept, with the track it has.
ScreenAudio(i, k, s) ==
    LET by == IF audio[k].kept = "screen" THEN audio[k].by ELSE i IN
    /\ audio' = [audio EXCEPT ![k] = [by |-> by, kept |-> "screen", share |-> s]]
    /\ streamObject' = [streamObject EXCEPT ![k] = i]
    /\ streamShare' = IF s # NoScreen THEN [streamShare EXCEPT ![k] = s] ELSE streamShare
    /\ screenPolicy' = IF s # NoScreen THEN [screenPolicy EXCEPT ![s] = Permitted(s)] ELSE screenPolicy
    /\ crossedMedia' = (crossedMedia \/ Stray(i) \/ by # i)

UnknownAudio(i, k) ==
    /\ audio' = [audio EXCEPT ![k] = IF @.kept = "pending" THEN @ ELSE [by |-> i, kept |-> "pending", share |-> NoScreen]]
    /\ UNCHANGED <<streamObject, streamShare, screenPolicy, crossedMedia>>

AudioArrives(i, hasVideo) ==
    LET k == carries[i]
        s == IF ~Subscribed THEN NoScreen ELSE IF streamShare[k] # NoScreen THEN streamShare[k] ELSE shareOf
    IN
    /\ Arrives(Track("audio", i)) /\ UNCHANGED <<screenStreams, retired, shownVideo>>
    /\ hasVideo \/ Track("video", i) \in coming
    /\ IF i \in retired \/ (shareOf # NoScreen /\ ~Subscribed)
       THEN UNCHANGED <<audio, streamObject, streamShare, screenPolicy, crossedMedia>>
       ELSE IF hasVideo \/ k \in screenStreams \/ s # NoScreen THEN ScreenAudio(i, k, s) ELSE UnknownAudio(i, k)

RemoteMediaNext ==
    \/ ShareGranted \/ ScreenCaptured \/ ShareEnded \/ Watches \/ WatchesNoMore \/ MemberHears \/ MemberOffers
    \/ CallAllowanceChanges \/ VoiceArrives \/ VoiceClassified
    \/ ShareStarted \/ SharesListed \/ ViewersListed \/ ShareStopped \/ ViewerJoinedSelf \/ ViewerLeftSelf \/ OfferHeard
    \/ \E q \in BagToSet(queries) : QueryRead(q) \/ QueryAnswered(q)
    \/ \E s \in Screen : StreamAudioChanges(s) \/ Rendered(s)
    \/ \E i \in Sending : VideoArrives(i) \/ \E hasVideo \in BOOLEAN : AudioArrives(i, hasVideo)

------------------------------------------------------------
RemoteQuiet ==
    /\ words = <<>> /\ viewerWords = <<>> /\ queries = EmptyBag /\ coming = {} /\ unrendered = {}
    /\ voice = "call" /\ offered = sending

Heard(k) == audio[k].share # NoScreen /\ screenPolicy[audio[k].share] = "allowed"

\* When all that was asked, said and sent has arrived, the tab knows the share there is and what it watches, the member
\* sends the screen to the tab that watches it, the voice is heard if the listener allows it, and of the screens the
\* one that is watched is shown, and heard unless it is hidden or muted, and no other. Not so after a return to
\* a share that met the tracks of the visit before, a new share that met the removal of the one before, or an
\* answer that was older than what had been told.
RemoteMediaSettles ==
    RemoteQuiet /\ ~crossedMedia /\ ~overtaken =>
        /\ callPolicy = PolicyFor(callAllowed)
        /\ shareOf = current
        /\ subscribed = IF watching THEN {current} ELSE {}
        /\ (sending # NoSending) <=> (watching /\ captured)
        /\ shownVideo = sending
        /\ \A k \in Screen : Heard(k) <=> /\ sending # NoSending /\ k = current
                                         /\ audio[k].by = sending /\ Permitted(current) = "allowed"
=============================================================================
