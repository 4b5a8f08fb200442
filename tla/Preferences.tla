---------------------------- MODULE Preferences ----------------------------
(***************************************************************************)
(* The preferences of an account as one page edits and saves them          *)
(* (web hooks/useUserPreferences.tsx, API user/preference.service.ts).     *)
(* The page shows what the user wants (desired) at once and saves it       *)
(* through one queue of requests: an entry per change of the appearance,   *)
(* and per lane (the sound effects, the playback volume, the capture       *)
(* settings) one entry that repeats until nothing of the lane is dirty.    *)
(* A lane is saved a while after its last edit, or at once on release.     *)
(*                                                                         *)
(* A dirty field's value is the desired one: the code assigns both         *)
(* together.  A version is compared only to see whether anything came      *)
(* after a request: a mark of the request (touched) for a lane, the place  *)
(* in the queue for the appearance.  The volatile capture lane's several   *)
(* fields are one.  Only one page edits the account.                       *)
(***************************************************************************)
EXTENDS Naturals, Sequences, SequencesExt

CONSTANTS
    Account, NoAccount,
    Lane,                   \* the lanes of one field: playback and capture
    Null,                   \* a sound effects setting nobody has chosen
    NoRequest, NotChosen,
    MaxEdits                \* bound: edits of the user

ASSUME LanesNamed == {"theme", "button", "enabled", "volume", "look", "sound"} \cap Lane = {}

Look == {"theme", "button"}
Sound == {"enabled", "volume"}
Field == Look \union Sound \union Lane
SavedLane == Lane \union {"sound"}
FieldsOf(l) == IF l = "sound" THEN Sound ELSE {l}
Choice == {0, 1}
Defaults == [f \in Field |-> IF f = "enabled" THEN Null ELSE 0]

VARIABLES
    row,            \* the stored preferences of each account
    legacy,         \* the sound setting an earlier version left in the browser
    current,        \* the account of the last render
    view,          \* the page: its account, what it knows and wants
    queue,          \* the saves the page has queued: lanes, or changes of the appearance
    request,        \* the request under way, if any
    stray,          \* aborted saves the server may still apply
    edits, chosen,  \* history: edits made, the last choice of each field
    overtaken       \* history: an aborted save was applied under a newer page

preferenceVars ==
    <<row, legacy, current, view, queue, request, stray, edits, chosen, overtaken>>

Values == Choice \union {Null}
Request ==
    [kind : {"get", "look", "lane", "import"}, account : Account, lane : SavedLane \union {"look"},
     patch : SUBSET (Field \X Values), touched : BOOLEAN,
     answer : {NoRequest} \union [Field -> Values]]

PreferenceTypeOK ==
    /\ row \in [Account -> [Field -> Values]] /\ legacy \in Values
    /\ current \in Account \union {NoAccount}
    /\ view.account \in Account \union {NoAccount} /\ view.status \in {"loading", "ready", "error"}
    /\ view.desired \in [Field -> Values] /\ view.known \in [Look -> Values]
    /\ view.dirty \subseteq Field \ Look /\ view.importing \in BOOLEAN
    /\ view.timers \subseteq SavedLane /\ view.failed \subseteq SavedLane
    /\ view.failedPatch \subseteq Look \X Values
    /\ \A i \in DOMAIN queue : queue[i].lane \in SavedLane \union {"look"}
    /\ request \in Request \union {NoRequest} /\ stray \subseteq Request
    /\ edits \in 0..MaxEdits /\ chosen \in [Field -> Values \union {NotChosen}]
    /\ overtaken \in BOOLEAN

NewView(a, status) ==
    [account |-> a, status |-> status, desired |-> Defaults, known |-> [f \in Look |-> 0],
     dirty |-> {}, importing |-> FALSE, timers |-> {}, failed |-> {}, failedPatch |-> {}]

PreferenceInit ==
    /\ row = [a \in Account |-> Defaults] /\ legacy \in Values
    /\ current = NoAccount /\ view = NewView(NoAccount, "ready") /\ queue = <<>>
    /\ request = NoRequest /\ stray = {} /\ edits = 0
    /\ chosen = [f \in Field |-> NotChosen] /\ overtaken = FALSE

page == <<current, view, queue, edits, chosen>>
Ready == view.status = "ready" /\ view.account = current /\ current # NoAccount
Queued(l) == \E i \in DOMAIN queue : queue[i].lane = l
Pending(l) == view.dirty \cap FieldsOf(l) # {} \/ (l = "sound" /\ view.importing)

Sent(kind, l, patch) ==
    [kind |-> kind, account |-> current, lane |-> l, patch |-> patch,
     touched |-> FALSE, answer |-> NoRequest]

\* The request of a lane's loop: everything dirty of it, or the import of the
\* browser's old sound setting when no newer choice of it is pending.
LaneRequest(p, l) ==
    LET dirty == {<<f, p.desired[f]>> : f \in p.dirty \cap FieldsOf(l)}
    IN  IF l = "sound" /\ p.importing /\ "enabled" \notin p.dirty /\ legacy # Null
        THEN Sent("import", l, {<<"enabled", legacy>>})
        ELSE Sent("lane", l, dirty)

------------------------------------------------------------
(* The account of the page                                                 *)

\* Another account is rendered; event callbacks check it from here on.
AccountRendered(a) ==
    /\ view.account = current /\ a # current /\ stray = {}
    /\ current' = a
    /\ UNCHANGED <<row, legacy, view, queue, request, stray, edits, chosen, overtaken>>

\* The effect of the new account, or of the retry of a failed load: the queue
\* is forgotten, its request aborted, and the account's preferences asked for.
Loads ==
    /\ view' = NewView(current, IF current = NoAccount THEN "ready" ELSE "loading")
    /\ queue' = <<>> /\ chosen' = [f \in Field |-> NotChosen] /\ overtaken' = FALSE
    /\ request' = IF current = NoAccount THEN NoRequest ELSE Sent("get", "look", {})
    /\ stray' = IF request # NoRequest /\ request.kind # "get" /\ request.answer = NoRequest
                THEN stray \union {request} ELSE stray

AccountEffect ==
    /\ view.account # current /\ Loads
    /\ UNCHANGED <<row, legacy, current, edits>>

RetryLoad ==
    /\ view.status = "error" /\ view.account = current /\ Loads
    /\ UNCHANGED <<row, legacy, current, edits>>

------------------------------------------------------------
(* The edits                                                               *)

Edits(f, v) ==
    /\ Ready /\ edits < MaxEdits
    /\ edits' = edits + 1 /\ chosen' = [chosen EXCEPT ![f] = v]

\* The theme or the send button is changed: shown at once and queued.
EnqueueUpdate(f, v) ==
    /\ view' = [view EXCEPT !.desired[f] = v, !.failedPatch = {}]
    /\ queue' = Append(queue, [lane |-> "look", patch |-> {<<f, v>>}])

UpdateLook(f, v) ==
    /\ f \in Look /\ Edits(f, v) /\ EnqueueUpdate(f, v)
    /\ UNCHANGED <<row, legacy, current, request, stray, overtaken>>

RetryMutation ==
    /\ Ready
    /\ \E fv \in view.failedPatch :
        /\ EnqueueUpdate(fv[1], fv[2])
        /\ chosen' = [chosen EXCEPT ![fv[1]] = fv[2]]
    /\ UNCHANGED <<row, legacy, current, request, stray, edits, overtaken>>

\* The save of a lane is queued unless one is, or nothing of it is unsaved.
Committed(p, l) ==
    IF Queued(l) \/ (p.dirty \cap FieldsOf(l) = {} /\ ~(l = "sound" /\ p.importing))
    THEN /\ view' = [p EXCEPT !.timers = @ \ {l}] /\ UNCHANGED queue
    ELSE /\ view' = [p EXCEPT !.timers = @ \ {l}, !.failed = @ \ {l}]
         /\ queue' = Append(queue, [lane |-> l, patch |-> {}])

Touches(l) ==
    request' = IF request # NoRequest /\ request.lane = l
               THEN [request EXCEPT !.touched = TRUE] ELSE request

\* A slider moves, or a switch is thrown, which is saved at once.
UpdateLane(l, f, v) ==
    /\ l \in SavedLane /\ f \in FieldsOf(l) /\ Edits(f, v) /\ Touches(l)
    /\ LET edited == [view EXCEPT !.desired[f] = v, !.dirty = @ \union {f},
                                   !.importing = @ /\ f # "enabled", !.failed = @ \ {l}]
       IN  IF f = "enabled" THEN Committed(edited, l)
           ELSE /\ view' = [edited EXCEPT !.timers = @ \union {l}] /\ UNCHANGED queue
    /\ UNCHANGED <<row, legacy, current, stray, overtaken>>

\* The timer fires, the slider is released or the user retries a failed save.
Commit(l) ==
    /\ Ready /\ l \in view.timers \union view.failed
    /\ Committed(view, l)
    /\ UNCHANGED <<row, legacy, current, request, stray, edits, chosen, overtaken>>

\* The user keeps the browser's old sound setting; the button is disabled
\* while a change of the sound effects is being saved.
ImportLegacySoundEffects ==
    /\ Ready /\ legacy # Null /\ view.desired["enabled"] = Null
    /\ ~Queued("sound") /\ "sound" \notin view.timers
    /\ Committed([view EXCEPT !.importing = TRUE], "sound")
    /\ UNCHANGED <<row, legacy, current, request, stray, edits, chosen, overtaken>>

------------------------------------------------------------
(* The requests                                                            *)

\* The next queued save starts; those of an earlier account return at once.
StartSave ==
    /\ Ready /\ request = NoRequest /\ queue # <<>>
    /\ LET save == Head(queue)
       IN  request' = IF save.lane = "look" THEN Sent("look", "look", save.patch)
                      ELSE LaneRequest(view, save.lane)
    /\ UNCHANGED <<row, legacy, current, view, queue, stray, edits, chosen, overtaken>>

\* The row after a save: an import gives way to a choice already stored.
Applied(r, stored) ==
    [f \in Field |->
        IF \E v \in Values : <<f, v>> \in r.patch
        THEN IF r.kind = "import" /\ stored[f] # Null THEN stored[f]
             ELSE CHOOSE v \in Values : <<f, v>> \in r.patch
        ELSE stored[f]]

Serve ==
    /\ request # NoRequest /\ request.answer = NoRequest
    /\ LET stored == Applied(request, row[request.account])
       IN  /\ row' = [row EXCEPT ![request.account] = stored]
           /\ request' = [request EXCEPT !.answer = stored]
    /\ UNCHANGED <<legacy, page, stray, overtaken>>

\* An aborted save reaches the server after all, or never.
ServeStray ==
    \E r \in stray : \E applied \in BOOLEAN :
        /\ stray' = stray \ {r}
        /\ row' = IF applied THEN [row EXCEPT ![r.account] = Applied(r, @)] ELSE row
        /\ overtaken' = (overtaken \/ (applied /\ r.account = view.account))
        /\ UNCHANGED <<legacy, page, request>>

\* An answer for an account the page no longer shows is dropped.
Dropped ==
    /\ request # NoRequest /\ view.account # current
    /\ request.answer # NoRequest
    /\ request' = NoRequest
    /\ UNCHANGED <<row, legacy, page, stray, overtaken>>

Answered(kinds) ==
    request # NoRequest /\ view.account = current /\ request.kind \in kinds
      /\ request.answer # NoRequest

\* A stored sound setting makes the browser's old one obsolete.
KeepsLegacy == legacy' = IF request.answer["enabled"] # Null THEN Null ELSE legacy

Loaded ==
    /\ Answered({"get"})
    /\ view' = [view EXCEPT !.status = "ready", !.desired = request.answer,
                              !.known = [f \in Look |-> request.answer[f]]]
    /\ KeepsLegacy /\ request' = NoRequest
    /\ UNCHANGED <<row, current, queue, stray, edits, chosen, overtaken>>

\* Another change of the appearance is queued behind the one under way.
Superseded == \E i \in 2..Len(queue) : queue[i].lane = "look"

LookSaved ==
    /\ Answered({"look"})
    /\ LET look == [f \in Look |-> request.answer[f]]
       IN  view' = [view EXCEPT !.known = look,
                        !.desired = IF Superseded THEN @
                                    ELSE [f \in Field |-> IF f \in Look THEN look[f] ELSE @[f]]]
    /\ queue' = Tail(queue) /\ request' = NoRequest
    /\ UNCHANGED <<row, legacy, current, stray, edits, chosen, overtaken>>

\* What is dirty after a lane's save: nothing of it if nothing was edited
\* meanwhile; an import saves no pending volume.
ForgetsEdits(p, r) == p.dirty \ FieldsOf(r.lane)
StillDirty(p, r) ==
    IF r.touched \/ r.kind = "import" THEN p.dirty ELSE p.dirty \ FieldsOf(r.lane)

\* The saved fields are merged under newer edits, and the loop goes on while
\* any of the lane is unsaved.
LaneSaved ==
    /\ Answered({"lane", "import"})
    /\ LET l == request.lane
           dirty == StillDirty(view, request)
           merged == [view EXCEPT !.dirty = dirty, !.importing = @ /\ l # "sound",
                        !.desired = [f \in Field |-> IF f \in FieldsOf(l) \ dirty
                                                     THEN request.answer[f] ELSE @[f]]]
       IN  /\ view' = merged
           /\ IF dirty \cap FieldsOf(l) # {}
              THEN request' = LaneRequest(merged, l) /\ UNCHANGED queue
              ELSE request' = NoRequest /\ queue' = Tail(queue)
           /\ IF l = "sound" THEN KeepsLegacy ELSE UNCHANGED legacy
    /\ UNCHANGED <<row, current, stray, edits, chosen, overtaken>>

\* A request fails, whether the server applied it or not.  A lane keeps its
\* edits for a retry; the appearance goes back to what is known stored, and
\* only the newest change of it can be retried.
RequestFails ==
    /\ request # NoRequest /\ view.account = current
    /\ request' = NoRequest
    /\ CASE request.kind = "get" ->
              view' = [view EXCEPT !.status = "error"] /\ UNCHANGED <<queue, chosen>>
         [] request.kind \in {"lane", "import"} ->
              /\ view' = [view EXCEPT !.failed = @ \union {request.lane}]
              /\ queue' = Tail(queue) /\ UNCHANGED chosen
         [] request.kind = "look" ->
              /\ view' = IF Superseded THEN view
                          ELSE [view EXCEPT !.failedPatch = request.patch,
                                  !.desired = [f \in Field |-> IF f \in Look THEN view.known[f]
                                                               ELSE @[f]]]
              /\ queue' = Tail(queue)
              /\ chosen' = [f \in Field |-> IF f \in Look /\ <<f, chosen[f]>> \in request.patch
                                            THEN NotChosen ELSE chosen[f]]
    /\ stray' = IF request.kind # "get" /\ request.answer = NoRequest /\ stray = {}
                THEN {request} ELSE stray
    /\ UNCHANGED <<row, legacy, current, edits, overtaken>>

PreferenceNext ==
    \/ \E a \in Account \union {NoAccount} : AccountRendered(a)
    \/ AccountEffect \/ RetryLoad
    \/ \E f \in Field, v \in Choice : UpdateLook(f, v) \/ \E l \in SavedLane : UpdateLane(l, f, v)
    \/ RetryMutation \/ ImportLegacySoundEffects
    \/ \E l \in SavedLane : Commit(l)
    \/ StartSave \/ Serve \/ ServeStray \/ Dropped \/ Loaded \/ LookSaved \/ LaneSaved
    \/ RequestFails

PreferenceSpec == PreferenceInit /\ [][PreferenceNext]_preferenceVars

------------------------------------------------------------
\* Nothing is being saved, nothing failed and no aborted save came late.
PreferencesQuiet ==
    /\ Ready /\ queue = <<>> /\ request = NoRequest
    /\ view.timers = {} /\ view.failed = {} /\ view.failedPatch = {} /\ ~overtaken

\* Once the page reports every change saved, no edit is left behind: what it
\* shows is what the account's row holds, and the last choice the user made
\* of each field (an appearance change that failed under a newer one is the
\* exception: it is forgotten without a word).
PreferencesSettle ==
    PreferencesQuiet =>
        /\ view.dirty = {} /\ ~view.importing
        /\ view.desired = row[current]
        /\ \A f \in Field : chosen[f] # NotChosen => view.desired[f] = chosen[f]
=============================================================================
