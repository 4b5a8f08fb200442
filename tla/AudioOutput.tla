----------------------------- MODULE AudioOutput -----------------------------
(***************************************************************************)
(* The audio output of a tab: the coordinator that brings the listed       *)
(* adapters, the sound effects' and the received voices', to the wished    *)
(* profile, one after the other, and all of them back when one refuses     *)
(* (apps/web/src/lib/audioOutput.ts), with what the two adapters do when   *)
(* asked (lib/voiceSounds.ts, lib/voicePlayback.ts). The browser accepts   *)
(* or refuses any device and any setting at any time.                      *)
(***************************************************************************)
CONSTANTS Speaker,     \* the outputs that may be chosen
          Setting,     \* the role settings that may be chosen
          Usual,       \* the browser's own output and settings
          NoContext

ASSUME OutputAssumption == Usual \notin Speaker \cup Setting

Role == {"sfx", "receive"}
Profile == [device : Speaker \cup {Usual}, sfx : Setting \cup {Usual}, receive : Setting \cup {Usual}]
Context == [device : Speaker \cup {Usual}, setting : Setting \cup {Usual}]
Target(p, r) == [device |-> p.device, setting |-> p[r]]
RequiresConfiguredOutput(t) == t.device # Usual \/ t.setting # Usual

VARIABLES
    profile, effectiveProfile, outputStatus, \* the coordinator: what is wished, what was reached, what is shown
    reconcile,        \* its loop: the adapters it took, and the one it is at; "gone" is a disposed one
    picking,          \* the browser's picker is open
    listening,        \* a playback owner is registered
    silenced,         \* the adapters muted for a transition
    wished,           \* the output each adapter was last given
    context,          \* the output its audio context is on
    initializing,     \* the output of the receive graph being made
    preparing, ready, \* received tracks: one on its way ("failed" once its graph did), some connected
    stray,            \* a released track's preparation may still fail
    effects,          \* the sounds want a context, and wait for the coordinator to make one
    lost,             \* history: the adapters muted for good, until the next profile that works
    outdated          \* history: the receive graph was made for an older wish, and not changed since

outputVars == <<profile, effectiveProfile, outputStatus, reconcile, picking, listening, silenced, wished, context,
                initializing, preparing, ready, stray, effects, lost, outdated>>

Resting == [pc |-> "idle", at |-> "sfx", awaits |-> "nothing", adapters |-> {},
            desired |-> effectiveProfile, previous |-> effectiveProfile, failed |-> FALSE, newer |-> FALSE]

AudioOutputTypeOK ==
    /\ {profile, effectiveProfile, reconcile.desired, reconcile.previous} \subseteq Profile
    /\ outputStatus \in {"ready", "applying", "failed", "device-lost"}
    /\ reconcile.pc \in {"idle", "queued", "apply", "restore"} /\ reconcile.at \in Role \cup {"gone"}
    /\ reconcile.awaits \in {"nothing", "browser", "graph", "made", "unmade"}
    /\ reconcile.adapters \subseteq Role \cup {"gone"} /\ {reconcile.failed, reconcile.newer} \subseteq BOOLEAN
    /\ reconcile.pc \in {"apply", "restore"} => reconcile.at \in reconcile.adapters
    /\ {picking, listening, ready, stray, outdated} \subseteq BOOLEAN /\ silenced \subseteq Role /\ lost \subseteq silenced
    /\ wished \in [Role -> Context] /\ context \in [Role -> Context \cup {NoContext}]
    /\ initializing \in Context \cup {NoContext} /\ preparing \in {"no", "waits", "failed"}
    /\ effects \in {"none", "needed", "asked"}
    \* a graph, and a track, belong to the registered owner
    /\ ~listening => context["receive"] = NoContext /\ initializing = NoContext /\ ~ready /\ preparing = "no"

AudioOutputInit ==
    /\ profile \in Profile /\ effectiveProfile = profile
    /\ wished = [r \in Role |-> Target(profile, r)]
    /\ LET configured == RequiresConfiguredOutput(Target(profile, "sfx")) IN
       /\ outputStatus = IF configured THEN "applying" ELSE "ready"
       /\ silenced = IF configured THEN {"sfx"} ELSE {}
       /\ reconcile = [Resting EXCEPT !.pc = IF configured THEN "queued" ELSE "idle"]
    /\ context = [r \in Role |-> NoContext] /\ initializing = NoContext
    /\ preparing = "no" /\ effects = "none"
    /\ picking = FALSE /\ listening = FALSE /\ ready = FALSE /\ stray = FALSE /\ lost = {} /\ outdated = FALSE

Scheduled(loop) == IF loop.pc \in {"idle", "queued"} THEN [loop EXCEPT !.pc = "queued"]
                   ELSE [loop EXCEPT !.newer = TRUE]
ScheduleApply == outputStatus' = "applying" /\ reconcile' = Scheduled(reconcile)

------------------------------------------------------------
(* What the user asks for.                                                 *)

Untouched == UNCHANGED <<effectiveProfile, listening, silenced, wished, context, initializing, preparing, ready,
                         stray, effects, lost, outdated>>

Save(p) == profile' = p /\ ScheduleApply
SetDevice(d) == Save([profile EXCEPT !.device = d]) /\ UNCHANGED picking /\ Untouched
UpdateRoleSettings(r, c) == Save([profile EXCEPT ![r] = c]) /\ UNCHANGED picking /\ Untouched

\* A retry, or a change of the machine's devices.
Reapply == ScheduleApply /\ UNCHANGED <<profile, picking>> /\ Untouched

ChooseWithPicker ==
    /\ ~picking /\ picking' = TRUE /\ outputStatus' = "applying"
    /\ UNCHANGED <<profile, reconcile>> /\ Untouched

PickerAnswered(d) == picking /\ picking' = FALSE /\ Save([profile EXCEPT !.device = d]) /\ Untouched

PickerFails ==
    /\ picking /\ picking' = FALSE /\ outputStatus' = "failed"
    /\ UNCHANGED <<profile, reconcile>> /\ Untouched

------------------------------------------------------------
(* The loop.                                                               *)

Adapters == IF listening THEN Role ELSE {"sfx"}

\* Every adapter registered now is muted and asked in turn, the sound effects' first.
Begins(desired, previous) ==
    /\ reconcile' = [pc |-> "apply", at |-> "sfx", awaits |-> "nothing", adapters |-> Adapters,
                     desired |-> desired, previous |-> previous, failed |-> FALSE, newer |-> FALSE]
    /\ silenced' = silenced \cup Adapters

ReconcileStarts ==
    /\ reconcile.pc = "queued" /\ Begins(profile, effectiveProfile)
    /\ UNCHANGED <<profile, effectiveProfile, outputStatus, picking, listening, wished, context, initializing,
                   preparing, ready, stray, effects, lost, outdated>>

\* After a rollback that failed its adapters stay silent.
Ends(shown, unmutes, reached) ==
    /\ outputStatus' = shown
    /\ silenced' = IF unmutes THEN silenced \ reconcile.adapters ELSE silenced
    /\ lost' = IF unmutes THEN lost \ reconcile.adapters ELSE lost \cup (reconcile.adapters \cap Role)
    /\ reconcile' = [Resting EXCEPT !.desired = reached, !.previous = reached]

Succeeds ==
    /\ effectiveProfile' = reconcile.desired
    /\ IF reconcile.newer
       THEN Begins(profile, reconcile.desired) /\ UNCHANGED <<outputStatus, lost>>
       ELSE Ends("ready", TRUE, reconcile.desired)

Fails(broken) == Ends(IF broken THEN "device-lost" ELSE "failed", ~broken, effectiveProfile)

RolledBack(broken) ==
    /\ UNCHANGED effectiveProfile
    /\ IF reconcile.newer THEN Begins(profile, effectiveProfile) /\ UNCHANGED <<outputStatus, lost>>
       ELSE Fails(broken)

Last == reconcile.at # "sfx" \/ reconcile.adapters = {"sfx"}

\* The adapter asked has answered: on to the next, back to the first, or to the end.
\* Who waits for a context may ask again when the loop is over.
Advances(ok, wanted) ==
    LET broken == reconcile.failed \/ ~ok
        turns(pc, at) ==
            /\ reconcile' = [reconcile EXCEPT !.pc = pc, !.at = at, !.awaits = "nothing",
                                              !.failed = pc = reconcile.pc /\ broken]
            /\ UNCHANGED <<effectiveProfile, outputStatus, silenced, lost>>
    IN
    /\ CASE reconcile.pc = "apply" /\ ~ok -> turns("restore", "sfx")
         [] ~Last -> turns(reconcile.pc, CHOOSE r \in reconcile.adapters : r # "sfx")
         [] Last /\ reconcile.pc = "apply" /\ ok -> Succeeds
         [] Last /\ reconcile.pc = "restore" -> RolledBack(broken)
    /\ effects' = IF reconcile'.pc = "idle" /\ wanted = "asked" THEN "needed" ELSE wanted

Asked == Target(IF reconcile.pc = "apply" THEN reconcile.desired ELSE reconcile.previous,
                IF reconcile.at = "sfx" THEN "sfx" ELSE "receive")

Awaits(what) ==
    /\ reconcile' = [reconcile EXCEPT !.awaits = what]
    /\ UNCHANGED <<effectiveProfile, outputStatus, silenced, lost, effects>>

\* An adapter with no context to change only remembers what it is given.
ApplyEffects ==
    /\ reconcile.at = "sfx" /\ UNCHANGED <<initializing, outdated>>
    /\ IF context["sfx"] = Asked \/ (context["sfx"] = NoContext /\ effects = "none")
       THEN Advances(TRUE, effects) /\ wished' = [wished EXCEPT !["sfx"] = Asked]
       ELSE Awaits("browser") /\ UNCHANGED wished

Tracked == ready \/ preparing # "no"

\* A receive graph on its way is waited for, whatever it was begun with.
ApplyReceive ==
    /\ reconcile.at = "receive" /\ wished' = [wished EXCEPT !["receive"] = Asked]
    /\ outdated' = (outdated /\ context["receive"] # Asked)
    /\ IF context["receive"] = NoContext /\ Tracked
       THEN Awaits("graph") /\ initializing' = IF initializing = NoContext THEN Asked ELSE initializing
       ELSE /\ IF context["receive"] \in {NoContext, Asked} THEN Advances(TRUE, effects) ELSE Awaits("browser")
            /\ UNCHANGED initializing

ApplyDisposed == reconcile.at = "gone" /\ Awaits("browser") /\ UNCHANGED <<wished, initializing, outdated>>

ApplyOutput ==
    /\ reconcile.pc \in {"apply", "restore"} /\ reconcile.awaits = "nothing"
    /\ ApplyEffects \/ ApplyReceive \/ ApplyDisposed
    /\ UNCHANGED <<profile, picking, listening, context, preparing, ready, stray>>

\* The browser took, or refused, the output or the context for it.
TakesOutput == context' = [context EXCEPT ![reconcile.at] = Asked]

OutputAnswered(ok) ==
    /\ reconcile.awaits \in {"browser", IF ok THEN "made" ELSE "unmade"}
    /\ IF ok /\ reconcile.awaits = "browser" /\ reconcile.at # "gone"
       THEN TakesOutput /\ wished' = [wished EXCEPT ![reconcile.at] = Asked]
       ELSE UNCHANGED <<context, wished>>
    /\ outdated' = (outdated /\ ~(reconcile.at = "receive" /\ ok /\ context'["receive"] = Asked))
    /\ Advances(ok, IF ok /\ reconcile.at = "sfx" THEN "none" ELSE effects)
    /\ UNCHANGED <<profile, picking, listening, initializing, preparing, ready, stray>>

------------------------------------------------------------
(* What the two adapters do by themselves.                                 *)

GraphAwaited(outcome) ==
    reconcile' = IF reconcile.awaits = "graph" THEN [reconcile EXCEPT !.awaits = outcome] ELSE reconcile

\* A track comes: the owner of its playback is made and registered, and wants its graph.
Registers ==
    LET t == Target(profile, "receive") IN
    /\ listening' = TRUE /\ wished' = [wished EXCEPT !["receive"] = t] /\ initializing' = t
    /\ IF RequiresConfiguredOutput(t)
       THEN silenced' = silenced \cup {"receive"} /\ ScheduleApply
       ELSE silenced' = silenced \ {"receive"} /\ UNCHANGED <<outputStatus, reconcile>>
    /\ lost' = lost \ {"receive"}

AttachTrack ==
    /\ preparing = "no" /\ preparing' = "waits"
    /\ IF ~listening THEN Registers
       ELSE /\ initializing' = IF context["receive"] = NoContext /\ initializing = NoContext
                               THEN wished["receive"] ELSE initializing
            /\ UNCHANGED <<listening, wished, silenced, lost, outputStatus, reconcile>>
    /\ UNCHANGED <<profile, effectiveProfile, picking, context, ready, stray, effects, outdated>>

ReceiveGraphMade ==
    /\ initializing # NoContext /\ initializing' = NoContext
    /\ context' = [context EXCEPT !["receive"] = initializing] /\ GraphAwaited("made")
    /\ outdated' = (initializing # wished["receive"])
    /\ UNCHANGED <<profile, effectiveProfile, outputStatus, picking, listening, silenced, wished, preparing, ready,
                   stray, effects, lost>>

ReceiveGraphFails ==
    /\ initializing # NoContext /\ initializing' = NoContext /\ GraphAwaited("unmade")
    /\ preparing' = IF preparing = "waits" THEN "failed" ELSE preparing
    /\ UNCHANGED <<profile, effectiveProfile, outputStatus, picking, listening, silenced, wished, context, ready,
                   stray, effects, lost, outdated>>

Prepared ==
    /\ preparing = "waits" /\ context["receive"] # NoContext
    /\ preparing' = "no" /\ ready' = TRUE
    /\ UNCHANGED <<profile, effectiveProfile, outputStatus, reconcile, picking, listening, silenced, wished, context,
                   initializing, stray, effects, lost, outdated>>

\* Failures are reported by the adapter's name: whichever owner is registered then is muted.
ReportAdapterFailure ==
    /\ IF listening
       THEN /\ silenced' = silenced \cup {"receive"} /\ lost' = lost \cup {"receive"}
            /\ outputStatus' = "device-lost"
       ELSE UNCHANGED <<silenced, lost, outputStatus>>
    /\ UNCHANGED <<profile, effectiveProfile, reconcile, picking, listening, wished, context, initializing, ready,
                   effects, outdated>>

PrepareFails == preparing # "no" /\ preparing' = "no" /\ UNCHANGED stray /\ ReportAdapterFailure
StrayFails == stray /\ stray' = FALSE /\ UNCHANGED preparing /\ ReportAdapterFailure

StrayEnds ==
    /\ stray /\ stray' = FALSE
    /\ UNCHANGED <<profile, effectiveProfile, outputStatus, reconcile, picking, listening, silenced, wished, context,
                   initializing, preparing, ready, effects, lost, outdated>>

\* The preparation of a released track goes on, and fails if it was waiting to play.
Release ==
    /\ Tracked /\ ready' = FALSE /\ preparing' = "no" /\ stray' = (stray \/ preparing # "no")
    /\ UNCHANGED <<profile, effectiveProfile, outputStatus, reconcile, picking, listening, silenced, wished, context,
                   initializing, effects, lost, outdated>>

\* The loop goes on with an owner that was disposed of.
DisposePlayback ==
    /\ listening /\ listening' = FALSE /\ ready' = FALSE /\ preparing' = "no"
    /\ stray' = (stray \/ preparing # "no") /\ outdated' = FALSE
    /\ context' = [context EXCEPT !["receive"] = NoContext] /\ initializing' = NoContext
    /\ wished' = [wished EXCEPT !["receive"] = Target(profile, "receive")]
    /\ reconcile' = [reconcile EXCEPT
            !.adapters = {IF r = "receive" THEN "gone" ELSE r : r \in @},
            !.at = IF @ = "receive" THEN "gone" ELSE @,
            !.awaits = IF @ = "graph" THEN "unmade" ELSE @]
    /\ silenced' = silenced \ {"receive"} /\ lost' = lost \ {"receive"}
    /\ UNCHANGED <<profile, effectiveProfile, outputStatus, picking, effects>>

\* A sound to be played: a context with nothing configured is made at once.
PlayCue ==
    /\ context["sfx"] = NoContext
    /\ IF RequiresConfiguredOutput(wished["sfx"])
       THEN effects # "asked" /\ effects' = "asked" /\ ScheduleApply /\ UNCHANGED context
       ELSE /\ context' = [context EXCEPT !["sfx"] = wished["sfx"]]
            /\ UNCHANGED <<effects, outputStatus, reconcile>>
    /\ UNCHANGED <<profile, effectiveProfile, picking, listening, silenced, wished, initializing, preparing, ready,
                   stray, lost, outdated>>

AudioOutputNext ==
    \/ \E d \in Speaker \cup {Usual} : SetDevice(d) \/ PickerAnswered(d)
    \/ \E r \in Role, c \in Setting \cup {Usual} : UpdateRoleSettings(r, c)
    \/ Reapply \/ ChooseWithPicker \/ PickerFails \/ ReconcileStarts \/ ApplyOutput
    \/ \E ok \in BOOLEAN : OutputAnswered(ok)
    \/ AttachTrack \/ ReceiveGraphMade \/ ReceiveGraphFails \/ Prepared \/ PrepareFails \/ Release
    \/ StrayFails \/ StrayEnds \/ DisposePlayback \/ PlayCue

------------------------------------------------------------
OutputQuiet ==
    /\ reconcile.pc = "idle" /\ ~picking /\ ~stray
    /\ initializing = NoContext /\ preparing = "no"

\* When nothing is under way, an output shown as ready is the wished one. Shown as ready or as
\* failed, every adapter plays where the last profile that worked had it, or where the wished
\* one has it, and none is silent but those lost since that profile was applied, by a failure
\* of their own or by a rollback that failed.
OutputSettles ==
    OutputQuiet =>
        /\ outputStatus # "applying"
        /\ outputStatus = "ready" => effectiveProfile = profile
        /\ outputStatus \in {"ready", "failed"} =>
              /\ silenced \subseteq lost
              /\ \A r \in Role \ lost : context[r] \in {NoContext, Target(effectiveProfile, r), Target(profile, r)}
                                          \/ (r = "receive" /\ outdated)
=============================================================================
