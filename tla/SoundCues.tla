------------------------------ MODULE SoundCues ------------------------------
(***************************************************************************)
(* The short sounds a tab plays for what happens in its call               *)
(* (lib/voiceSounds.ts): one at a time, with one that may wait, the ones   *)
(* about others at a distance from each other. Time passes in ticks, and a *)
(* timer may be late. The number of the session an event belongs to is a   *)
(* mark on what waits: whoever ends a session drops what waits.            *)
(***************************************************************************)
EXTENDS Integers

CONSTANTS Coalesce,     \* SOUND_REMOTE_COALESCE_MS
          Expiry,       \* SOUND_EVENT_EXPIRY_MS
          CueLength     \* the longest cue

ASSUME SoundAssumption == Coalesce \in Nat /\ Expiry \in Nat /\ CueLength \in Nat

VARIABLES
    playable, interacted,   \* the sounds are on and loud; the user has touched the page
    configured,             \* the output's settings need a context made for them
    applying, resuming,     \* outputApply and resuming
    soundContext,           \* the state of the context, if there is one
    timer, tone,            \* until finishCue may run, and until the tones end by themselves
    waitingCue,             \* pending
    sinceRemote,            \* since the last cue about others
    started                 \* history: how the last cue started

soundVars == <<playable, interacted, configured, applying, resuming, soundContext, timer, tone, waitingCue, sinceRemote,
               started>>

Cue == {"local", "remote"}
Off == -1
NoCue == [cue |-> "none", age |-> 0, old |-> FALSE]
NeverStarted == [cue |-> "none", age |-> 0, old |-> FALSE, gap |-> 0, alone |-> TRUE]
CueEvent(cue) == [cue |-> cue, age |-> 0, old |-> FALSE]

SoundTypeOK ==
    /\ {playable, interacted, configured, applying, resuming} \subseteq BOOLEAN
    /\ soundContext \in {"none", "running", "suspended", "closed"}
    /\ timer \in Off .. (Coalesce + CueLength) /\ tone \in 0 .. CueLength /\ sinceRemote \in 0 .. Coalesce
    /\ waitingCue \in [cue : Cue \cup {"none"}, age : 0 .. Expiry + 1, old : BOOLEAN]
    /\ started \in [cue : Cue \cup {"none"}, age : 0 .. Expiry + 1, old : BOOLEAN, gap : 0 .. Coalesce, alone : BOOLEAN]

SoundCuesInit ==
    /\ playable = FALSE /\ interacted = FALSE /\ configured = FALSE /\ applying = FALSE /\ resuming = FALSE
    /\ soundContext = "none" /\ timer = Off /\ tone = 0 /\ waitingCue = NoCue
    /\ sinceRemote = Coalesce /\ started = NeverStarted

settingVars == <<playable, interacted, configured, applying>>
cueVars == <<timer, tone, waitingCue, sinceRemote, started>>

------------------------------------------------------------
(* Ending what sounds.                                                     *)

DropsWaiting == NoCue

StopTones == tone' = 0 /\ timer' = Off

\* A session that fades ends its tones within a hundredth of a second, and then runs finishCue.
CancelSession(fade) ==
    /\ waitingCue' = DropsWaiting
    /\ IF fade /\ soundContext = "running" /\ tone > 0 THEN tone' = 1 /\ timer' = 0 ELSE StopTones
    /\ UNCHANGED <<sinceRemote, started>>

------------------------------------------------------------
(* Playing.                                                                *)

\* The browser may refuse the nodes; the cue counts as played.
StartCue(event) ==
    /\ sinceRemote' = IF event.cue = "remote" THEN 0 ELSE sinceRemote
    /\ \/ /\ tone' \in 1 .. CueLength /\ timer' = tone' /\ waitingCue' = NoCue
          /\ started' = [cue |-> event.cue, age |-> event.age, old |-> event.old, gap |-> sinceRemote,
                         alone |-> tone = 0 \/ timer = 0]
       \/ StopTones /\ waitingCue' = DropsWaiting /\ UNCHANGED started

TakesPlace(cue) == waitingCue = NoCue \/ cue = "local" \/ waitingCue.cue # "local"

TakesCue(cue) ==
    \/ /\ timer # Off /\ waitingCue' = IF TakesPlace(cue) THEN CueEvent(cue) ELSE waitingCue
       /\ UNCHANGED <<timer, tone, sinceRemote, started>>
    \/ /\ timer = Off /\ cue = "remote" /\ sinceRemote < Coalesce
       /\ waitingCue' = CueEvent(cue) /\ timer' = Coalesce - sinceRemote /\ UNCHANGED <<tone, sinceRemote, started>>
    \/ timer = Off /\ (cue = "local" \/ sinceRemote = Coalesce) /\ StartCue(CueEvent(cue))

Audible == interacted /\ playable

\* The first cue makes the context, which the browser may start suspended, unless the output's
\* settings need one made for them: then it asks the outputs for it, and the cue is lost.
Play(cue) ==
    /\ Audible /\ UNCHANGED <<playable, interacted, configured>>
    /\ \/ /\ soundContext = "none" /\ configured /\ applying' = TRUE
          /\ UNCHANGED <<soundContext, resuming, cueVars>>
       \/ /\ soundContext = "none" /\ ~configured /\ UNCHANGED applying
          /\ \/ soundContext' = "running" /\ TakesCue(cue) /\ UNCHANGED resuming
             \/ soundContext' = "suspended" /\ CancelSession(FALSE) /\ resuming' = TRUE
       \/ soundContext = "running" /\ TakesCue(cue) /\ UNCHANGED <<soundContext, resuming, applying>>
       \/ /\ soundContext \in {"suspended", "closed"} /\ CancelSession(FALSE)
          /\ resuming' = (resuming \/ soundContext = "suspended") /\ UNCHANGED <<soundContext, applying>>

Fresh(event) == event # NoCue /\ event.age <= Expiry

FinishCue ==
    /\ timer = 0 /\ UNCHANGED <<settingVars, resuming, soundContext>>
    /\ LET able == playable /\ soundContext = "running"
           wait == IF waitingCue.cue = "remote" THEN Coalesce - sinceRemote ELSE 0
       IN
       IF ~able \/ ~Fresh(waitingCue)
       THEN StopTones /\ waitingCue' = NoCue /\ UNCHANGED <<sinceRemote, started>>
       ELSE IF wait > 0 THEN tone' = 0 /\ timer' = wait /\ UNCHANGED <<waitingCue, sinceRemote, started>>
       ELSE StartCue(waitingCue)

Least(a, b) == IF a < b THEN a ELSE b
Down(n) == IF n > 0 THEN n - 1 ELSE n

\* A timer that is due may be late.
Tick ==
    /\ timer' = Down(timer) /\ tone' = Down(tone) /\ sinceRemote' = Least(sinceRemote + 1, Coalesce)
    /\ waitingCue' = IF waitingCue = NoCue THEN NoCue ELSE [waitingCue EXCEPT !.age = Least(@ + 1, Expiry + 1)]
    /\ UNCHANGED <<settingVars, resuming, soundContext, started>>

------------------------------------------------------------
(* The page, the browser and the outputs.                                  *)

MarkInteracted ==
    /\ ~interacted /\ interacted' = TRUE
    /\ UNCHANGED <<playable, configured, applying, resuming, soundContext, cueVars>>

\* The setting, the volume, or the account changes.
Configure ==
    /\ playable' = ~playable /\ UNCHANGED <<interacted, configured, applying, resuming, soundContext>>
    /\ IF playable THEN CancelSession(TRUE) ELSE UNCHANGED cueVars

\* Leaving the call.
CancelVoiceSoundSession ==
    soundContext # "none" /\ CancelSession(FALSE) /\ UNCHANGED <<settingVars, resuming, soundContext>>

OnContextStateChange ==
    /\ soundContext \in {"running", "suspended"} /\ \E s \in {"running", "suspended", "closed"} \ {soundContext} :
          /\ soundContext' = s
          /\ IF s = "running" THEN UNCHANGED cueVars ELSE CancelSession(FALSE)
    /\ UNCHANGED <<settingVars, resuming>>

ResumeEnds ==
    resuming /\ resuming' = FALSE /\ UNCHANGED <<settingVars, soundContext, cueVars>>

\* New settings: at once while there is no context, else in a context of their own.
SoundOutputApplied ==
    /\ UNCHANGED <<playable, interacted, resuming>> /\ configured' \in BOOLEAN
    /\ \/ /\ soundContext = "none" /\ ~applying /\ configured' # configured
          /\ UNCHANGED <<applying, soundContext, cueVars>>
       \/ /\ (soundContext # "none" \/ applying) /\ applying' = FALSE /\ soundContext' \in {"running", "suspended"}
          /\ CancelSession(FALSE)

\* The outputs could not apply them.
OutputFails ==
    /\ applying /\ applying' = FALSE
    /\ UNCHANGED <<playable, interacted, configured, resuming, soundContext, cueVars>>

SoundCuesNext ==
    \/ \E cue \in Cue : Play(cue)
    \/ FinishCue \/ Tick \/ MarkInteracted \/ Configure \/ CancelVoiceSoundSession \/ OnContextStateChange \/ ResumeEnds
    \/ SoundOutputApplied \/ OutputFails

SoundCuesSpec == SoundCuesInit /\ [][SoundCuesNext]_soundVars

------------------------------------------------------------
\* A cue starts while its event is fresh, in the session of its event, when nothing else sounds,
\* and, if it is about others, at the distance from the one before; a cue that waits has a timer
\* to end its wait, and nothing sounds once the sounds are off but what is fading out.
CuesAreTimely ==
    /\ started.age <= Expiry /\ ~started.old /\ started.alone
    /\ started.cue = "remote" => started.gap = Coalesce
    /\ waitingCue # NoCue => timer # Off
    /\ tone > 0 => soundContext = "running" /\ (playable \/ timer = 0)
=============================================================================
