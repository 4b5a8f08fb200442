------------------------------ MODULE VoiceMix ------------------------------
(***************************************************************************)
(* How loud a listener hears each member of a call                         *)
(* (web hooks/useVoicePersonalMix.ts, API user/voice-mix.service.ts).      *)
(* A change is heard at once and written a while after the last one, at    *)
(* most one write per member under way; a write that ends sends what was   *)
(* changed meanwhile.  A volume and a mute are one value, Usual when       *)
(* neither is set: then the row is deleted.  Only one page edits it.       *)
(***************************************************************************)
EXTENDS Naturals

CONSTANTS
    Listener, NoListener,
    Target,                 \* the members a listener may tune
    Loudness, Usual,        \* the values, and the one no row stands for
    NoWrite

VARIABLES
    mixRow,         \* stored values, Usual where there is no row
    mix,            \* the page's session: its listener and what it wants
    mixList,        \* the list it is loading: NoWrite or what was read
    writes,         \* per member the write under way
    lateWrites,     \* aborted or failed writes the server may still apply
    crossed         \* history: members an aborted write changed under the session

mixVars == <<mixRow, mix, mixList, writes, lateWrites, crossed>>

Write == [value : Loudness, served : BOOLEAN]

ASSUME VoiceMixAssumption == Usual \in Loudness /\ NoWrite \notin Write

VoiceMixTypeOK ==
    /\ mixRow \in [Listener -> [Target -> Loudness]]
    /\ mix \in [listener : Listener \union {NoListener},
                status : {"loading", "ready", "error"},
                wants : [Target -> Loudness], pending : SUBSET Target,
                errors : SUBSET Target, timers : SUBSET Target]
    /\ mixList \in {NoWrite} \union [Target -> Loudness]
    /\ writes \in [Target -> {NoWrite} \union Write]
    /\ lateWrites \subseteq Listener \X Target \X Loudness
    /\ crossed \subseteq Target

CreateSession(a) ==
    [listener |-> a, status |-> "loading", wants |-> [t \in Target |-> Usual],
     pending |-> {}, errors |-> {}, timers |-> {}]
NoWrites == [t \in Target |-> NoWrite]

VoiceMixInit ==
    /\ mixRow \in [Listener -> [Target -> Loudness]]
    /\ mix = CreateSession(NoListener) /\ mixList = NoWrite
    /\ writes = NoWrites /\ lateWrites = {} /\ crossed = {}

\* Another listener: the old session's timers are cleared and its writes
\* aborted, of which the server may not know.
ListenerChanges(a) ==
    /\ a # mix.listener /\ lateWrites = {}
    /\ mix' = CreateSession(a) /\ mixList' = NoWrite
    /\ writes' = NoWrites /\ crossed' = {}
    /\ lateWrites' = {<<mix.listener, t, writes[t].value>> :
                        t \in {u \in Target : writes[u] # NoWrite /\ ~writes[u].served}}
    /\ UNCHANGED mixRow

ServeLateWrite ==
    \E w \in lateWrites : \E applied \in BOOLEAN :
        /\ lateWrites' = lateWrites \ {w}
        /\ mixRow' = IF applied THEN [mixRow EXCEPT ![w[1]][w[2]] = w[3]] ELSE mixRow
        /\ crossed' = IF applied /\ w[1] = mix.listener THEN crossed \union {w[2]} ELSE crossed
        /\ UNCHANGED <<mix, mixList, writes>>

ServeList ==
    /\ mix.listener # NoListener /\ mix.status = "loading" /\ mixList = NoWrite
    /\ mixList' = mixRow[mix.listener]
    /\ UNCHANGED <<mixRow, mix, writes, lateWrites, crossed>>

\* The page is ready only when the whole list is known to every sink.
Hydrated ==
    /\ mixList # NoWrite
    /\ mix' = [mix EXCEPT !.status = "ready", !.wants = mixList]
    /\ mixList' = NoWrite
    /\ UNCHANGED <<mixRow, writes, lateWrites, crossed>>

HydrateFails ==
    /\ mix.listener # NoListener /\ mix.status = "loading"
    /\ mix' = [mix EXCEPT !.status = "error"] /\ mixList' = NoWrite
    /\ UNCHANGED <<mixRow, writes, lateWrites, crossed>>

RetryHydrate ==
    /\ mix.status = "error" /\ mix' = [mix EXCEPT !.status = "loading"]
    /\ UNCHANGED <<mixRow, mixList, writes, lateWrites, crossed>>

\* A member is tuned, or a failed write of the same value retried.
SetPreference(t, v) ==
    /\ mix.status = "ready"
    /\ v # mix.wants[t] \/ t \in mix.errors
    /\ mix' = [mix EXCEPT !.wants[t] = v, !.pending = @ \union {t},
                          !.errors = @ \ {t}, !.timers = @ \union {t}]
    /\ UNCHANGED <<mixRow, mixList, writes, lateWrites, crossed>>

\* What is pending is written: the value the page wants at that moment.
Flushed(t, m) ==
    /\ mix' = [m EXCEPT !.pending = @ \ {t}, !.timers = @ \ {t}]
    /\ writes' = [writes EXCEPT ![t] = [value |-> m.wants[t], served |-> FALSE]]

TimerFires(t) ==
    /\ t \in mix.timers
    /\ IF t \in mix.pending /\ writes[t] = NoWrite THEN Flushed(t, mix)
       ELSE mix' = [mix EXCEPT !.timers = @ \ {t}] /\ UNCHANGED writes
    /\ UNCHANGED <<mixRow, mixList, lateWrites, crossed>>

ServeWrite(t) ==
    /\ writes[t] # NoWrite /\ ~writes[t].served
    /\ mixRow' = [mixRow EXCEPT ![mix.listener][t] = writes[t].value]
    /\ writes' = [writes EXCEPT ![t].served = TRUE]
    /\ UNCHANGED <<mix, mixList, lateWrites, crossed>>

\* A write ended: what was changed meanwhile is written next.
WriteEnds(t, m) ==
    IF t \in m.pending THEN Flushed(t, m)
    ELSE mix' = m /\ writes' = [writes EXCEPT ![t] = NoWrite]

WriteAnswered(t) ==
    /\ writes[t] # NoWrite /\ writes[t].served
    /\ WriteEnds(t, mix)
    /\ UNCHANGED <<mixRow, mixList, lateWrites, crossed>>

\* It failed or the server refused it (the member left every shared server);
\* an older failure does not spoil a newer change.
WriteFails(t) ==
    /\ writes[t] # NoWrite
    /\ WriteEnds(t, [mix EXCEPT !.errors = IF t \in mix.pending THEN @ ELSE @ \union {t}])
    /\ lateWrites' = IF writes[t].served \/ lateWrites # {} THEN lateWrites
                     ELSE {<<mix.listener, t, writes[t].value>>}
    /\ UNCHANGED <<mixRow, mixList, crossed>>

VoiceMixNext ==
    \/ \E a \in Listener \union {NoListener} : ListenerChanges(a)
    \/ ServeLateWrite \/ ServeList \/ Hydrated \/ HydrateFails \/ RetryHydrate
    \/ \E t \in Target :
        \/ \E v \in Loudness : SetPreference(t, v)
        \/ TimerFires(t) \/ ServeWrite(t) \/ WriteAnswered(t) \/ WriteFails(t)

VoiceMixSpec == VoiceMixInit /\ [][VoiceMixNext]_mixVars

\* Once a member's change is neither awaited, under way nor reported failed,
\* nothing of it is left unsent, and the member is heard as loud as the row
\* says, so as loud after the next reload: unless an aborted or failed write
\* came late.
MixIdle(t) ==
    mix.status = "ready" /\ t \notin mix.errors /\ t \notin mix.timers /\ writes[t] = NoWrite
VoiceMixSettles ==
    \A t \in Target \ crossed :
        MixIdle(t) => t \notin mix.pending /\ mix.wants[t] = mixRow[mix.listener][t]
=============================================================================
