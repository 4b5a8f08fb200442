--------------------------- MODULE CallTransport ---------------------------
(***************************************************************************)
(* CallTransportOwner (web/src/lib/callTransport.ts): the account's wishes *)
(* for how its microphone is sent, and what it shows of each.  A sender's  *)
(* parameters are written one transaction after the other, read back and   *)
(* taken back where the browser did not keep them; the codec is preferred, *)
(* negotiated and read from the statistics; the content hint is written to *)
(* the published track at once.                                            *)
(*                                                                         *)
(* The sender of one peer stands for each (they share the wishes only),    *)
(* and one of its scalar parameters for all; "auto" is no wish.  Adaptive  *)
(* packet time (which turns the packet time off), the jitter target of a   *)
(* receiver (like the hint, but per receiver), where the profile is        *)
(* stored and the list of codecs are left out, and so are errors that      *)
(* cannot come: the renegotiation passed in catches its own, and a         *)
(* preference is only written for codecs the browser has.                  *)
(***************************************************************************)
CONSTANTS
    Rate,           \* values a parameter may be wished to have
    Codec,          \* codecs that may be preferred
    Lacked,         \* those of them this browser has not
    MicTrack,       \* tracks the capture publishes
    AUTO,           \* no wish; of a parameter or codec, what the browsers chose
    NoWire          \* no sender, no track, no receiver

VARIABLES
    wish,       \* profile: [rate, codec, hint]
    wire,       \* the bound sender and its record, or NoWire
    setter,     \* the application under way on it
    queued,     \* a newer request waits behind it (record.version is ahead)
    reading,    \* statistics are being read for the current version
    due,        \* a codec preference awaits its negotiation
    hints,      \* content hint of each track
    onAir,      \* the published track
    callOn,     \* callCurrent(): the capture is in a call that is still this one
    slipped,    \* history: a parameter was set and not recorded as managed
    unread      \* history: the statistics that would have settled the codec were dropped

transportVars == <<wish, wire, setter, queued, reading, due, hints, onAir, callOn, slipped,
                   unread>>

Idle == [step |-> "none", target |-> AUTO, before |-> AUTO, live |-> FALSE]
Shown == {"none", "pending", "applied", "unavailable", "failed"}
Wire ==
    [rate : Rate \union {AUTO}, ready : BOOLEAN, managed : BOOLEAN,
     shown : Shown, effective : Rate \union {AUTO}, intent : Codec \union {AUTO},
     used : Codec \union {AUTO}, codecShown : Shown]
Setter ==
    [step : {"none", "set", "restore", "rollback"}, target : Rate \union {AUTO},
     before : Rate \union {AUTO}, live : BOOLEAN]

ASSUME CallTransportAssumption ==
    /\ Lacked \subseteq Codec /\ AUTO \notin Codec
    /\ NoWire \notin MicTrack \union Wire

CallTransportTypeOK ==
    /\ wish \in [rate : Rate \union {AUTO}, codec : Codec \union {AUTO}, hint : BOOLEAN]
    /\ wire \in Wire \union {NoWire}
    /\ setter \in Setter
    /\ {queued, reading, due, callOn, slipped, unread} \subseteq BOOLEAN
    /\ hints \in [MicTrack -> BOOLEAN] /\ onAir \in MicTrack \union {NoWire}

CallTransportInit ==
    /\ wish \in [rate : Rate \union {AUTO}, codec : {AUTO}, hint : {FALSE}]
    /\ wire = NoWire /\ setter = Idle
    /\ queued = FALSE /\ reading = FALSE /\ due = FALSE
    /\ hints = [t \in MicTrack |-> FALSE] /\ onAir = NoWire
    /\ callOn = FALSE /\ slipped = FALSE /\ unread = FALSE

Present == wire # NoWire /\ callOn

------------------------------------------------------------
(* Wishes                                                                  *)

\* preferredCodec: the preference is written to the transceiver and awaits
\* negotiation, unless this browser lacks it.
PrefersCodec(w, codec) ==
    [w EXCEPT !.intent = IF codec \in Lacked THEN @ ELSE codec,
              !.codecShown = IF w.intent = codec
                             THEN IF codec = AUTO /\ @ = "none" THEN "applied" ELSE @
                             ELSE IF codec \in Lacked THEN "unavailable" ELSE "pending"]

\* The sender's next application waits for the one under way, which is now
\* out of date.
SkipsWhileSetting == UNCHANGED setter /\ queued' = (setter.step = "none")
Schedules == setter' = [setter EXCEPT !.live = FALSE] /\ queued' = TRUE

\* applyHint: written to the published track, taken back if it did not stick.
HintOf(want) ==
    IF callOn /\ onAir # NoWire THEN {[hints EXCEPT ![onAir] = want], hints} ELSE {hints}

\* update and retry: everything is applied anew; statistics read for the
\* version before are dropped, and only a retry reads them again.
Reapplies(again) ==
    /\ hints' \in HintOf(wish'.hint)
    /\ IF Present
       THEN /\ wire' = PrefersCodec(wire, wish'.codec) /\ Schedules
            /\ due' = (due \/ (wire'.intent # wire.intent))
            /\ reading' = again
            /\ unread' = (unread \/ (reading /\ ~again))
       ELSE UNCHANGED <<wire, setter, queued, due, reading, unread>>

UpdateTransport ==
    /\ \/ \E v \in Rate \union {AUTO} : wish' = [wish EXCEPT !.rate = v]
       \/ \E c \in Codec \union {AUTO} : wish' = [wish EXCEPT !.codec = c]
       \/ wish' = [wish EXCEPT !.hint = ~@]
    /\ wish' # wish /\ Reapplies(FALSE)
    /\ UNCHANGED <<onAir, callOn, slipped>>

RetryTransport ==
    /\ UNCHANGED wish /\ Reapplies(TRUE)
    /\ UNCHANGED <<onAir, callOn, slipped>>

------------------------------------------------------------
(* The call                                                                *)

\* publishTrack: the track before gets back the hint it came with.
PublishTrack(t) ==
    /\ callOn /\ onAir' = t
    /\ LET restored == IF onAir \in MicTrack \ {t} THEN [hints EXCEPT ![onAir] = FALSE] ELSE hints
       IN  hints' \in {restored, [restored EXCEPT ![t] = wish.hint]}
    /\ IF wire # NoWire THEN Schedules ELSE UNCHANGED <<setter, queued>>
    /\ UNCHANGED <<wish, wire, reading, due, callOn, slipped, unread>>

NewWire == [rate |-> AUTO, ready |-> FALSE, managed |-> FALSE, shown |-> "none",
            effective |-> AUTO, intent |-> AUTO, used |-> AUTO, codecShown |-> "none"]

\* bindSender, for a connection not seen before; its first offer follows.
BindSender ==
    /\ callOn /\ onAir # NoWire /\ wire = NoWire
    /\ wire' = PrefersCodec(NewWire, wish.codec)
    /\ queued' = TRUE /\ due' = TRUE
    /\ UNCHANGED <<wish, setter, reading, hints, onAir, callOn, slipped, unread>>

\* What is under way on a sender let go of changes nothing more.
LetsGo ==
    /\ wire' = NoWire /\ setter' = Idle /\ queued' = FALSE /\ reading' = FALSE /\ due' = FALSE
    /\ slipped' = FALSE /\ unread' = FALSE

UnbindSender ==
    /\ wire # NoWire /\ LetsGo /\ UNCHANGED <<wish, hints, onAir, callOn>>

CallStarts ==
    /\ ~callOn /\ onAir = NoWire /\ callOn' = TRUE
    /\ UNCHANGED <<wish, wire, setter, queued, reading, due, hints, onAir,
                   slipped, unread>>

\* The call is not this one any more, before the capture is stopped.
CallExpires ==
    /\ callOn /\ callOn' = FALSE
    /\ UNCHANGED <<wish, wire, setter, queued, reading, due, hints, onAir,
                   slipped, unread>>

ClearCall ==
    /\ LetsGo /\ callOn' = FALSE /\ onAir' = NoWire
    /\ hints' = IF onAir # NoWire THEN [hints EXCEPT ![onAir] = FALSE] ELSE hints
    /\ UNCHANGED wish

------------------------------------------------------------
(* The codec                                                               *)

\* The connection's negotiation is done: the codec it settled on, and
\* parameters that can be written.
Negotiated ==
    /\ wire # NoWire /\ Schedules /\ due' = FALSE
    /\ \E c \in (Codec \ Lacked) \union {AUTO} : wire' = [wire EXCEPT !.ready = TRUE, !.used = c]
    /\ reading' = (reading \/ callOn)
    /\ unread' = IF callOn THEN FALSE ELSE unread
    /\ UNCHANGED <<wish, hints, onAir, callOn, slipped>>

\* readCodec: statistics may say nothing of a codec yet, or fail.
CodecRead ==
    /\ reading /\ reading' = FALSE
    /\ \/ UNCHANGED wire /\ unread' = TRUE
       \/ /\ Present /\ unread' = FALSE
          /\ wire' = [wire EXCEPT !.codecShown =
                        IF wish.codec \in {AUTO, wire.used} THEN "applied" ELSE "unavailable"]
    /\ UNCHANGED <<wish, setter, queued, due, hints, onAir, callOn, slipped>>

------------------------------------------------------------
(* Parameters                                                              *)

\* applySender: the next request in the queue, when it is still the latest.
\* Nothing wished and nothing ever set: what the browser chose is shown.
ApplySender ==
    /\ setter.step = "none" /\ queued /\ queued' = FALSE
    /\ \/ /\ ~Present \/ ~wire.ready
          /\ UNCHANGED <<wire, setter>>
       \/ /\ Present /\ wire.ready /\ wish.rate = AUTO /\ ~wire.managed
          /\ wire' = [wire EXCEPT !.shown = "applied", !.effective = wire.rate] /\ UNCHANGED setter
       \/ /\ Present /\ wire.ready /\ (wish.rate # AUTO \/ wire.managed)
          /\ wire' = [wire EXCEPT !.shown = "pending"]
          /\ setter' = [step |-> "set", target |-> wish.rate, before |-> wire.rate, live |-> TRUE]
    /\ UNCHANGED <<wish, reading, due, hints, onAir, callOn, slipped, unread>>

InForce == setter.live /\ Present
Step(step) == setter' = [setter EXCEPT !.step = step]

\* setParameters is answered, kept as asked or not.  Out of date: the next
\* application starts from what is there now.
SetAnswered ==
    /\ setter.step = "set"
    /\ \E kept1 \in BOOLEAN :
        LET rate == IF kept1 THEN setter.target ELSE wire.rate
            exact == rate = setter.target
        IN  IF ~InForce
            THEN /\ setter' = Idle /\ wire' = [wire EXCEPT !.rate = rate]
                 /\ slipped' = (slipped \/ (~wire.managed /\ rate # AUTO))
            ELSE /\ wire' = [wire EXCEPT !.rate = rate, !.managed = TRUE, !.effective = rate,
                                         !.shown = IF exact THEN "applied" ELSE "unavailable"]
                 /\ IF exact THEN setter' = Idle ELSE Step("restore")
                 /\ slipped' = FALSE
    /\ UNCHANGED <<wish, queued, reading, due, hints, onAir, callOn, unread>>

\* The setter rejects, after which only this field is taken back.
SetFails ==
    /\ setter.step = "set"
    /\ IF InForce THEN wire' = [wire EXCEPT !.shown = "failed"] /\ Step("rollback")
       ELSE UNCHANGED wire /\ setter' = Idle
    /\ UNCHANGED <<wish, queued, reading, due, hints, onAir, callOn, slipped, unread>>

\* Three seconds: shown as failed; its late answer still counts.
SetTimesOut ==
    /\ setter.step \in {"set", "rollback"} /\ InForce /\ wire.shown # "failed"
    /\ wire' = [wire EXCEPT !.shown = "failed"]
    /\ UNCHANGED <<wish, setter, queued, reading, due, hints, onAir, callOn,
                   slipped, unread>>

TakenBack ==
    /\ setter.step \in {"restore", "rollback"} /\ setter' = Idle
    /\ \E done \in BOOLEAN :
        LET rate == IF done THEN setter.before ELSE wire.rate
            shown == IF done /\ setter.step = "restore" THEN "unavailable" ELSE "failed"
        IN  wire' = IF InForce THEN [wire EXCEPT !.rate = rate, !.shown = shown,
                                        !.effective = IF shown = "failed" THEN @ ELSE rate]
                    ELSE [wire EXCEPT !.rate = rate]
    /\ UNCHANGED <<wish, queued, reading, due, hints, onAir, callOn, slipped, unread>>

CallTransportNext ==
    \/ UpdateTransport \/ RetryTransport
    \/ \E t \in MicTrack : PublishTrack(t)
    \/ BindSender \/ UnbindSender
    \/ CallStarts \/ CallExpires \/ ClearCall
    \/ Negotiated \/ CodecRead
    \/ ApplySender \/ SetAnswered \/ SetFails \/ SetTimesOut \/ TakenBack

CallTransportSpec == CallTransportInit /\ [][CallTransportNext]_transportVars

------------------------------------------------------------
TransportQuiet == Present /\ wire.ready /\ setter.step = "none" /\ ~queued /\ ~reading /\ ~due

\* When nothing is under way on a sender of the current call, what is shown of
\* the wishes is so: a parameter said to be applied is the sender's, as wished,
\* whatever was asked, answered late or taken back meanwhile; a codec said to
\* be applied is the one in use.  Only a parameter set by a transaction that
\* was out of date, and not wished any more, stays; only a codec whose
\* statistics were dropped may be shown as it was before.  No track let go keeps the hint.
TransportSettles ==
    TransportQuiet =>
        /\ wire.shown \in {"applied", "unavailable", "failed"}
        /\ wire.shown = "applied" =>
            wire.effective = wire.rate /\ (wire.rate = wish.rate \/ slipped)
        /\ ~unread => \/ wire.codecShown = "applied" /\ wish.codec \in {AUTO, wire.used}
                      \/ wire.codecShown = "unavailable"
        /\ \A t \in MicTrack \ {onAir} : ~hints[t]
=============================================================================
