---------------------------- MODULE VoiceCapture ----------------------------
(***************************************************************************)
(* The microphone of a tab: VoiceCaptureOwner's takes (a take is one run   *)
(* of acquire with the capture graph it prepares), the queue in which they *)
(* are committed and browser constraints applied, the gate in front of a   *)
(* graph's output (CaptureGeneration), the senders of the call's peers     *)
(* (CallSenderRegistry), and the RNNoise runtime, of which there is one.   *)
(***************************************************************************)
EXTENDS Naturals, Sequences, FiniteSets

CONSTANTS Take, CallPeer, NoTake, Nothing, MaxJobs

ASSUME VoiceCaptureAssumption ==
    /\ NoTake \notin Take /\ Nothing \notin Take \cup {NoTake} /\ MaxJobs \in Nat
    /\ {"apply", "stale"} \cap Take = {}

VARIABLES
    mode, valid,          \* of the owner; callCurrent
    permit, known,        \* may transmit; the preferences are loaded
    transition, status,
    preferred, browserOnly,   \* noiseSuppressionMode, sessionBrowser
    committed,            \* the take whose graph is in use
    take,
    jobs,                 \* commitQueue, its head is running
    native,               \* applyNative at the head of jobs
    registry,             \* CallSenderRegistry.committed
    sent,                 \* the track each registered sender carries
    waiting,              \* peers whose register waits for the end of a swap
    swap,                 \* the replace transaction
    astray                \* history: senders a failed swap left without a track that works

captureVars == <<mode, valid, permit, known, transition, status, preferred, browserOnly, committed,
                 take, jobs, native, registry, sent, waiting, swap, astray>>

Suppression == {"BROWSER", "RNNOISE"}
Blank == [pc |-> "idle", graph |-> "none", gate |-> "closed", intact |-> FALSE,
          session |-> FALSE, newest |-> FALSE, strict |-> FALSE, suppression |-> "BROWSER"]
NoNative == [pc |-> "idle", take |-> NoTake, intact |-> FALSE]
NoSwap == [phase |-> "none", todo |-> {}, changed |-> {}, lost |-> FALSE]

VoiceCaptureTypeOK ==
    /\ mode \in {"idle", "test", "call"} /\ status \in {"idle", "applying", "ready", "failed"}
    /\ {valid, permit, known, transition, browserOnly} \subseteq BOOLEAN /\ preferred \in Suppression
    /\ {committed, registry} \subseteq Take \cup {NoTake}
    /\ take \in [Take -> [pc : {"idle", "refused", "queued", "media", "resetting", "prepared", "replacing", "done"},
                          graph : {"none", "live", "ready", "failed", "disposed"},
                          gate : {"closed", "opening", "blocked", "open"},
                          intact : BOOLEAN, session : BOOLEAN, newest : BOOLEAN, strict : BOOLEAN,
                          suppression : Suppression]]
    /\ jobs \in Seq(Take \cup {"apply", "stale"}) /\ Len(jobs) <= MaxJobs + Cardinality(Take)
    /\ native \in [pc : {"idle", "constraints", "reset", "restore", "resetBack"}, take : Take \cup {NoTake},
                   intact : BOOLEAN]
    /\ DOMAIN sent \subseteq CallPeer /\ \A p \in DOMAIN sent : sent[p] \in Take \cup {Nothing}
    /\ waiting \cup astray \subseteq CallPeer
    /\ swap \in [phase : {"none", "forward", "back"}, todo : SUBSET CallPeer, changed : SUBSET CallPeer, lost : BOOLEAN]

VoiceCaptureInit ==
    /\ mode = "idle" /\ valid = FALSE /\ permit = FALSE /\ known = FALSE
    /\ transition = FALSE /\ status = "idle" /\ preferred \in Suppression /\ browserOnly = FALSE
    /\ committed = NoTake /\ take = [t \in Take |-> Blank] /\ jobs = <<>> /\ native = NoNative
    /\ registry = NoTake /\ sent = <<>> /\ waiting = {} /\ swap = NoSwap /\ astray = {}

owner == <<mode, valid, permit, known, preferred, browserOnly>>
peers == <<registry, sent, waiting, astray>>
senders == <<peers, swap>>

------------------------------------------------------------
(* The gate of a graph                                                     *)

Session == mode = "test" \/ (mode = "call" /\ valid)
IsCurrent(t) == take[t].newest /\ take[t].session /\ Session

\* Plausible bug: a change of the microphone does not keep the gate shut.
AllowedWhileChanging(permitted, changing) == mode = "call" /\ valid /\ permitted /\ known

\* `allowed`: what a committed graph needs to transmit.
Allowed(permitted, changing) == mode = "call" /\ valid /\ permitted /\ known /\ ~changing

\* Closing cancels a reset that is pending; the opening that waits for it ends later.
Closed(r) == [r EXCEPT !.gate = IF @ \in {"opening", "blocked"} THEN "blocked" ELSE "closed", !.intact = FALSE]

Candidates == {t \in Take : take[t].pc \in {"resetting", "prepared", "replacing"}}
Blocked(takes) == [t \in Take |-> IF t = committed \/ t \in Candidates THEN Closed(takes[t]) ELSE takes[t]]
NativeBlocked == [native EXCEPT !.intact = FALSE]

\* CaptureGeneration.reconcile: a gate that may open asks the worklet to reset first.
Reconciled(r, may) ==
    IF may /\ r.graph = "ready" /\ r.session
    THEN IF r.gate = "closed" THEN [r EXCEPT !.gate = "opening"] ELSE r
    ELSE Closed(r)

\* dispose: the tracks are stopped, for good.
Disposed(r) == [Closed(r) EXCEPT !.graph = IF @ = "none" THEN @ ELSE "disposed"]
GateOpens(t) ==
    /\ take[t].gate = "opening"
    /\ take' = [take EXCEPT ![t].gate = IF take[t].graph = "ready" /\ t = committed /\ Allowed(permit, transition)
                                        THEN "open" ELSE "closed"]
    /\ UNCHANGED <<owner, transition, status, committed, jobs, native, senders>>

\* The opening that was cancelled starts over when it may.
GateRetries(t) ==
    /\ take[t].gate = "blocked"
    /\ LET r == [take[t] EXCEPT !.gate = "closed"] IN
       take' = [take EXCEPT ![t] = IF t = committed THEN Reconciled(r, Allowed(permit, transition)) ELSE r]
    /\ UNCHANGED <<owner, transition, status, committed, jobs, native, senders>>

------------------------------------------------------------
(* Takes                                                                   *)

\* stop: every take of the session is disposed of, what still runs knows it is over.
Stopped == [t \in Take |-> IF take[t].pc = "done" THEN Blank
                           ELSE [Disposed(take[t]) EXCEPT !.session = FALSE, !.newest = FALSE]]
StaleJobs(queue) == [i \in DOMAIN queue |-> IF queue[i] = "apply" THEN "stale" ELSE queue[i]]

\* stop, less what becomes of the mode, the status, the takes and the jobs.
EndsSession ==
    /\ permit' = FALSE /\ committed' = NoTake
    /\ registry' = NoTake /\ sent' = <<>> /\ waiting' = {} /\ astray' = {}

Idles(takes, queue, applying) ==
    /\ EndsSession /\ mode' = "idle" /\ valid' = FALSE /\ status' = "idle" /\ transition' = FALSE
    /\ browserOnly' = FALSE /\ take' = takes /\ jobs' = StaleJobs(queue)
    /\ native' = applying

Stop == mode # "idle" /\ Idles(Stopped, jobs, NativeBlocked) /\ UNCHANGED <<known, preferred, swap>>

\* processingPreferences, of what they are after the step.
Effective == IF browserOnly' THEN "BROWSER" ELSE preferred'
Strict(prior) == Effective = "RNNOISE" \/ (prior # NoTake /\ take[prior].suppression = "RNNOISE")
Free(t) == take[t] = Blank /\ registry # t /\ \A p \in DOMAIN sent : sent[p] # t

\* acquire up to its first await. A take to or from RNNoise waits for its turn. Without the
\* preferences prepare refuses.
Acquires(t, takes, strict) ==
    [[u \in Take |-> [takes[u] EXCEPT !.newest = FALSE]] EXCEPT ![t] =
        [Blank EXCEPT !.session = TRUE, !.newest = TRUE, !.strict = strict, !.suppression = Effective,
                      !.pc = IF strict THEN "queued" ELSE IF known THEN "media" ELSE "refused"]]

\* startCall, startTest, and useBrowserForSession after a test that failed.
StartSession(t, m, only) ==
    /\ Free(t) /\ ~(m = "test" /\ mode = "call")
    /\ only => m = "test" /\ mode = "idle" /\ known /\ preferred = "RNNOISE"
    /\ EndsSession /\ native' = NativeBlocked /\ mode' = m /\ valid' = (m = "call") /\ browserOnly' = only
    /\ UNCHANGED <<known, preferred, swap>>
    /\ status' = "applying" /\ transition' = Strict(NoTake)
    /\ take' = Acquires(t, Stopped, Strict(NoTake)) /\ jobs' = StaleJobs(jobs)

\* chooseDevice, retry, a change of the mode or of the channels, useBrowserForSession. To or
\* from RNNoise the gate shuts at once.
Reacquire(t, prefers, only) ==
    /\ Free(t) /\ mode # "idle" /\ (known \/ <<prefers, only>> = <<preferred, FALSE>>)
    /\ only => prefers = "RNNOISE"
    /\ preferred' = prefers /\ browserOnly' = only
    /\ status' = "applying"
    /\ LET begun(takes) == Acquires(t, takes, Strict(committed)) IN
       IF Strict(committed)
       THEN take' = begun(Blocked(take)) /\ native' = NativeBlocked /\ transition' = TRUE
       ELSE take' = begun(take) /\ UNCHANGED <<native, transition>>
    /\ UNCHANGED <<mode, valid, permit, known, committed, jobs, senders>>

\* The catch of acquire: the take is disposed of, the one before goes on if it still can.
AcquireFails(t, queue) ==
    IF take[t].newest /\ mode = "test" /\ committed = NoTake
    THEN Idles([Stopped EXCEPT ![t] = Blank], queue, NativeBlocked) /\ UNCHANGED <<known, preferred>>
    ELSE /\ take' = [take EXCEPT ![t] = Blank] /\ jobs' = queue
         /\ status' = IF take[t].newest THEN "failed" ELSE status
         /\ UNCHANGED <<owner, transition, committed, native, peers>>

\* RNNoise runs once: whatever captured before is disposed of and its runtime retired.
QueueTurn(t) ==
    /\ take[t].pc = "queued"
    /\ ~\E u \in Take : take[u].strict /\ take[u].pc \in {"media", "resetting"}
    /\ IF ~IsCurrent(t) THEN AcquireFails(t, jobs)
       ELSE /\ take' = [u \in Take |->
                   IF u = t THEN [take[t] EXCEPT !.pc = IF known THEN "media" ELSE "refused"]
                   ELSE IF u = committed \/ u \in Candidates THEN Disposed(take[u]) ELSE take[u]]
            /\ native' = NativeBlocked
            /\ UNCHANGED <<owner, transition, status, committed, jobs, peers>>
    /\ UNCHANGED swap

\* getUserMedia, the constraints of the track and the worklet: any of them may fail.
MediaAnswered(t) ==
    /\ take[t].pc \in {"media", "refused"}
    /\ \/ AcquireFails(t, jobs)
       \/ /\ take[t].pc = "media" /\ IsCurrent(t)
          /\ take' = [take EXCEPT ![t] = [@ EXCEPT !.pc = "resetting", !.graph = "live", !.intact = TRUE]]
          /\ UNCHANGED <<owner, transition, status, committed, jobs, native, peers>>
    /\ UNCHANGED swap

\* The first reset of a graph. One cancelled by a block fails the take.
ResetAnswered(t) ==
    /\ take[t].pc = "resetting"
    /\ IF take[t].intact /\ IsCurrent(t)
       THEN /\ take' = [take EXCEPT ![t] = [@ EXCEPT !.pc = "prepared", !.graph = "ready", !.intact = FALSE]]
            /\ jobs' = Append(jobs, t)
            /\ UNCHANGED <<owner, transition, status, committed, native, peers>>
       ELSE AcquireFails(t, jobs)
    /\ UNCHANGED swap

\* The track ends, the processor fails, a reset is not answered in 3 s. That of a committed
\* graph silences the call and ends a test; one that waits for its commit says nothing.
GraphFails(t) ==
    /\ take[t].graph \in {"live", "ready"}
    /\ LET failed(takes) == [takes EXCEPT ![t].graph = IF t = committed /\ @ = "ready" /\ takes[t].suppression = "RNNOISE"
                                                      THEN "disposed" ELSE "failed"]
       IN
       IF t # committed
       THEN take' = failed([take EXCEPT ![t] = Closed(@)])
            /\ UNCHANGED <<owner, transition, status, committed, jobs, native, peers>>
       ELSE IF mode = "test" THEN Idles(Stopped, jobs, NativeBlocked) /\ UNCHANGED <<known, preferred>>
       ELSE /\ take' = failed(Blocked(take)) /\ native' = NativeBlocked /\ status' = "failed"
            /\ UNCHANGED <<owner, transition, committed, jobs, peers>>
    /\ UNCHANGED swap

------------------------------------------------------------
(* Committing a take                                                       *)

Job == Head(jobs)

\* The senders carry t: the call goes on with it.
Commits(t) ==
    /\ take' = [u \in Take |-> IF u = t THEN Reconciled([Closed(take[t]) EXCEPT !.pc = "done"], Allowed(permit, FALSE))
                               ELSE IF u = committed THEN Blank ELSE take[u]]
    /\ committed' = t /\ registry' = t /\ transition' = FALSE /\ status' = "ready"
    /\ jobs' = Tail(jobs) /\ swap' = NoSwap
    /\ UNCHANGED <<owner, native, sent, waiting, astray>>

\* RNNoise refuses a track whose native suppression is found on after all. What the senders
\* carry is stopped either way.
VerificationFails(t) ==
    /\ take[t].suppression = "RNNOISE"
    /\ AcquireFails(t, Tail(jobs)) /\ swap' = NoSwap

CommitStarts(t) ==
    /\ jobs # <<>> /\ Job = t /\ take[t].pc = "prepared"
    /\ IF ~IsCurrent(t)
       THEN /\ take' = [take EXCEPT ![t] = Blank] /\ jobs' = Tail(jobs)
            /\ UNCHANGED <<owner, transition, status, committed, native, senders>>
       ELSE IF committed = NoTake THEN Commits(t) \/ VerificationFails(t)
       ELSE /\ transition' = TRUE
            /\ take' = [Blocked(take) EXCEPT ![t] = [Closed(@) EXCEPT !.pc = "replacing"]]
            /\ swap' = [NoSwap EXCEPT !.phase = "forward", !.todo = DOMAIN sent]
            /\ UNCHANGED <<owner, status, committed, jobs, native, peers>>

\* Peers may leave, and the session may end, between any two senders.
Carrying(some) == some \cap DOMAIN sent
Carries(p, t) == sent' = [sent EXCEPT ![p] = t]
Kept == <<owner, transition, status, committed, take, jobs, native, registry, waiting>>

Replaces(p) ==
    /\ swap.phase = "forward" /\ p \in Carrying(swap.todo)
    /\ \/ /\ IsCurrent(Job) /\ Carries(p, Job) /\ astray' = astray \ {p}
          /\ swap' = [swap EXCEPT !.todo = @ \ {p}, !.changed = @ \cup {p}]
       \/ swap' = [swap EXCEPT !.phase = "back"] /\ UNCHANGED <<sent, astray>>
    /\ UNCHANGED Kept

SwapEnds ==
    /\ swap.phase = "forward" /\ Carrying(swap.todo) = {}
    /\ IF IsCurrent(Job) THEN Commits(Job) \/ VerificationFails(Job)
       ELSE /\ swap' = [swap EXCEPT !.phase = "back"]
            /\ UNCHANGED <<owner, transition, status, committed, take, jobs, native, peers>>

\* What the registry takes for committed goes back to the senders that had changed.
Restores(p) ==
    /\ swap.phase = "back" /\ p \in Carrying(swap.changed)
    /\ \/ Carries(p, registry) /\ swap' = [swap EXCEPT !.changed = @ \ {p}] /\ UNCHANGED astray
       \/ /\ Carries(p, Nothing) \/ UNCHANGED sent
          /\ swap' = [swap EXCEPT !.changed = @ \ {p}, !.lost = TRUE] /\ astray' = astray \cup {p}
    /\ UNCHANGED Kept

\* The swap failed: the call goes on as it was, silently when a sender is lost, or when
\* what captured before is gone. A superseded one leaves all to the next take.
RestoreEnds ==
    LET t == Job
        resumes == IsCurrent(t) /\ ~swap.lost /\ ~take[t].strict
    IN
    /\ swap.phase = "back" /\ Carrying(swap.changed) = {}
    /\ take' = [u \in Take |-> IF u = t THEN Blank
                               ELSE IF u = committed /\ resumes THEN Reconciled(take[u], Allowed(permit, FALSE)) ELSE take[u]]
    /\ transition' = (transition /\ ~resumes)
    /\ status' = IF IsCurrent(t) THEN "failed" ELSE status
    /\ jobs' = Tail(jobs) /\ swap' = NoSwap
    /\ UNCHANGED <<owner, committed, native, peers>>

------------------------------------------------------------
(* Browser constraints                                                     *)

\* applyNative: configure and updateFormat put it in the queue.
ApplyRequested ==
    /\ committed # NoTake /\ known /\ Len(jobs) < MaxJobs
    /\ jobs' = Append(jobs, "apply")
    /\ UNCHANGED <<owner, transition, status, committed, take, native, senders>>

ApplyStarts ==
    /\ jobs # <<>> /\ Job \in {"apply", "stale"} /\ native.pc = "idle"
    /\ IF Job = "stale" \/ committed = NoTake \/ ~Session
       THEN jobs' = Tail(jobs) /\ UNCHANGED <<transition, status, take, native>>
       ELSE /\ native' = [pc |-> "constraints", take |-> committed, intact |-> FALSE]
            /\ transition' = TRUE /\ status' = "applying" /\ take' = Blocked(take) /\ UNCHANGED jobs
    /\ UNCHANGED <<owner, committed, senders>>

NativeCurrent == native.take = committed /\ Session
ApplyEnds == native' = NoNative /\ jobs' = Tail(jobs)
NativeStays == UNCHANGED <<owner, committed, senders>>

\* The graph resets after the browser took the constraints, new or old.
AsksReset(pc) ==
    /\ native' = [native EXCEPT !.pc = pc, !.intact = take[committed].graph = "ready"]
    /\ take' = [take EXCEPT ![committed] = Closed(@)]
    /\ UNCHANGED <<transition, status, jobs>>

ConstraintsAnswered ==
    /\ native.pc = "constraints"
    /\ IF ~NativeCurrent THEN ApplyEnds /\ UNCHANGED <<transition, status, take>>
       ELSE \/ AsksReset("reset")
            \/ native' = [native EXCEPT !.pc = "restore"] /\ UNCHANGED <<transition, status, take, jobs>>
    /\ NativeStays

\* The gate opens again, with what was asked or with what was before.
Resumes(outcome) ==
    /\ take' = [take EXCEPT ![committed] = Reconciled(@, Allowed(permit, FALSE))]
    /\ transition' = FALSE /\ status' = outcome /\ ApplyEnds

NativeResetAnswered ==
    /\ native.pc = "reset"
    /\ IF ~NativeCurrent THEN ApplyEnds /\ UNCHANGED <<transition, status, take>>
       ELSE IF native.intact THEN Resumes("ready")
       ELSE native' = [native EXCEPT !.pc = "restore"] /\ UNCHANGED <<transition, status, take, jobs>>
    /\ NativeStays

\* graph.fail: nothing can be recovered. The status is that of whatever session there is.
Irrecoverable ==
    LET t == native.take IN
    /\ IF t = committed /\ take[t].graph = "ready" /\ mode = "test"
       THEN Idles(Stopped, Tail(jobs), NoNative) /\ UNCHANGED <<known, preferred, swap>>
       ELSE /\ take' = IF t = committed /\ take[t].graph = "ready"
                       THEN [Blocked(take) EXCEPT ![t].graph = IF take[t].suppression = "RNNOISE" THEN "disposed" ELSE "failed"]
                       ELSE take
            /\ status' = "failed" /\ ApplyEnds
            /\ UNCHANGED <<owner, transition, committed, senders>>

RestoreAnswered ==
    /\ native.pc = "restore"
    /\ \/ NativeCurrent /\ AsksReset("resetBack") /\ NativeStays
       \/ Irrecoverable

RestoreResetAnswered ==
    /\ native.pc = "resetBack"
    /\ IF native.intact THEN Resumes("failed") /\ NativeStays ELSE Irrecoverable

------------------------------------------------------------
(* The call                                                                *)

SetTransmission(b) ==
    /\ mode = "call" /\ permit # b /\ permit' = b
    /\ IF Allowed(b, transition)
       THEN /\ take' = [t \in Take |-> IF t = committed THEN Reconciled(take[t], TRUE) ELSE take[t]]
            /\ UNCHANGED native
       ELSE take' = Blocked(take) /\ native' = NativeBlocked
    /\ UNCHANGED <<mode, valid, known, preferred, browserOnly, transition, status, committed, jobs, senders>>

PreferencesLoaded ==
    /\ ~known /\ known' = TRUE
    /\ UNCHANGED <<mode, valid, permit, preferred, browserOnly, transition, status, committed, take, jobs, native, senders>>

\* The attempt that asked for the microphone is superseded or may no longer connect.
CallLapses ==
    /\ mode = "call" /\ valid /\ valid' = FALSE
    /\ UNCHANGED <<mode, permit, known, preferred, browserOnly, transition, status, committed, take, jobs, native, senders>>

\* A peer that comes during a swap waits for its end; without a capture none is registered.
Register(p) ==
    /\ mode = "call" /\ p \notin waiting \cup DOMAIN sent
    /\ swap.phase # "none" /\ waiting' = waiting \cup {p}
    /\ UNCHANGED <<owner, transition, status, committed, take, jobs, native, registry, sent, swap, astray>>

\* Plausible bug: the capture is not asked for again after the wait.
RegistersUnready(p) ==
    /\ mode = "call" /\ p \notin DOMAIN sent
    /\ swap.phase = "none" /\ waiting' = waiting \ {p}
    /\ sent' = [q \in DOMAIN sent \cup {p} |-> IF q = p THEN registry ELSE sent[q]]
    /\ UNCHANGED <<owner, transition, status, committed, take, jobs, native, registry, swap, astray>>

Registered(p) ==
    /\ mode = "call" /\ p \notin DOMAIN sent
    /\ swap.phase = "none" /\ registry # NoTake
    /\ waiting' = waiting \ {p}
    /\ sent' = [q \in DOMAIN sent \cup {p} |-> IF q = p THEN registry ELSE sent[q]]
    /\ UNCHANGED <<owner, transition, status, committed, take, jobs, native, registry, swap, astray>>

RemovePeer(p) ==
    /\ p \in waiting \cup DOMAIN sent
    /\ waiting' = waiting \ {p} /\ sent' = [q \in DOMAIN sent \ {p} |-> sent[q]] /\ astray' = astray \ {p}
    /\ UNCHANGED <<owner, transition, status, committed, take, jobs, native, registry, swap>>

VoiceCaptureNext ==
    \/ Stop \/ PreferencesLoaded \/ CallLapses \/ \E b \in BOOLEAN : SetTransmission(b)
    \/ \E t \in Take :
           \/ \E m \in {"test", "call"}, only \in BOOLEAN : StartSession(t, m, only)
           \/ \E prefers \in Suppression, only \in BOOLEAN : Reacquire(t, prefers, only)
           \/ QueueTurn(t) \/ MediaAnswered(t) \/ ResetAnswered(t) \/ GraphFails(t)
           \/ GateOpens(t) \/ GateRetries(t) \/ CommitStarts(t)
    \/ \E p \in CallPeer : Register(p) \/ Registered(p) \/ RemovePeer(p) \/ Replaces(p) \/ Restores(p)
    \/ SwapEnds \/ RestoreEnds
    \/ ApplyRequested \/ ApplyStarts \/ ConstraintsAnswered \/ NativeResetAnswered
    \/ RestoreAnswered \/ RestoreResetAnswered

VoiceCaptureSpec == VoiceCaptureInit /\ [][VoiceCaptureNext]_captureVars

------------------------------------------------------------
(* Properties                                                              *)

\* Whatever fails, is superseded or ends while the microphone is changed, an open gate is
\* that of the graph in use, in a call that permits it, and no sender carries another graph
\* that works: no peer is on the old microphone while the others are on the new one.
OneOpenMicrophone ==
    \A t \in Take : take[t].gate = "open" =>
        /\ t = committed /\ mode = "call" /\ permit /\ known
        /\ \A p \in DOMAIN sent : sent[p] \in {t, Nothing} \/ take[sent[p]].graph # "ready"

CaptureQuiet ==
    /\ jobs = <<>> /\ waiting = {}
    /\ \A t \in Take : take[t].pc \in {"idle", "done"} /\ take[t].gate \in {"closed", "open"}

\* When nothing is under way and the capture is shown as ready in a call that may transmit,
\* it does: the gate is open and every peer's sender carries the graph in use. Not so for a
\* graph that failed while it waited to be committed, and for a sender whose old track could
\* not be put back: the failed status says so until other constraints are applied.
MicrophoneSettles ==
    CaptureQuiet /\ status = "ready" /\ Allowed(permit, FALSE) /\ take[committed].graph = "ready" =>
        /\ take[committed].gate = "open"
        /\ \A p \in DOMAIN sent \ astray : sent[p] = committed
=============================================================================
