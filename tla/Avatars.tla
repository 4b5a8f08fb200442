------------------------------- MODULE Avatars -------------------------------
(***************************************************************************)
(* One user's avatar: AvatarService's replace and remove, whose commit may *)
(* stay unconfirmed, and the sweep of AvatarGcService. Objects and the row *)
(* that refers to one of them live in two stores.                          *)
(***************************************************************************)
EXTENDS FiniteSets

CONSTANTS
    Version,     \* candidates: a new one is drawn for every upload
    AvatarTask,
    NoVersion

ASSUME AvatarAssumption == NoVersion \notin Version

VARIABLES
    avatarUrl,   \* the row's reference
    stored,      \* keys in storage: <<version, "main">>, <<version, "poster">>
    animated,    \* versions that have a poster
    age,         \* of a version: "young" (for 5 minutes) or "old", which a sweep may find 24 hours old
    avatarTask,  \* requests
    undecided,   \* the reference that a lost transaction, still holding the row, may write
    sweep        \* the clean-up timer's: keys still to look at, and the one it deletes

avatarVars == <<avatarUrl, stored, animated, age, avatarTask, undecided, sweep>>

ObjectKey == Version \X {"main", "poster"}
NoAvatarTask == [pc |-> "idle", next |-> NoVersion, previous |-> NoVersion]

AvatarTypeOK ==
    /\ avatarUrl \in Version \cup {NoVersion}
    /\ stored \subseteq ObjectKey /\ animated \subseteq Version
    /\ age \in [Version -> {"young", "old"}]
    /\ avatarTask \in [AvatarTask ->
           [pc : {"idle", "main", "poster", "mutate", "confirm", "cleanmain", "cleanposter"},
            next : Version \cup {NoVersion}, previous : Version \cup {NoVersion}]]
    /\ undecided \subseteq Version \cup {NoVersion}
    /\ sweep \in [todo : SUBSET ObjectKey, doomed : SUBSET ObjectKey]

AvatarInit ==
    /\ avatarUrl = NoVersion /\ stored = {} /\ animated = {}
    /\ age = [v \in Version |-> "old"]
    /\ avatarTask = [t \in AvatarTask |-> NoAvatarTask]
    /\ undecided = {} /\ sweep = [todo |-> {}, doomed |-> {}]

Phase(t, pc) == avatarTask[t].pc = pc
Turns(t, r) == avatarTask' = [avatarTask EXCEPT ![t] = r]
Ends(t) == Turns(t, NoAvatarTask)
KeysOf(v) == {<<v, "main">>, <<v, "poster">>}

\* A version that nothing refers to may stand for a new one.
Forgotten(v) ==
    /\ avatarUrl # v /\ v \notin undecided /\ stored \cap KeysOf(v) = {}
    /\ (sweep.todo \cup sweep.doomed) \cap KeysOf(v) = {}
    /\ \A t \in AvatarTask : avatarTask[t].next # v /\ avatarTask[t].previous # v

------------------------------------------------------------
(* Replace                                                                 *)

\* acquire: one upload of a user at a time. Removals are not counted.
Uploads(t) == avatarTask[t].next # NoVersion /\ avatarTask[t].pc \in {"main", "poster", "mutate", "confirm"}

Replace(t, v) ==
    /\ Phase(t, "idle") /\ Forgotten(v)
    /\ \A o \in AvatarTask : ~Uploads(o)
    /\ age' = [age EXCEPT ![v] = "young"]
    /\ \E pair \in BOOLEAN : animated' = IF pair THEN animated \cup {v} ELSE animated \ {v}
    /\ Turns(t, [NoAvatarTask EXCEPT !.pc = "main", !.next = v])
    /\ UNCHANGED <<avatarUrl, stored, undecided, sweep>>

\* A failed put may have stored its object all the same; the upload ends there.
PutAvatar(t) ==
    LET r == avatarTask[t] IN
    /\ r.pc \in {"main", "poster"}
    /\ \/ /\ stored' = stored \cup {<<r.next, r.pc>>}
          /\ Turns(t, [r EXCEPT !.pc = IF @ = "main" /\ r.next \in animated THEN "poster" ELSE "mutate"])
       \/ /\ stored' \in {stored, stored \cup {<<r.next, r.pc>>}}
          /\ Ends(t)
    /\ UNCHANGED <<avatarUrl, animated, age, undecided, sweep>>

RemoveAvatar(t) ==
    /\ Phase(t, "idle")
    /\ Turns(t, [NoAvatarTask EXCEPT !.pc = "mutate"])
    /\ UNCHANGED <<avatarUrl, stored, animated, age, undecided, sweep>>

------------------------------------------------------------
(* mutate: a transaction that locks the row                                *)

\* Plausible bug: a candidate of any age is promoted.
NeverExpires(v) == FALSE

\* AVATAR_CANDIDATE_EXPIRED, by the database's clock.
Expired(v) == v # NoVersion /\ age[v] # "young"

\* What follows when object v is of no more use: cleanup of its two keys.
Discards(t, v) ==
    IF v = NoVersion THEN Ends(t)
    ELSE Turns(t, [NoAvatarTask EXCEPT !.pc = "cleanmain", !.previous = v])

\* An explicit abort or a documented conflict proves that nothing was promoted.
MutateAborts(t) ==
    /\ Phase(t, "mutate")
    /\ Discards(t, avatarTask[t].next)
    /\ UNCHANGED <<avatarUrl, stored, animated, age, undecided, sweep>>

MutateCommits(t) ==
    LET next == avatarTask[t].next IN
    /\ Phase(t, "mutate") /\ undecided = {} /\ ~Expired(next)
    /\ avatarUrl' = next
    /\ Discards(t, IF avatarUrl = next THEN NoVersion ELSE avatarUrl)
    /\ UNCHANGED <<stored, animated, age, undecided, sweep>>

\* The error leaves open whether, and when, the transaction commits.
MutateUnconfirmed(t) ==
    LET next == avatarTask[t].next IN
    /\ Phase(t, "mutate") /\ undecided = {} /\ ~Expired(next)
    /\ undecided' = {next}
    /\ Turns(t, [avatarTask[t] EXCEPT !.pc = "confirm",
                 !.previous = IF avatarUrl = next THEN NoVersion ELSE avatarUrl])
    /\ UNCHANGED <<avatarUrl, stored, animated, age, sweep>>

\* The database decides, before the service looks or after.
Decide ==
    /\ undecided # {}
    /\ avatarUrl' \in {avatarUrl} \cup undecided
    /\ undecided' = {}
    /\ UNCHANGED <<stored, animated, age, avatarTask, sweep>>

\* The row is read: only if it has the new reference is the old object of no use.
Confirm(t) ==
    LET r == avatarTask[t] IN
    /\ Phase(t, "confirm")
    /\ IF avatarUrl = r.next THEN Discards(t, r.previous) ELSE Ends(t)
    /\ UNCHANGED <<avatarUrl, stored, animated, age, undecided, sweep>>

\* afterCommit and the clean-up of a candidate: each key on its own, failures ignored.
CleanUp(t) ==
    LET r == avatarTask[t]
        key == <<r.previous, IF r.pc = "cleanmain" THEN "main" ELSE "poster">>
    IN
    /\ r.pc \in {"cleanmain", "cleanposter"}
    /\ stored' \in {stored, stored \ {key}}
    /\ IF r.pc = "cleanmain" THEN Turns(t, [r EXCEPT !.pc = "cleanposter"]) ELSE Ends(t)
    /\ UNCHANGED <<avatarUrl, animated, age, undecided, sweep>>

------------------------------------------------------------
(* Time and the sweep                                                      *)

\* A transaction lasts seconds: its candidate does not get old in it.
GetsOld(v) ==
    /\ age[v] = "young" /\ v \notin undecided
    /\ age' = [age EXCEPT ![v] = "old"]
    /\ UNCHANGED <<avatarUrl, stored, animated, avatarTask, undecided, sweep>>

SweepStarts ==
    LET old == {key \in stored : age[key[1]] = "old"} IN
    /\ sweep = [todo |-> {}, doomed |-> {}] /\ old # {}
    /\ sweep' = [todo |-> old, doomed |-> {}]
    /\ UNCHANGED <<avatarUrl, stored, animated, age, avatarTask, undecided>>

\* The reference is read; the key that is not referred to is deleted after that. An
\* error keeps it for the next sweep.
SweepReads(key) ==
    /\ sweep.doomed = {} /\ key \in sweep.todo
    /\ sweep' \in {[todo |-> sweep.todo \ {key}, doomed |-> {key} \ KeysOf(avatarUrl)],
                   [todo |-> sweep.todo \ {key}, doomed |-> {}]}
    /\ UNCHANGED <<avatarUrl, stored, animated, age, avatarTask, undecided>>

SweepDeletes ==
    /\ sweep.doomed # {}
    /\ stored' \in {stored, stored \ sweep.doomed}
    /\ sweep' = [sweep EXCEPT !.doomed = {}]
    /\ UNCHANGED <<avatarUrl, animated, age, avatarTask, undecided>>

AvatarNext ==
    \/ \E t \in AvatarTask :
           \/ \E v \in Version : Replace(t, v)
           \/ PutAvatar(t) \/ RemoveAvatar(t)
           \/ MutateAborts(t) \/ MutateCommits(t) \/ MutateUnconfirmed(t) \/ Confirm(t)
           \/ CleanUp(t)
    \/ \E v \in Version : GetsOld(v)
    \/ Decide \/ SweepStarts \/ SweepDeletes \/ \E key \in ObjectKey : SweepReads(key)

AvatarSpec == AvatarInit /\ [][AvatarNext]_avatarVars

------------------------------------------------------------
(* Properties                                                              *)

\* What the row refers to is in storage, with its poster if it is animated: whatever
\* was thrown away by a request or by the sweep, after a commit, an abort or an
\* answer that never came.
ReferencedAvatarIsStored ==
    avatarUrl # NoVersion =>
        /\ <<avatarUrl, "main">> \in stored
        /\ avatarUrl \in animated => <<avatarUrl, "poster">> \in stored
=============================================================================
