-------------------------- MODULE AccountSessions --------------------------
(***************************************************************************)
(* What one account is promised about its logical sessions, without rows,  *)
(* credentials, requests or races: a set of access tokens that authorise,  *)
(* each a session id (JWT sid) with an access version (JWT sv).            *)
(*                                                                         *)
(* docs/architecture.md: the access version "invalidates previously issued *)
(* access JWTs after a credential change while preserving the retained     *)
(* current logical session"; logout revokes only the current session; a    *)
(* credential change "revoke[s] all others" in the same transaction.       *)
(***************************************************************************)
EXTENDS Naturals

CONSTANT Session

VARIABLES
    valid,   \* the <<sid, sv>> pairs that authorise a protected request
    ever     \* the session ids handed out so far; an id never comes back

absVars == <<valid, ever>>

AbsInit ==
    /\ valid = {}
    /\ ever = {}

\* A login starts a session of its own, at version 1.
Start(s) ==
    /\ s \notin ever
    /\ valid' = valid \cup {<<s, 1>>}
    /\ ever' = ever \cup {s}

\* A committed password or email change: the token it was made with is
\* replaced by its successor and every other token stops authorising.
Change(t) ==
    /\ t \in valid
    /\ valid' = {<<t[1], t[2] + 1>>}
    /\ UNCHANGED ever

\* A logout, and the removal of a row, end one session.
End(t) ==
    /\ t \in valid
    /\ valid' = valid \ {t}
    /\ UNCHANGED ever

AbsNext ==
    \/ \E s \in Session : Start(s)
    \/ \E t \in valid : Change(t) \/ End(t)

AbsSpec == AbsInit /\ [][AbsNext]_absVars
=============================================================================
