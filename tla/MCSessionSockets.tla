-------------------------- MODULE MCSessionSockets --------------------------
(* Bounds for TLC: two sessions, one socket that connects once, and a       *)
(* supply of credentials that allows both logins and one credential change. *)
EXTENDS SessionSockets, TLC

Symmetry == Permutations(Session) \cup Permutations(Cred)
            \cup Permutations(Req) \cup Permutations(Socket)
=============================================================================
