----------------------------- MODULE MCSessions -----------------------------
(* Bounds for TLC. The finite supply of refresh credentials bounds logins,  *)
(* rotations and credential changes together, so no counter needs a bound.  *)
EXTENDS Sessions, TLC

Symmetry == Permutations(Session) \cup Permutations(Cred) \cup Permutations(Req)
=============================================================================
