---------------------------- MODULE MCVoiceRooms ----------------------------
(* Bounds for TLC: ann has one tab that talks in the voice channels of two   *)
(* servers and one that only comes and goes; bob competes for the channel c1; *)
(* moderators of s1 act on ann. Handlers in flight are bounded by Task.       *)
EXTENDS VoiceRooms, TLC

CONSTANTS ann, bob, k1, k2, k3, s1, s2, c1, c2

TwoTabs == k1 :> ann @@ k2 :> ann @@ k3 :> bob
OnePerServer == c1 :> s1 @@ c2 :> s2

OneModerated == {<<s1, ann>>}

Packets == k1 :> {<<"join", c1>>, <<"join", c2>>, <<"leave", c1>>, <<"leave", c2>>,
                  <<"mute", c1>>, <<"deafen", c1>>}
           @@ k2 :> {}
           @@ k3 :> {<<"join", c1>>, <<"leave", c1>>}

\* One user, one tab, one channel: enough for a race with a moderator.
OneTab == k1 :> ann
OneChannel == c1 :> s1
AllPackets == k1 :> {"join", "leave", "mute", "deafen"} \X {c1}

Symmetry == Permutations(Task)
\* The properties of settled users say nothing of a user once it is raced, so
\* no state after that needs a successor.
NoneRaced == raced = {}
=============================================================================
