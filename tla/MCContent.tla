----------------------------- MODULE MCContent ------------------------------
(***************************************************************************)
(* Small instances of what is kept for users and channels: screen shares,  *)
(* presence, messages with their attachments, avatars, link previews, and  *)
(* of the page, the preferences and volumes it edits, the messages it      *)
(* lists and the members. They share no variable, so the run explores one  *)
(* of them per behaviour.                                                  *)
(***************************************************************************)
EXTENDS ScreenShares, Presence, Messages, Avatars, LinkPreviews, Preferences, VoiceMix,
        MessageList, MemberContext, TLC

\* x1 and x2 stand for two of a kind that may be exchanged: shares, sockets,
\* messages, versions, jobs or listeners.
CONSTANTS x1, x2, s1, s2, t1, t2, j3, ann, file, key1

VARIABLE focus

SharesOfAnn == s1 :> ann @@ s2 :> ann
TabsOfAnn == x1 :> ann @@ x2 :> ann

Components ==
    {"ScreenShares", "Presence", "Messages", "Avatars", "LinkPreviews",
     "Preferences", "VoiceMix", "MessageList", "MemberContext"}

MCInit ==
    /\ focus \in Components
    /\ ScreenShareInit /\ PresenceInit /\ MessageInit /\ AvatarInit /\ PreviewInit
       /\ PreferenceInit /\ VoiceMixInit /\ MessageListInit /\ MemberContextInit
    \* what an idle component starts with makes no difference
    /\ focus # "Messages" => driver = "local"
    /\ focus # "Preferences" => legacy = Null
    /\ focus # "VoiceMix" => \A a \in Listener, t \in Target : mixRow[a][t] = Usual
    \* the tab is in the voice channel it observes, so it hears of both kinds
    /\ beside

\* Only the named component takes a step.
Only(name) ==
    /\ focus = name /\ UNCHANGED focus
    /\ IF name = "ScreenShares" THEN TRUE ELSE UNCHANGED shareVars
    /\ IF name = "Presence" THEN TRUE ELSE UNCHANGED presenceVars
    /\ IF name = "Messages" THEN TRUE ELSE UNCHANGED messageVars
    /\ IF name = "Avatars" THEN TRUE ELSE UNCHANGED avatarVars
    /\ IF name = "LinkPreviews" THEN TRUE ELSE UNCHANGED previewVars
    /\ IF name = "Preferences" THEN TRUE ELSE UNCHANGED preferenceVars
    /\ IF name = "VoiceMix" THEN TRUE ELSE UNCHANGED mixVars
    /\ IF name = "MessageList" THEN TRUE ELSE UNCHANGED listVars
    /\ IF name = "MemberContext" THEN TRUE ELSE UNCHANGED memberVars

MCVars ==
    <<focus, shareVars, presenceVars, messageVars, avatarVars, previewVars,
      preferenceVars, mixVars, listVars, memberVars>>

\* Of a file that two sends fought over, or whose clean-up met an upload, little is claimed.
FileAstray == file \in fought \cup leaked

\* Bound: once a deletion has crossed what was yet to be told, what is under way ends, and
\* nothing more is asked for.
WindsUp ==
    misheard # {} => \A t \in MessageTask : Doing(t, "idle") => messageTask'[t] = messageTask[t]

MCNext ==
    \/ Only("ScreenShares") /\ ScreenShareNext
    \/ Only("Presence") /\ PresenceNext
    \/ Only("Messages") /\ ~FileAstray /\ MessageNext /\ WindsUp
    \/ Only("Avatars") /\ AvatarNext
    \/ Only("LinkPreviews") /\ PreviewNext
    \/ Only("Preferences") /\ PreferenceNext
    \/ Only("VoiceMix") /\ VoiceMixNext
    \/ Only("MessageList") /\ ~amiss /\ MessageListNext
    \/ Only("MemberContext") /\ MemberContextNext
    \* what has strayed is not explored further
    \/ (amiss \/ FileAstray \/ misheard # {}) /\ UNCHANGED MCVars

MCSpec == MCInit /\ [][MCNext]_MCVars

Symmetry == Permutations({x1, x2}) \cup Permutations({t1, t2})

\* The type of what is explored: the others stay as they start.
ContentTypeOK ==
    /\ focus = "ScreenShares" => ScreenShareTypeOK
    /\ focus = "Presence" => PresenceTypeOK
    /\ focus = "Messages" => MessageTypeOK
    /\ focus = "Avatars" => AvatarTypeOK
    /\ focus = "LinkPreviews" => PreviewTypeOK
    /\ focus = "Preferences" => PreferenceTypeOK
    /\ focus = "VoiceMix" => VoiceMixTypeOK
    /\ focus = "MessageList" => MessageListTypeOK
    /\ focus = "MemberContext" => MemberContextTypeOK

\* What a page shows is so, whatever was edited, answered late, repeated or aborted
\* meanwhile: the preferences, how loud the members of a call are heard, the messages, the
\* members; and what is done to a member is not done from a list the tab has heard to be old.
PageSettles ==
    PreferencesSettle /\ VoiceMixSettles /\ MessagesSettle /\ MembersSettle /\ ActionsAreInformed
=============================================================================
