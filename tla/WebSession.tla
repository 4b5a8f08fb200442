----------------------------- MODULE WebSession -----------------------------
(***************************************************************************)
(* The browser's side of a session: the tabs of one browser share its      *)
(* cookies; in every tab lib/api.ts refreshes once for all requests that   *)
(* were refused, and useAuth decides who is shown as logged in. The API is *)
(* here as far as the answers depend on it; Sessions has the rest.         *)
(***************************************************************************)
EXTENDS Integers, FiniteSets

CONSTANTS
    Tab, WebTask,  \* a task is one call that useAuth or a page awaits
    Login,         \* logical sessions, one per login; each also stands for its account,
                   \* another one every time
    MaxRotations,  \* bound on the credentials of one session
    NoLogin, NoTab

ASSUME WebSessionAssumption ==
    NoLogin \notin Login /\ NoTab \notin Tab /\ MaxRotations \in Nat

VARIABLES
    webSession, \* the API's rows: their state, newest credential, session version
    jar,        \* the cookies: session, credential, version, and whether access is still there
    shown,      \* useAuth's user
    refreshing, \* refreshPromise of a tab: its way, and the cookies it took or brings
    webTask,
    ended,      \* history: tabs whose user logged out or was found invalid, until a login
    strayed     \* history: tabs that another tab, a lost answer or an overlap may mislead

webVars == <<webSession, jar, shown, refreshing, webTask, ended, strayed>>

Version == 0..MaxRotations
Cookies == [session : Login \cup {NoLogin}, token : Version, version : Version, access : BOOLEAN]
NoCookies == [session |-> NoLogin, token |-> 0, version |-> 0, access |-> FALSE]
NoRefresh == [pc |-> "none", with |-> NoCookies]
NoWebTask == [pc |-> "idle", kind |-> "use", tab |-> NoTab, with |-> NoCookies, who |-> NoLogin,
              retried |-> FALSE, current |-> TRUE]

WebSessionTypeOK ==
    /\ webSession \in [Login -> [state : {"none", "live", "dead"},
                                  token : Version, version : Version]]
    /\ jar \in Cookies
    /\ shown \in [Tab -> Login \cup {NoLogin}]
    /\ refreshing \in [Tab -> [pc : {"none", "sent", "ok", "invalid", "failed"}, with : Cookies]]
    /\ webTask \in [WebTask ->
           [pc : {"idle", "sent", "ok", "refused", "refresh"},
            kind : {"boot", "use", "save", "check", "login", "logout"}, tab : Tab \cup {NoTab}, with : Cookies,
            who : Login \cup {NoLogin}, retried : BOOLEAN, current : BOOLEAN]]
    /\ ended \subseteq Tab /\ strayed \subseteq Tab

WebSessionInit ==
    /\ webSession = [l \in Login |-> [state |-> "none", token |-> 0, version |-> 0]]
    /\ jar = NoCookies /\ shown = [b \in Tab |-> NoLogin]
    /\ refreshing = [b \in Tab |-> NoRefresh] /\ webTask = [t \in WebTask |-> NoWebTask]
    /\ ended = Tab /\ strayed = {}

CallsOf(b) == {t \in WebTask : webTask[t].pc # "idle" /\ webTask[t].tab = b}
Kinds(b) == {webTask[t].kind : t \in CallsOf(b)}

\* An answer is on its way that brings or takes cookies, other than of task t: whichever of
\* two comes last decides what all tabs send, even if it is the older.
Overlaps(t) ==
    \/ \E b \in Tab : refreshing[b].pc # "none"
    \/ \E o \in WebTask \ {t} : webTask[o].pc # "idle" /\ webTask[o].kind \in {"save", "login", "logout"}

\* session.current += 1: the calls of the tab in flight know an older number from now on.
Outdated(tasks, b) ==
    [t \in WebTask |-> IF t \in CallsOf(b) THEN [tasks[t] EXCEPT !.current = FALSE] ELSE tasks[t]]

Known(c) == c.session # NoLogin /\ webSession[c.session].state = "live"
Authorised(c) == c.access /\ Known(c) /\ c.version = webSession[c.session].version
Rotates(c) == Known(c) /\ c.token = webSession[c.session].token

------------------------------------------------------------
(* Calls                                                                   *)

\* A tab boots while nobody is shown; a login page is shown to nobody; the rest is for
\* somebody. A logout outdates the tab's calls before it is sent.
Call(t, b, kind) ==
    /\ webTask[t].pc = "idle" /\ {"boot", "login"} \cap Kinds(b) = {}
    /\ kind \notin Kinds(b)
    /\ kind \in {"boot", "login"} <=> shown[b] = NoLogin
    /\ kind = "boot" => CallsOf(b) = {} /\ refreshing[b].pc = "none"
    /\ webTask' = [(IF kind = "logout" THEN Outdated(webTask, b) ELSE webTask) EXCEPT ![t] =
           [NoWebTask EXCEPT !.pc = "sent", !.kind = kind, !.tab = b, !.with = jar]]
    /\ strayed' = IF kind \in {"login", "save"} /\ Overlaps(t) THEN Tab ELSE strayed
    /\ UNCHANGED <<webSession, jar, shown, refreshing, ended>>

Comes(t, r) == webTask' = [webTask EXCEPT ![t] = r]

Returns(t) == Comes(t, NoWebTask)
Refused(t) == Comes(t, [webTask[t] EXCEPT !.pc = "refused", !.with = NoCookies])

\* What a page does with its answer is left out.
ServeRead(t) ==
    LET r == webTask[t] IN
    /\ r.pc = "sent" /\ r.kind \in {"boot", "use", "check"}
    /\ IF ~Authorised(r.with) THEN Refused(t)
       ELSE IF r.kind = "use" THEN Returns(t)
       ELSE Comes(t, [r EXCEPT !.pc = "ok", !.who = r.with.session, !.with = NoCookies])
    /\ UNCHANGED <<webSession, jar, shown, refreshing, ended, strayed>>

\* A change of e-mail or password gives the session a new credential and version.
ServeSave(t) ==
    LET r == webTask[t]
        l == r.with.session
    IN
    /\ r.pc = "sent" /\ r.kind = "save"
    /\ IF ~Authorised(r.with) THEN Refused(t) /\ UNCHANGED webSession
       ELSE /\ webSession[l].token < MaxRotations
            /\ webSession' = [webSession EXCEPT ![l].token = @ + 1, ![l].version = @ + 1]
            /\ Comes(t, [r EXCEPT !.pc = "ok", !.who = l,
                         !.with = [session |-> l, token |-> webSession[l].token + 1,
                                   version |-> webSession[l].version + 1, access |-> TRUE]])
    /\ UNCHANGED <<jar, shown, refreshing, ended, strayed>>

ServeLogin(t) ==
    LET r == webTask[t] IN
    /\ r.pc = "sent" /\ r.kind = "login"
    /\ \E l \in Login :
           /\ webSession[l].state = "none"
           /\ webSession' = [webSession EXCEPT ![l] = [@ EXCEPT !.state = "live"]]
           /\ Comes(t, [r EXCEPT !.pc = "ok", !.who = l,
                        !.with = [session |-> l, token |-> 0, version |-> 0, access |-> TRUE]])
    /\ UNCHANGED <<jar, shown, refreshing, ended, strayed>>

\* Only an access token that still authorises logs out.
ServeLogout(t) ==
    LET r == webTask[t] IN
    /\ r.pc = "sent" /\ r.kind = "logout"
    /\ IF Authorised(r.with)
       THEN /\ webSession' = [webSession EXCEPT ![r.with.session].state = "dead"]
            /\ Comes(t, [r EXCEPT !.pc = "ok", !.with = NoCookies])
       ELSE Refused(t) /\ UNCHANGED webSession
    /\ UNCHANGED <<jar, shown, refreshing, ended, strayed>>

------------------------------------------------------------
(* Answers                                                                 *)

\* Plausible bug: an answer is accepted however old the call is.
AcceptsAny(t) == TRUE

\* acceptAuthoritativeUser
Accepts(t) == webTask[t].current

\* The cookies of an answer are the browser's before the page sees the answer.
CallSucceeds(t) ==
    LET r == webTask[t]
        b == r.tab
    IN
    /\ r.pc = "ok"
    /\ jar' = CASE r.kind \in {"login", "save"} -> r.with
                 [] r.kind = "logout" -> NoCookies
                 [] OTHER -> jar
    /\ shown' = CASE r.kind \in {"login", "boot"} -> [shown EXCEPT ![b] = r.who]
                   [] r.kind \in {"save", "check"} /\ Accepts(t) -> [shown EXCEPT ![b] = r.who]
                   [] r.kind = "logout" -> [shown EXCEPT ![b] = NoLogin]
                   [] OTHER -> shown
    /\ ended' = CASE r.kind \in {"login", "boot"} -> ended \ {b}
                   [] r.kind = "logout" -> ended \cup {b}
                   [] OTHER -> ended
    /\ strayed' = IF r.kind \in {"login", "logout"} THEN strayed \cup (Tab \ {b}) ELSE strayed
    /\ webTask' = [(IF r.kind = "login" THEN Outdated(webTask, b) ELSE webTask) EXCEPT ![t] = NoWebTask]
    /\ UNCHANGED <<webSession, refreshing>>

\* A first refusal waits for the tab's refresh, which starts unless one is on its way.
\* Login and logout do not: they are auth endpoints.
WaitsForRefresh(t) ==
    LET r == webTask[t]
        b == r.tab
    IN
    /\ r.pc = "refused" /\ r.kind \notin {"login", "logout"} /\ ~r.retried
    /\ Comes(t, [r EXCEPT !.pc = "refresh"])
    /\ IF refreshing[b].pc # "none" THEN UNCHANGED <<refreshing, strayed>>
       ELSE /\ refreshing' = [refreshing EXCEPT ![b] = [pc |-> "sent", with |-> jar]]
            /\ strayed' = IF Overlaps(t) THEN Tab ELSE strayed
    /\ UNCHANGED <<webSession, jar, shown, ended>>

\* The request or its answer is lost, or the API fails.
Lost(t) == webTask[t].pc \in {"sent", "ok"}

\* A change of credentials that may have happened is looked up with /users/@me.
Reconciles(t) ==
    LET r == webTask[t] IN
    /\ Lost(t) /\ r.kind = "save"
    /\ Comes(t, [r EXCEPT !.pc = "sent", !.kind = "check", !.with = jar, !.retried = FALSE])
    /\ strayed' = IF r.pc = "ok" THEN Tab ELSE strayed
    /\ UNCHANGED <<webSession, jar, shown, refreshing, ended>>

\* An error reaches the caller. A boot then shows nobody, and so does a logout.
CallErrs(t) ==
    LET r == webTask[t]
        b == r.tab
    IN
    /\ \/ Lost(t) /\ r.kind # "save"
       \/ r.pc = "refused" /\ (r.retried \/ r.kind \in {"login", "logout"})
    /\ shown' = IF r.kind \in {"boot", "logout"} THEN [shown EXCEPT ![b] = NoLogin] ELSE shown
    /\ ended' = IF r.kind = "logout" THEN ended \cup {b} ELSE ended
    /\ strayed' = IF r.kind = "logout" \/ (r.kind = "boot" /\ Lost(t)) THEN strayed \cup {b} ELSE strayed
    /\ Returns(t)
    /\ UNCHANGED <<webSession, jar, refreshing>>

------------------------------------------------------------
(* doRefresh                                                               *)

ServeRefresh(b) ==
    LET c == refreshing[b].with IN
    /\ refreshing[b].pc = "sent"
    /\ IF Rotates(c)
       THEN /\ webSession[c.session].token < MaxRotations
            /\ webSession' = [webSession EXCEPT ![c.session].token = @ + 1]
            /\ refreshing' = [refreshing EXCEPT ![b] =
                   [pc |-> "ok", with |-> [session |-> c.session, token |-> c.token + 1,
                                           version |-> webSession[c.session].version, access |-> TRUE]]]
       ELSE refreshing' = [refreshing EXCEPT ![b].pc = "invalid"] /\ UNCHANGED webSession
    /\ UNCHANGED <<jar, shown, webTask, ended, strayed>>

RefreshFails(b) ==
    /\ refreshing[b].pc \in {"sent", "ok"}
    /\ refreshing' = [refreshing EXCEPT ![b].pc = "failed"]
    /\ strayed' = IF refreshing[b].pc = "ok" THEN Tab ELSE strayed \cup {b}
    /\ UNCHANGED <<webSession, jar, shown, webTask, ended>>

\* Everybody who waited learns the outcome: tries once more, or gives up.
RefreshAnswered(b) ==
    LET r == refreshing[b]
        waits(t) == t \in CallsOf(b) /\ webTask[t].pc = "refresh"
        after(t) == IF r.pc = "ok" THEN [webTask[t] EXCEPT !.pc = "sent", !.retried = TRUE, !.with = r.with]
                    ELSE [webTask[t] EXCEPT !.pc = "refused", !.retried = TRUE]
        answered == [t \in WebTask |-> IF waits(t) THEN after(t) ELSE webTask[t]]
    IN
    /\ r.pc \in {"ok", "invalid", "failed"}
    /\ refreshing' = [refreshing EXCEPT ![b] = NoRefresh]
    /\ jar' = IF r.pc = "ok" THEN r.with ELSE jar
    /\ webTask' = IF r.pc = "invalid" THEN Outdated(answered, b) ELSE answered
    /\ shown' = IF r.pc = "invalid" THEN [shown EXCEPT ![b] = NoLogin] ELSE shown
    /\ ended' = IF r.pc = "invalid" THEN ended \cup {b} ELSE ended
    /\ UNCHANGED <<webSession, strayed>>

------------------------------------------------------------
(* The world                                                               *)

AccessExpires ==
    /\ jar.access
    /\ jar' = [jar EXCEPT !.access = FALSE]
    /\ UNCHANGED <<webSession, shown, refreshing, webTask, ended, strayed>>

\* Expiry, or a password change in another browser.
SessionDies(l) ==
    /\ webSession[l].state = "live"
    /\ webSession' = [webSession EXCEPT ![l].state = "dead"]
    /\ UNCHANGED <<jar, shown, refreshing, webTask, ended, strayed>>

WebSessionNext ==
    \/ \E t \in WebTask :
           \/ \E b \in Tab, kind \in {"boot", "use", "save", "login", "logout"} : Call(t, b, kind)
           \/ ServeRead(t) \/ ServeSave(t) \/ ServeLogin(t) \/ ServeLogout(t)
           \/ CallSucceeds(t) \/ WaitsForRefresh(t)
           \/ Reconciles(t) \/ CallErrs(t)
    \/ \E b \in Tab : ServeRefresh(b) \/ RefreshFails(b) \/ RefreshAnswered(b)
    \/ AccessExpires
    \/ \E l \in Login : SessionDies(l)

WebSessionSpec == WebSessionInit /\ [][WebSessionNext]_webVars

------------------------------------------------------------
(* Properties                                                              *)

\* Of a tab that no other tab, lost answer or overlap has misled: a user who logged out
\* or was found invalid is not shown again by whatever was still on its way; a tab that
\* shows a user has the cookies of that user's session, and one that shows nobody has left
\* no live session behind.
TabShowsItsSession ==
    \A b \in Tab \ strayed :
        /\ b \in ended => shown[b] = NoLogin
        /\ IF shown[b] # NoLogin THEN jar.session = shown[b] ELSE ~Known(jar)
=============================================================================
