----------------------------- MODULE MessageList -----------------------------
(***************************************************************************)
(* The messages a tab shows of the channel it has open                     *)
(* (hooks/useMessages.ts, app/app/page.tsx), over a socket that may go and *)
(* come (hooks/useWebSocket.ts): pages that are read, events of the        *)
(* channel's room, and the answers to what the user sends, edits and       *)
(* deletes, each of them as late as it likes. A message's text is the      *)
(* number of its edit, and a preview is of one text.                       *)
(***************************************************************************)
EXTENDS Naturals, Sequences, FiniteSets

LOCAL INSTANCE SequencesExt

CONSTANTS TextRoom, NoTextRoom,
          MaxMessage, MaxText,      \* bounds: messages and edits
          MaxFetches,               \* bound: calls in flight
          MaxBusy,                  \* bound: messages, and what is on its way, before something new
          FullPage                  \* messages in a page

VARIABLES
    posted,                 \* the messages, in the order of their creation
    room, packetsOut, told, \* the rooms the socket is in; to the gateway, and to the tab
    wired, roomWanted,     \* whether the socket is connected; subRef
    openRoom, readable,     \* activeChannelId, and whether its history may be read
    listed,                 \* messages: of each the text, the preview and, if it is the user's own, its state
    listLoading, hasMore,
    fetches,                \* the calls in flight
    amiss                   \* what is shown misses news, or has a message of another room

tabVars == <<roomWanted, openRoom, readable, listed, listLoading, hasMore>>
wireVars == <<room, packetsOut, wired>>
listVars == <<posted, told, fetches, amiss, tabVars, wireVars>>

Texts == 0 .. MaxText
Shown(id, text, preview) == [id |-> id, text |-> text, preview |-> preview, own |-> "no"]
Optimistic(state) == [id |-> 0, text |-> 1, preview |-> 0, own |-> state]

MessageListTypeOK ==
    /\ posted \in Seq([room : TextRoom, text : Texts, preview : Texts]) /\ Len(posted) <= MaxMessage
    /\ room \subseteq TextRoom /\ {openRoom, roomWanted} \subseteq TextRoom \cup {NoTextRoom}
    /\ {wired, readable, listLoading, hasMore, amiss} \subseteq BOOLEAN
    /\ listed \subseteq [id : 0 .. MaxMessage, text : Texts, preview : Texts, own : {"no", "sending", "failed"}]
    /\ \A f \in fetches :
          f.kind \in {"list", "more", "send", "edit", "delete"} /\ f.pc \in {"asked", "done", "failed"}
    /\ \A i \in DOMAIN told : told[i].kind \in {"created", "updated", "deleted", "preview"}

MessageListInit ==
    /\ posted = <<>> /\ room = {} /\ packetsOut = <<>> /\ told = <<>> /\ wired = TRUE
    /\ roomWanted = NoTextRoom /\ openRoom = NoTextRoom /\ readable = TRUE
    /\ listed = {} /\ listLoading = FALSE /\ hasMore = TRUE /\ fetches = {} /\ amiss = FALSE

------------------------------------------------------------
(* The gateway.                                                            *)

\* What was read before is late from now on.
Late(c, calls) == {[f EXCEPT !.late = @ \/ (f.room = c /\ f.pc # "asked")] : f \in calls}
LateUnlessTold(c, calls) == IF c \in room THEN calls ELSE Late(c, calls)

\* A change is told to the room. A tab that is not in it does not hear of it, and what it still
\* hears is older.
Announces(c, event) ==
    IF c \in room
    THEN told' = Append(told, event) /\ UNCHANGED amiss
    ELSE /\ told' = [i \in DOMAIN told |-> [told[i] EXCEPT !.old = @ \/ told[i].room = c]]
         /\ amiss' = (amiss \/ c = openRoom)

Post(id) == posted[id]
LiveIn(c) == {id \in DOMAIN posted : Post(id).room = c /\ Post(id).text > 0}
Told(kind, id) == [kind |-> kind, id |-> id, text |-> posted'[id].text, preview |-> posted'[id].preview,
                   room |-> posted'[id].room, old |-> FALSE]

\* Bound: the more messages there are, the less is on its way when something new happens.
Calm == Len(posted) + Cardinality(fetches) + Len(told) + Len(packetsOut) <= MaxBusy

Creates(c) == Len(posted) < MaxMessage /\ posted' = Append(posted, [room |-> c, text |-> 1, preview |-> 0])
Changes(id, text, preview) == posted' = [posted EXCEPT ![id].text = text, ![id].preview = preview]

\* Others' messages, their edits and deletions, and the previews of links.
OthersChange(c) ==
    /\ Calm /\ UNCHANGED <<wireVars, tabVars>>
    /\ \/ Creates(c) /\ Announces(c, Told("created", Len(posted) + 1))
       \/ \E id \in LiveIn(c) :
             \/ /\ Post(id).text < MaxText /\ Changes(id, Post(id).text + 1, 0)
                /\ Announces(c, Told("updated", id))
             \/ Changes(id, 0, 0) /\ Announces(c, Told("deleted", id))
             \/ /\ Post(id).preview = 0 /\ Changes(id, Post(id).text, Post(id).text)
                /\ Announces(c, Told("preview", id))
    /\ fetches' = LateUnlessTold(c, fetches)

Newest(ids) == {id \in ids : Cardinality({j \in ids : j > id}) < FullPage}

\* An answer is what there is when the call is served. Older messages are those with a lesser
\* id, and ids are random: it may be any of them. A call that failed may have been served.
ServeFetch(f) ==
    /\ f \in fetches /\ f.pc = "asked" /\ UNCHANGED <<wireVars, tabVars>>
    /\ LET others == fetches \ {f}
           Read(g) == fetches' = others \cup {g} /\ UNCHANGED <<posted, told, amiss>>
           Done(g) == fetches' = LateUnlessTold(f.room, others) \cup {g}
           older == {id \in LiveIn(f.room) : f.kind = "list" \/ id < f.id}
           answered == [f EXCEPT !.pc = "done"]
       IN
       \/ /\ f.kind \in {"list", "more"}
          /\ \E found \in {older} \cup (IF f.kind = "more" THEN SUBSET (LiveIn(f.room) \ {f.id}) ELSE {}) :
                Read([answered EXCEPT !.page = {Shown(id, Post(id).text, Post(id).preview) : id \in Newest(found)},
                                      !.late = @ \/ Newest(found) # Newest(older)])
       \/ /\ f.kind = "send" /\ Creates(f.room) /\ Announces(f.room, Told("created", Len(posted) + 1))
          /\ \E pc \in {"done", "failed"} : Done([answered EXCEPT !.pc = pc, !.id = Len(posted) + 1])
       \/ /\ f.kind = "edit" /\ f.id \in LiveIn(f.room) /\ Post(f.id).text < MaxText
          /\ Changes(f.id, Post(f.id).text + 1, 0) /\ Announces(f.room, Told("updated", f.id))
          /\ Done([answered EXCEPT !.page = {Shown(f.id, Post(f.id).text + 1, 0)}])
       \/ /\ f.kind = "delete" /\ f.id \in LiveIn(f.room) /\ Changes(f.id, 0, 0)
          /\ Announces(f.room, Told("deleted", f.id)) /\ Done(answered)
       \/ Read([f EXCEPT !.pc = "failed"])

\* A subscription is checked before it is made: what comes after it may be served first.
ServePacket(i) ==
    /\ i \in DOMAIN packetsOut /\ wired /\ packetsOut' = RemoveAt(packetsOut, i)
    /\ \A j \in 1 .. i - 1 : packetsOut[j].kind = "subscribe"
    /\ LET p == packetsOut[i] IN
       room' = IF p.kind = "subscribe" THEN room \cup {p.room} ELSE room \ {p.room}
    /\ UNCHANGED <<posted, told, wired, tabVars, fetches, amiss>>

SocketLost ==
    /\ Calm /\ wired /\ wired' = FALSE /\ room' = {} /\ packetsOut' = <<>> /\ told' = <<>>
    /\ amiss' = (amiss \/ \E i \in DOMAIN told : told[i].room = openRoom)
    /\ LET unheard(f) == f.pc # "asked" /\ \E i \in DOMAIN told : told[i].room = f.room
       IN fetches' = {[f EXCEPT !.late = @ \/ unheard(f)] : f \in fetches}
    /\ UNCHANGED <<posted, tabVars>>

SocketBack ==
    /\ ~wired /\ wired' = TRUE
    /\ packetsOut' = IF roomWanted = NoTextRoom THEN <<>> ELSE <<[kind |-> "subscribe", room |-> roomWanted]>>
    /\ UNCHANGED <<posted, room, told, tabVars, fetches, amiss>>

------------------------------------------------------------
(* The tab.                                                                *)

Call(kind, c, id) == [kind |-> kind, room |-> c, id |-> id, pc |-> "asked", page |-> {}, late |-> FALSE]
NewCall(f) == Cardinality(fetches) < MaxFetches /\ f \notin fetches /\ fetches' = fetches \cup {f}

\* Once a list is there or begins, an older page asked for before belongs to another one.
OfAnotherList(calls) == {[f EXCEPT !.late = @ \/ f.kind = "more"] : f \in calls}

\* Another room is opened, or its history may or may not be read: the list begins anew.
BeginsList(c, can) ==
    LET calls == OfAnotherList(fetches)
        list == Call("list", c, 0)
    IN
    /\ listed' = {} /\ hasMore' = can /\ amiss' = FALSE
    /\ IF c # NoTextRoom /\ can
       THEN /\ Cardinality(fetches) < MaxFetches /\ list \notin fetches
            /\ listLoading' = TRUE /\ fetches' = calls \cup {list}
       ELSE listLoading' = (listLoading /\ can) /\ fetches' = calls

OpenRoom(c) ==
    /\ Calm /\ c # openRoom /\ openRoom' = c /\ roomWanted' = c /\ BeginsList(c, readable)
    /\ LET leaves == IF openRoom = NoTextRoom THEN <<>> ELSE <<[kind |-> "unsubscribe", room |-> openRoom]>>
           enters == IF c = NoTextRoom THEN <<>> ELSE <<[kind |-> "subscribe", room |-> c]>>
       IN packetsOut' = IF wired THEN packetsOut \o leaves \o enters ELSE packetsOut
    /\ UNCHANGED <<posted, room, told, wired, readable>>

ReadableChanges ==
    /\ Calm /\ readable' = ~readable /\ BeginsList(openRoom, ~readable)
    /\ UNCHANGED <<posted, wireVars, told, roomWanted, openRoom>>

Confirmed == {e \in listed : e.id > 0}

LoadMore ==
    /\ Calm /\ openRoom # NoTextRoom /\ readable /\ ~listLoading /\ hasMore /\ Confirmed # {}
    /\ \E e \in Confirmed : (\A d \in Confirmed : e.id <= d.id) /\ NewCall(Call("more", openRoom, e.id))
    /\ listLoading' = TRUE
    /\ UNCHANGED <<posted, wireVars, told, roomWanted, openRoom, readable, listed, hasMore, amiss>>

SendMessage ==
    /\ Calm /\ openRoom # NoTextRoom /\ ~\E f \in fetches : f.kind = "send"
    /\ NewCall(Call("send", openRoom, 0)) /\ listed' = listed \cup {Optimistic("sending")}
    /\ UNCHANGED <<posted, wireVars, told, roomWanted, openRoom, readable, listLoading, hasMore, amiss>>

EditOrRemove(kind) ==
    /\ Calm /\ \E e \in Confirmed : NewCall(Call(kind, openRoom, e.id))
    /\ UNCHANGED <<posted, wireVars, told, tabVars, amiss>>

------------------------------------------------------------
(* What arrives.                                                           *)

\* A message brings its preview, or keeps the one there is of the same text.
Reconciled(id, text, preview) ==
    LET before == {e \in listed : e.id = id /\ e.text = text} IN
    Shown(id, text, IF preview > 0 \/ before = {} THEN preview ELSE (CHOOSE e \in before : TRUE).preview)

Upserts(entry) == listed' = {e \in listed : e.id # entry.id} \cup {entry}
Updates(entry) == listed' = {IF e.id = entry.id THEN entry ELSE e : e \in listed}
Without(id) == {e \in listed : e.id # id}

HandleWsEvent ==
    /\ told # <<>> /\ told' = Tail(told)
    /\ LET t == Head(told) IN
       /\ fetches' = Late(t.room, fetches)
       /\ \/ t.room # openRoom /\ UNCHANGED listed
          \/ t.room = openRoom /\ t.kind = "created" /\ Upserts(Reconciled(t.id, t.text, t.preview))
          \/ t.room = openRoom /\ t.kind = "updated" /\ Updates(Reconciled(t.id, t.text, t.preview))
          \/ t.room = openRoom /\ t.kind = "deleted" /\ listed' = Without(t.id)
          \/ /\ t.room = openRoom /\ t.kind = "preview"
             /\ listed' = {IF e.id = t.id /\ e.text = t.text THEN [e EXCEPT !.preview = t.preview] ELSE e :
                               e \in listed}
       /\ amiss' = (amiss \/ (t.room = openRoom /\ t.old))
    /\ UNCHANGED <<posted, wireVars, roomWanted, openRoom, readable, listLoading, hasMore>>

\* An answer is dropped when its room is not open or may not be read any more.
ListAnswered(f) ==
    /\ f \in fetches /\ f.kind \in {"list", "more"} /\ f.pc # "asked"
    /\ fetches' = IF f.kind = "list" THEN OfAnotherList(fetches \ {f}) ELSE fetches \ {f}
    /\ IF readable /\ openRoom = f.room
       THEN /\ listLoading' = FALSE
            /\ IF f.pc = "failed" THEN UNCHANGED <<listed, hasMore>> /\ amiss' = (amiss \/ f.kind = "list")
               ELSE /\ hasMore' = (Cardinality(f.page) = FullPage)
                    /\ IF f.kind = "list" THEN listed' = f.page /\ amiss' = f.late
                       ELSE /\ listed' = listed \cup {e \in f.page : \A d \in listed : d.id # e.id}
                            /\ amiss' = (amiss \/ f.late)
       ELSE UNCHANGED <<listLoading, listed, hasMore, amiss>>
    /\ UNCHANGED <<posted, wireVars, told, roomWanted, openRoom, readable>>

\* The answer is taken into whatever room is open by then.
SendAnswered(f) ==
    /\ f \in fetches /\ f.kind = "send" /\ f.pc # "asked" /\ fetches' = fetches \ {f}
    /\ LET others == listed \ {Optimistic("sending")} IN
       IF f.pc = "failed"
       THEN /\ listed' = IF others = listed THEN listed ELSE others \cup {Optimistic("failed")}
            /\ UNCHANGED amiss
       ELSE /\ listed' = {e \in others : e.id # f.id} \cup {Shown(f.id, 1, 0)}
            /\ amiss' = (amiss \/ f.late \/ f.room # openRoom)
    /\ UNCHANGED <<posted, wireVars, told, roomWanted, openRoom, readable, listLoading, hasMore>>

EditAnswered(f) ==
    /\ f \in fetches /\ f.kind = "edit" /\ f.pc # "asked" /\ fetches' = fetches \ {f}
    /\ IF f.pc = "failed" THEN UNCHANGED <<listed, amiss>>
       ELSE /\ \A e \in f.page : Updates(Reconciled(e.id, e.text, e.preview))
            /\ amiss' = (amiss \/ f.late)
    /\ UNCHANGED <<posted, wireVars, told, roomWanted, openRoom, readable, listLoading, hasMore>>

DeleteAnswered(f) ==
    /\ f \in fetches /\ f.kind = "delete" /\ f.pc # "asked" /\ fetches' = fetches \ {f}
    /\ listed' = IF f.pc = "done" THEN Without(f.id) ELSE listed
    /\ UNCHANGED <<posted, wireVars, told, roomWanted, openRoom, readable, listLoading, hasMore, amiss>>

MessageListNext ==
    \/ \E c \in TextRoom : OthersChange(c)
    \/ \E c \in TextRoom \cup {NoTextRoom} : OpenRoom(c)
    \/ \E f \in fetches : ServeFetch(f) \/ ListAnswered(f) \/ SendAnswered(f) \/ EditAnswered(f) \/ DeleteAnswered(f)
    \/ \E i \in DOMAIN packetsOut : ServePacket(i)
    \/ SocketLost \/ SocketBack \/ ReadableChanges \/ LoadMore \/ SendMessage \/ HandleWsEvent
    \/ \E kind \in {"edit", "delete"} : EditOrRemove(kind)

------------------------------------------------------------
ListQuiet ==
    /\ fetches = {} /\ told = <<>> /\ packetsOut = <<>> /\ wired
    /\ openRoom # NoTextRoom /\ readable /\ ~amiss

\* When all has arrived, the tab shows the messages of the open room from the oldest it shows,
\* or all of them when it says there are no more, each with its last text. A preview is of the
\* text it is shown with, at any time. Not so when news was missed (while the tab was not in
\* the room, or was reading), or when a message sent in one room was confirmed in another:
\* until the list begins anew.
MessagesSettle ==
    /\ \A e \in listed : e.preview \in {0, e.text}
    /\ ListQuiet =>
          /\ openRoom \in room
          /\ \A id \in LiveIn(openRoom) :
                \/ Shown(id, Post(id).text, Post(id).preview) \in listed
                \/ hasMore /\ \A e \in Confirmed : id < e.id
          /\ \A e \in Confirmed : e.id \in LiveIn(openRoom)
=============================================================================
