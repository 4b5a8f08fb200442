------------------------------ MODULE Messages ------------------------------
(***************************************************************************)
(* The messages of one text channel, their attachments and the objects the *)
(* attachments name: MessageService, UploadService and the clean-up timer. *)
(* A task is one request, or one sweep, between two of its awaits. What a  *)
(* request may do by permission is Permissions' business: the requests     *)
(* shown are the permitted ones.                                           *)
(***************************************************************************)
EXTENDS Integers, FiniteSets

CONSTANTS
    Message, Attachment, MessageTask,
    SendKey,        \* idempotency keys that clients send
    NoMessage, NoAttachment, NoSendKey

ASSUME MessageAssumption ==
    NoMessage \notin Message /\ NoAttachment \notin Attachment /\ NoSendKey \notin SendKey

VARIABLES
    driver,      \* STORAGE_DRIVER
    channelUp,   \* the channel's row exists
    message,     \* the rows: their content, and what the room was last told
    linkedTo,    \* Attachment.messageId
    upload,      \* the attachment's row: "none", "prepared" or "processed"
    object,      \* what storage holds for the attachment's key
    url,         \* attachments whose presigned URL still takes a PUT
    messageTask,
    carried,     \* history: the attachments a message was sent with
    fought,      \* history: attachments that two sends, or a send and a sweep, held at once
    overwritten, \* history: attachments that the browser put after a check had read them
    leaked,      \* history: attachments whose delete failed unseen or met an upload
    revived,     \* history: messages deleted while an edit had yet to commit
    misheard     \* history: messages deleted while an edit or their creation had yet to be told

messageVars == <<driver, channelUp, message, linkedTo, upload, object, url, messageTask,
                 carried, fought, overwritten, leaked, revived, misheard>>
messageHistory == <<carried, fought, overwritten, leaked, revived, misheard>>
attachmentRow == <<linkedTo, upload>>

NoRow == [state |-> "none", key |-> NoSendKey, content |-> "", told |-> ""]
NoMessageTask ==
    [pc |-> "idle", msg |-> NoMessage, atts |-> {}, key |-> NoSendKey, doomed |-> {}, at |-> NoAttachment]

MessageTypeOK ==
    /\ driver \in {"local", "r2"} /\ channelUp \in BOOLEAN
    /\ message \in [Message -> [state : {"none", "live", "deleted"}, key : SendKey \cup {NoSendKey},
                                content : {"", "sent", "edited"},
                                told : {"", "created", "updated", "deleted"}]]
    /\ linkedTo \in [Attachment -> Message \cup {NoMessage}]
    /\ upload \in [Attachment -> {"none", "prepared", "processed"}]
    /\ object \in [Attachment -> {"absent", "fit", "unfit"}]
    /\ url \subseteq Attachment
    /\ messageTask \in [MessageTask ->
           [pc : {"idle", "find", "insert", "created", "edit", "updated", "drop", "deleted", "select",
                  "expire", "expirerow", "orphan", "orphanrow", "put", "head", "reject", "mark"},
            msg : Message \cup {NoMessage}, atts : SUBSET Attachment, key : SendKey \cup {NoSendKey},
            doomed : SUBSET (Attachment \X (Message \cup {NoMessage})),
            at : Attachment \cup {NoAttachment}]]
    /\ carried \in [Message -> SUBSET Attachment]
    /\ fought \subseteq Attachment /\ overwritten \subseteq Attachment /\ leaked \subseteq Attachment
    /\ revived \subseteq Message /\ misheard \subseteq Message

MessageInit ==
    /\ driver \in {"local", "r2"} /\ channelUp = TRUE
    /\ message = [x \in Message |-> NoRow]
    /\ linkedTo = [a \in Attachment |-> NoMessage] /\ upload = [a \in Attachment |-> "none"]
    /\ object = [a \in Attachment |-> "absent"] /\ url = {}
    /\ messageTask = [t \in MessageTask |-> NoMessageTask]
    /\ carried = [x \in Message |-> {}] /\ fought = {} /\ overwritten = {} /\ leaked = {}
    /\ revived = {} /\ misheard = {}

Doing(t, pc) == messageTask[t].pc = pc
Goes(t, r) == messageTask' = [messageTask EXCEPT ![t] = r]
Done(t) == Goes(t, NoMessageTask)
Starts(t, pc) == [NoMessageTask EXCEPT !.pc = pc]

Doomed(t) == {pair[1] : pair \in messageTask[t].doomed} \cup
             (IF messageTask[t].pc \in {"expirerow", "orphanrow"} THEN {messageTask[t].at} ELSE {})
Cleaning(a) == \E t \in MessageTask : a \in Doomed(t)
Checked(a) == \E t \in MessageTask : messageTask[t].pc \in {"reject", "mark"} /\ messageTask[t].at = a
Uploading(a) == \E t \in MessageTask : messageTask[t].pc \in {"put", "mark"} /\ messageTask[t].at = a

------------------------------------------------------------
(* UploadService: prepare, uploadFile, complete                            *)

\* A prepared attachment is a new row with a new id and a new key. R2's driver gives a
\* URL under which the browser may put the object.
Prepare(a) ==
    /\ channelUp /\ upload[a] = "none" /\ object[a] = "absent" /\ a \notin url /\ ~Cleaning(a)
    /\ \A t \in MessageTask : messageTask[t].at # a /\ a \notin messageTask[t].atts
    /\ \A x \in Message : a \notin carried[x]
    /\ upload' = [upload EXCEPT ![a] = "prepared"]
    /\ url' = IF driver = "r2" THEN url \cup {a} ELSE url
    /\ UNCHANGED <<driver, channelUp, message, linkedTo, object, messageTask>>
    /\ UNCHANGED messageHistory

\* Local driver: the bytes pass through the API, which has validated them.
UploadFile(t, a) ==
    /\ driver = "local" /\ Doing(t, "idle") /\ upload[a] # "none"
    /\ Goes(t, [Starts(t, "put") EXCEPT !.at = a])
    /\ leaked' = IF Cleaning(a) THEN leaked \cup {a} ELSE leaked
    /\ UNCHANGED <<driver, channelUp, message, object, url, carried, fought, overwritten, revived, misheard>>
    /\ UNCHANGED attachmentRow

PutObject(t) ==
    /\ Doing(t, "put")
    /\ object' = [object EXCEPT ![messageTask[t].at] = "fit"]
    /\ Goes(t, [messageTask[t] EXCEPT !.pc = "mark"])
    /\ leaked' = IF Cleaning(messageTask[t].at) \/ upload[messageTask[t].at] = "none"
                 THEN leaked \cup {messageTask[t].at} ELSE leaked
    /\ UNCHANGED <<driver, channelUp, message, url, carried, fought, overwritten, revived, misheard>>
    /\ UNCHANGED attachmentRow

\* R2 driver: the browser puts an object under the key that it was given, as often as it
\* likes while the URL is valid. Nothing tells the server.
BrowserPut(a) ==
    /\ a \in url
    /\ \E kind \in {"fit", "unfit"} : object' = [object EXCEPT ![a] = kind]
    /\ overwritten' = IF upload[a] = "processed" \/ Checked(a) THEN overwritten \cup {a} ELSE overwritten
    /\ leaked' = IF upload[a] = "none" \/ Cleaning(a) THEN leaked \cup {a} ELSE leaked
    /\ UNCHANGED <<driver, channelUp, message, url, messageTask, carried, fought, revived, misheard>>
    /\ UNCHANGED attachmentRow

\* R2_PRESIGNED_UPLOAD_TTL passes.
UrlExpires(a) ==
    /\ a \in url /\ url' = url \ {a}
    /\ UNCHANGED <<driver, channelUp, message, object, messageTask>>
    /\ UNCHANGED attachmentRow /\ UNCHANGED messageHistory

\* The local driver's complete changes nothing.
Complete(t, a) ==
    /\ driver = "r2" /\ Doing(t, "idle") /\ upload[a] # "none" /\ linkedTo[a] = NoMessage
    /\ Goes(t, [Starts(t, "head") EXCEPT !.at = a])
    /\ UNCHANGED <<driver, channelUp, message, object, url>>
    /\ UNCHANGED attachmentRow /\ UNCHANGED messageHistory

\* The object is read and validated, unless it is not there or the store fails. One
\* that is not what was declared is to be deleted.
HeadObject(t) ==
    LET r == messageTask[t] IN
    /\ Doing(t, "head")
    /\ \/ Done(t)
       \/ object[r.at] = "fit" /\ Goes(t, [r EXCEPT !.pc = "mark"])
       \/ object[r.at] = "unfit" /\ Goes(t, [r EXCEPT !.pc = "reject"])
    /\ UNCHANGED <<driver, channelUp, message, object, url>>
    /\ UNCHANGED attachmentRow /\ UNCHANGED messageHistory

\* By now the browser may have put another one. A delete that fails leaves it there.
RejectObject(t) ==
    LET a == messageTask[t].at IN
    /\ Doing(t, "reject")
    /\ \E left \in {"absent", object[a]} : object' = [object EXCEPT ![a] = left]
    /\ Done(t)
    /\ UNCHANGED <<driver, channelUp, message, url>>
    /\ UNCHANGED attachmentRow /\ UNCHANGED messageHistory

\* The update fails if the row is gone.
MarkProcessed(t) ==
    LET a == messageTask[t].at IN
    /\ Doing(t, "mark")
    /\ upload' = IF upload[a] = "none" THEN upload ELSE [upload EXCEPT ![a] = "processed"]
    /\ Done(t)
    /\ UNCHANGED <<driver, channelUp, message, linkedTo, object, url>>
    /\ UNCHANGED messageHistory

------------------------------------------------------------
(* MessageService.create                                                   *)

\* Every attachment is there, completed, and not linked yet.
Send(t, atts, key) ==
    /\ Doing(t, "idle") /\ channelUp
    /\ \A a \in atts : upload[a] = "processed" /\ linkedTo[a] = NoMessage
    /\ Goes(t, [Starts(t, "find") EXCEPT !.atts = atts, !.key = key])
    /\ UNCHANGED <<driver, channelUp, message, object, url>>
    /\ UNCHANGED attachmentRow /\ UNCHANGED messageHistory

KeyTaken(key) == key # NoSendKey /\ \E x \in Message : message[x].state # "none" /\ message[x].key = key

\* A key that was used answers with its message, deleted or not.
FindKey(t) ==
    /\ Doing(t, "find")
    /\ IF KeyTaken(messageTask[t].key) THEN Done(t)
       ELSE Goes(t, [messageTask[t] EXCEPT !.pc = "insert"])
    /\ UNCHANGED <<driver, channelUp, message, object, url>>
    /\ UNCHANGED attachmentRow /\ UNCHANGED messageHistory

\* Plausible bug: the connect is lost, so that the row takes no attachment along.
InsertBare(t) ==
    LET r == messageTask[t] IN
    /\ Doing(t, "insert") /\ channelUp
    /\ \E x \in Message :
           /\ message[x].state = "none" /\ carried[x] = {}
           /\ message' = [message EXCEPT ![x] =
                  [state |-> "live", key |-> r.key, content |-> "sent", told |-> ""]]
           /\ carried' = [carried EXCEPT ![x] = r.atts]
           /\ Goes(t, [Starts(t, "created") EXCEPT !.msg = x])
    /\ UNCHANGED <<driver, channelUp, object, url, fought, overwritten, leaked, revived, misheard>>
    /\ UNCHANGED attachmentRow

\* The row and its links in one transaction: connect takes an attachment from the
\* message that has it. The unique index, the channel or a missing attachment fails it.
Insert(t) ==
    LET r == messageTask[t] IN
    /\ Doing(t, "insert")
    /\ IF KeyTaken(r.key) \/ ~channelUp \/ \E a \in r.atts : upload[a] = "none"
       THEN Done(t) /\ UNCHANGED <<message, linkedTo, carried, fought>>
       ELSE \E x \in Message :
                /\ message[x].state = "none" /\ carried[x] = {}
                /\ message' = [message EXCEPT ![x] =
                       [state |-> "live", key |-> r.key, content |-> "sent", told |-> ""]]
                /\ linkedTo' = [a \in Attachment |-> IF a \in r.atts THEN x ELSE linkedTo[a]]
                /\ carried' = [carried EXCEPT ![x] = r.atts]
                /\ fought' = fought \cup {a \in r.atts : linkedTo[a] # NoMessage \/ Cleaning(a)}
                /\ Goes(t, [Starts(t, "created") EXCEPT !.msg = x])
    /\ UNCHANGED <<driver, channelUp, upload, object, url, overwritten, leaked, revived, misheard>>

\* What was committed is told to the channel's room by the same request, and only then:
\* other requests may commit and tell in between. A deletion goes on to the attachments.
Tell(t) ==
    LET r == messageTask[t] IN
    /\ r.pc \in {"created", "updated", "deleted"}
    /\ message' = IF message[r.msg].state = "none" THEN message
                  ELSE [message EXCEPT ![r.msg].told = r.pc]
    /\ IF r.pc = "deleted" THEN Goes(t, [r EXCEPT !.pc = "select"]) ELSE Done(t)
    /\ UNCHANGED <<driver, channelUp, object, url>>
    /\ UNCHANGED attachmentRow /\ UNCHANGED messageHistory

------------------------------------------------------------
(* MessageService.update and delete; the channel's deletion                *)

Edit(t, x) ==
    /\ Doing(t, "idle") /\ message[x].state = "live"
    /\ Goes(t, [Starts(t, "edit") EXCEPT !.msg = x])
    /\ UNCHANGED <<driver, channelUp, message, object, url>>
    /\ UNCHANGED attachmentRow /\ UNCHANGED messageHistory

\* The update asks for the id only.
EditCommit(t) ==
    LET x == messageTask[t].msg IN
    /\ Doing(t, "edit")
    /\ IF message[x].state = "none" THEN Done(t) /\ UNCHANGED message
       ELSE /\ message' = [message EXCEPT ![x].content = "edited"]
            /\ Goes(t, [messageTask[t] EXCEPT !.pc = "updated"])
    /\ UNCHANGED <<driver, channelUp, object, url>>
    /\ UNCHANGED attachmentRow /\ UNCHANGED messageHistory

Delete(t, x) ==
    /\ Doing(t, "idle") /\ message[x].state # "none"
    /\ Goes(t, [Starts(t, IF message[x].state = "live" THEN "drop" ELSE "select") EXCEPT !.msg = x])
    /\ UNCHANGED <<driver, channelUp, message, object, url>>
    /\ UNCHANGED attachmentRow /\ UNCHANGED messageHistory

\* The deletion commits while these requests for the message are under way.
DropMeets(x) ==
    LET Meets(pcs) == \E t \in MessageTask : messageTask[t].pc \in pcs /\ messageTask[t].msg = x IN
    /\ revived' = IF Meets({"edit"}) THEN revived \cup {x} ELSE revived
    /\ misheard' = IF Meets({"created", "edit", "updated"}) THEN misheard \cup {x} ELSE misheard

\* Plausible bug: the row is marked and its text stays.
DropKeepsText(t) ==
    LET x == messageTask[t].msg IN
    /\ Doing(t, "drop")
    /\ IF message[x].state # "live"
       THEN Goes(t, [messageTask[t] EXCEPT !.pc = "select"]) /\ UNCHANGED <<message, revived, misheard>>
       ELSE /\ message' = [message EXCEPT ![x].state = "deleted"]
            /\ Goes(t, [messageTask[t] EXCEPT !.pc = "deleted"])
            /\ DropMeets(x)
    /\ UNCHANGED <<driver, channelUp, object, url, carried, fought, overwritten, leaked>>
    /\ UNCHANGED attachmentRow

\* updateMany: only a live row makes the transition, and only the transition is told.
Drop(t) ==
    LET x == messageTask[t].msg IN
    /\ Doing(t, "drop")
    /\ IF message[x].state # "live"
       THEN Goes(t, [messageTask[t] EXCEPT !.pc = "select"]) /\ UNCHANGED <<message, revived, misheard>>
       ELSE /\ message' = [message EXCEPT ![x].state = "deleted", ![x].content = ""]
            /\ Goes(t, [messageTask[t] EXCEPT !.pc = "deleted"])
            /\ DropMeets(x)
    /\ UNCHANGED <<driver, channelUp, object, url, carried, fought, overwritten, leaked>>
    /\ UNCHANGED attachmentRow

\* Messages go with the channel; their attachments stay behind, unlinked.
DeleteTextChannel ==
    /\ channelUp
    /\ channelUp' = FALSE
    /\ message' = [x \in Message |-> NoRow]
    /\ linkedTo' = [a \in Attachment |-> NoMessage]
    /\ UNCHANGED <<driver, upload, object, url, messageTask>> /\ UNCHANGED messageHistory

------------------------------------------------------------
(* Clean-up                                                                *)

\* Attachments selected for deletion, each with the message it was read with.
Condemn(t, pc, doomed) ==
    /\ Goes(t, [Starts(t, pc) EXCEPT !.doomed = doomed])
    /\ leaked' = leaked \cup {a \in Attachment : Uploading(a) /\ \E pair \in doomed : pair[1] = a}
    /\ UNCHANGED <<driver, channelUp, message, object, url, carried, fought, overwritten, revived, misheard>>
    /\ UNCHANGED attachmentRow

LinkedIn(messages) ==
    {pair \in Attachment \X messages : upload[pair[1]] # "none" /\ linkedTo[pair[1]] = pair[2]}

DeleteMessageAttachments(t) ==
    /\ Doing(t, "select") /\ Condemn(t, "expire", LinkedIn({messageTask[t].msg}))

DeleteExpired(t) ==
    /\ Doing(t, "idle") /\ Condemn(t, "expire", LinkedIn({x \in Message : message[x].state = "deleted"}))

\* Which of the unlinked rows are 24 hours old is left open: no URL is valid that long.
DeleteOrphaned(t) ==
    /\ Doing(t, "idle")
    /\ \E old \in SUBSET {pair \in LinkedIn({NoMessage}) : pair[1] \notin url} : Condemn(t, "orphan", old)

\* storage.delete of the next one. R2 reports a failure: deleteAttachmentObjects goes on
\* with the others, deleteOrphaned stops. The local driver hides it.
DeleteObject(t) ==
    LET r == messageTask[t] IN
    /\ r.pc \in {"expire", "orphan"}
    /\ \E pair \in r.doomed :
           LET rest == r.doomed \ {pair}
               row == [r EXCEPT !.pc = IF @ = "expire" THEN "expirerow" ELSE "orphanrow",
                                !.at = pair[1], !.msg = pair[2], !.doomed = rest]
           IN
           \/ object' = [object EXCEPT ![pair[1]] = "absent"] /\ Goes(t, row) /\ UNCHANGED leaked
           \/ /\ driver = "local" /\ object[pair[1]] # "absent"
              /\ leaked' = leaked \cup {pair[1]} /\ Goes(t, row) /\ UNCHANGED object
           \/ /\ driver = "r2"
              /\ IF r.pc = "expire" THEN Goes(t, [r EXCEPT !.doomed = rest]) ELSE Done(t)
              /\ UNCHANGED <<object, leaked>>
    /\ UNCHANGED <<driver, channelUp, message, url, carried, fought, overwritten, revived, misheard>>
    /\ UNCHANGED attachmentRow

RowGoes(a) ==
    /\ upload' = [upload EXCEPT ![a] = "none"]
    /\ linkedTo' = [linkedTo EXCEPT ![a] = NoMessage]

\* The row goes if it is still the message's. An orphan's row goes by its id; the sweep
\* fails if it is gone.
DeleteRow(t) ==
    LET r == messageTask[t]
        gone == upload[r.at] = "none"
    IN
    /\ \/ /\ r.pc = "expirerow"
          /\ IF ~gone /\ linkedTo[r.at] = r.msg THEN RowGoes(r.at) ELSE UNCHANGED attachmentRow
          /\ Goes(t, [Starts(t, "expire") EXCEPT !.doomed = r.doomed])
       \/ /\ r.pc = "orphanrow"
          /\ IF gone THEN Done(t) /\ UNCHANGED attachmentRow
             ELSE RowGoes(r.at) /\ Goes(t, [Starts(t, "orphan") EXCEPT !.doomed = r.doomed])
    /\ UNCHANGED <<driver, channelUp, message, object, url>> /\ UNCHANGED messageHistory

CleanUpEnds(t) ==
    /\ messageTask[t].pc \in {"expire", "orphan"} /\ messageTask[t].doomed = {}
    /\ Done(t)
    /\ UNCHANGED <<driver, channelUp, message, object, url>>
    /\ UNCHANGED attachmentRow /\ UNCHANGED messageHistory

MessageNext ==
    \/ \E a \in Attachment : Prepare(a) \/ BrowserPut(a) \/ UrlExpires(a)
    \/ \E t \in MessageTask :
           \/ \E a \in Attachment : UploadFile(t, a) \/ Complete(t, a)
           \/ PutObject(t) \/ HeadObject(t) \/ RejectObject(t) \/ MarkProcessed(t)
           \/ \E atts \in SUBSET Attachment, key \in SendKey \cup {NoSendKey} : Send(t, atts, key)
           \/ FindKey(t) \/ Insert(t)
           \/ \E x \in Message : Edit(t, x) \/ Delete(t, x)
           \/ EditCommit(t) \/ Drop(t) \/ Tell(t)
           \/ DeleteMessageAttachments(t) \/ DeleteExpired(t) \/ DeleteOrphaned(t)
           \/ DeleteObject(t) \/ DeleteRow(t) \/ CleanUpEnds(t)
    \/ DeleteTextChannel

MessageSpec == MessageInit /\ [][MessageNext]_messageVars

------------------------------------------------------------
(* Properties                                                              *)

\* A message that has not been deleted still has every attachment it was sent with,
\* completed: unless two sends took the same one, or the orphan sweep had already
\* selected it. What storage holds for it is what was validated: unless the browser put
\* another object after the validation had read the first.
MessagesKeepTheirAttachments ==
    \A x \in Message : message[x].state = "live" =>
        \A a \in carried[x] \ fought :
            /\ linkedTo[a] = x /\ upload[a] = "processed"
            /\ a \notin overwritten => object[a] = "fit"

\* When nothing is in flight, deletion is final. A deleted message has no text, unless an
\* edit had yet to commit; and the room heard of the deletion last, unless an edit or the
\* creation had yet to be told. Whatever storage still holds has its row, so that a later
\* sweep finds it, unless the local driver hid a failure or an upload met the clean-up.
DeletionIsFinal ==
    (\A t \in MessageTask : Doing(t, "idle")) =>
        /\ \A x \in Message : message[x].state = "deleted" =>
               /\ x \notin revived => message[x].content = ""
               /\ x \notin misheard => message[x].told = "deleted"
        /\ \A a \in Attachment \ leaked : object[a] # "absent" => upload[a] # "none"
=============================================================================
