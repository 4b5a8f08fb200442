SPECIFICATION MCSpec
SYMMETRY Symmetry
CONSTANTS
    x1 = x1
    x2 = x2
    s1 = s1
    s2 = s2
    t1 = t1
    t2 = t2
    j3 = j3
    ann = ann
    file = file
    key1 = key1
    \* ScreenShares
    Presenter = {ann}
    ShareSocket = {s1, s2}
    PresenterOf <- SharesOfAnn
    Share = {x1, x2}
    ShareTask = {t1, t2}
    NoShare = NoShare
    NoShareSocket = NoShareSocket
    \* Presence
    PresentUser = {ann}
    PresenceSocket = {x1, x2}
    PresentOf <- TabsOfAnn
    PresenceStatus = {"ONLINE", "IDLE"}
    NoStatus = NoStatus
    MaxConnections = 3
    \* Messages
    Message = {x1, x2}
    Attachment = {file}
    MessageTask = {t1, t2}
    SendKey = {key1}
    NoMessage = NoMessage
    NoAttachment = NoAttachment
    NoSendKey = NoSendKey
    \* Avatars
    Version = {x1, x2}
    AvatarTask = {t1, t2}
    NoVersion = NoVersion
    \* LinkPreviews
    PreviewJob = {x1, x2, j3}
    Concurrency = 2
    Queue = 1
    TotalTime = 2
    LockTime = 5
    NoJob = NoJob
    NoTimer = NoTimer
    \* Preferences
    Account = {ann}
    NoAccount = NoAccount
    Lane = {"playback"}
    Null = Null
    NoRequest = NoRequest
    NotChosen = NotChosen
    MaxEdits = 2
    \* VoiceMix
    Listener = {x1, x2}
    NoListener = NoListener
    Target = {ann}
    Loudness = {0, 1}
    Usual = 0
    NoWrite = NoWrite
    \* MessageList
    TextRoom = {x1, x2}
    NoTextRoom = NoTextRoom
    MaxMessage = 2
    MaxText = 2
    MaxFetches = 2
    MaxBusy = 2
    FullPage = 1
    \* MemberContext
    Fellow = {ann}
    Membership = {x1, x2}
    FellowOf <- TabsOfAnn
    NotRead = NotRead
    NoFellow = NoFellow
INVARIANTS
    ContentTypeOK
    SettledShares
    SettledPresence
    MessagesKeepTheirAttachments
    DeletionIsFinal
    ReferencedAvatarIsStored
    OneFetchAtATime
    PageSettles
