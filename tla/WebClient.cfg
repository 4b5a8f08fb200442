SPECIFICATION MCSpec
SYMMETRY Symmetry
CONSTANTS
    x1 = x1
    x2 = x2
    y1 = y1
    y2 = y2
    z1 = z1
    z2 = z2
    u1 = u1
    k1 = k1
    k2 = k2
    d1 = d1
    \* WebSession
    Tab = {x1, x2}
    WebTask = {y1, y2}
    Login = {z1, z2}
    MaxRotations = 1
    NoLogin = NoLogin
    NoTab = NoTab
    \* VoiceClient
    CallChannel = {x1, x2}
    Attempt = {y1, y2}
    Unmute = {u1}
    MaxQueue = 2
    NoCall = NoCall
    NoTask = NoTask
    \* VoiceCapture
    Take = {x1, x2}
    CallPeer = {y1, y2}
    NoTake = NoTake
    Nothing = Nothing
    MaxJobs = 1
    \* VoicePeers
    Caller = {x1, x2}
    NoPeer = NoPeer
    NoSession = NoSession
    MaxJoins = 3
    MaxViews = 1
    \* CallTransport
    Rate = {x1}
    Codec = {k1, k2}
    Lacked = {k2}
    MicTrack = {y1, y2}
    AUTO = AUTO
    NoWire = NoWire
    \* AudioOutput
    Speaker = {d1}
    Setting = {}
    Usual = Usual
    NoContext = NoContext
    \* ScreenPresenter
    Share = {x1, x2}
    Start = {y1, y2}
    NoShare = NoShare
    NoStream = NoStream
    MaxNotices = 3
    MaxSessions = 1
    \* RemoteMedia
    Screen = {x1, x2}
    Sending = {y1, y2}
    NoScreen = NoScreen
    NoSending = NoSending
    MaxWords = 2
    \* SoundCues, in units of 50 ms
    Coalesce = 5
    Expiry = 10
    CueLength = 4
INVARIANTS
    ClientTypeOK
    TabShowsItsSession
    MicrophoneIsShown
    CallSettles
    OneOpenMicrophone
    TransportSettles
    PeersAgree
CHECK_DEADLOCK FALSE
