CONSTANTS
    Session = {s1, s2}
    Cred = {c1, c2, c3}
    Req = {r1}
    Socket = {k1}
    NoSession = NoSession
    NoCred = NoCred
SPECIFICATION FairSocketSpec
INVARIANTS
    OnlyLateHandshakesServe
PROPERTIES
    ActiveSessionsKeepTheirSockets
    RevokedSocketsAreCutOff
