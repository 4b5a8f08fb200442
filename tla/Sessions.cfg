CONSTANTS
    Session = {s1, s2}
    Cred = {c1, c2, c3, c4}
    Req = {r1, r2}
    NoSession = NoSession
    NoCred = NoCred
SPECIFICATION Spec
SYMMETRY Symmetry
INVARIANTS
    TypeOK
    RefreshSingleUse
    OnlyKeeperSurvives
    RetainedTokenMatchesRow
PROPERTIES
    DeadTokensStayDead
    ChangeVerifiedCurrentPassword
    ImplementsAccountSessions
