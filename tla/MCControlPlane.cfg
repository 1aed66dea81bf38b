SPECIFICATION PartSpec
CONSTANTS
    Replays = {r1, r2}
    Times = {1, 2}
    Dispatches = {d1, d2}
    MaxReplayFaults = 1
    Completions = {e1, e2, e3, e4}
    Renewers = {j1, j2}
    Accounts = {a1, a2}
    WatchProblems = {"gmail_watch_renewal_failed", "gmail_rate_limited", "gmail_token_refresh_reconnect_required"}
    WatchTTL = 2
    RenewalWindow = 1
    WatchMaxTime = 3
    Sessions = {s1, s2}
    Identities = {i1, i2}
    GmailAccounts = {g1, g2}
    Callbacks = {k1, k2}
    KeyIds = {1, 2}
    Rows = {1, 2, 3, 4}
    SortKeys = {1, 2}
    Limits = {1, 2}
    Calls = {c1, c2}
    w1 = w1
    w2 = w2
    n1 = n1
    n2 = n2
    Workspaces = {w1, w2}
    Names = {n1, n2}
    Asks <- MCAsks
    MaxElapsed = 0
    Pushes = {p1, p2}
    MaxPushes = 2
    Tokens = {t1, t2}
    Messages = {m1, m2}
    Secrets = {k1, k2}
    TicksPerSecond = 2
    Tolerance = 1
    Skews <- MCSkews
    MaxAttempts = 2
    LastTick = 4
INVARIANTS
    PartTypeOK
    ReplaysDoNotOverlap
    ConflictOverlaps
    RunningReplayIsWorkedOn
    CompletedReplayIsSent
    CountsConsecutiveFailures
    FailingTakesThreeFailures
    UnwatchedMailboxIsListed
    
    CredentialIsLatest
    MarkedMailboxIsUnreadable
    RewrapRetiresOldKeys
    StableRowsListedOnce
    CallCreatesOnce
    AnswerTellsWhatHappened
    AcknowledgedWasHandled
    GenuineIsAccepted
PROPERTIES
    VerdictFollowsGoogle
VIEW PartView
CHECK_DEADLOCK FALSE
