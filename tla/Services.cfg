\* Ten parts of the system, one at a time.
SPECIFICATION ServicesSpec
CONSTANTS
    Workers = {w1, w2}
    Passwords = {pass1, pass2}
    Limit = 2
    LastMoment = 1
    Handlers = {h1, h2}
    Sweeper = sweeper
    Tiers = {tier1}
    Forms <- MCForms
    LastMonth = 1
    MaxProfiles = 2
    Readers = {r1, r2}
    Writers = {u1, u2}
    Editors = {page1}
    Figures = {fig1, fig2}
    MaxStamp = 2
    Messages = {m1}
    Endpoints = {e1, e2}
    MaxAttempts = 5
    Processes = {p1, p2}
    Clients = {c1, c2, c3}
    Keys = {k1}
    LastPeriod = 1
    Runners = {q1, q2}
    MaxTasks = 3
    Agents = {a1, a2, a3}
    MaxRefunds = 3
    MaxMoves = 2
    Payments = {pay1, pay2}
    Admins = {page1}
    Opening = 1
    Servers = {s1, s2}
    Callers = {req1, req2}
    Sessions = {session1}
    AccessLife = 2
    RefreshLife = 3
    LastHour = 5
INVARIANTS
    ServicesTypeOK
    LockNeedsFailures
    MissesAreBounded
    PasswordStays
    VerifiedWasGranted
    OnlyOldCopiesUndo
    RateNeverFallsBack
    DeliveriesAreTrue
    AnswersAgree
    FreezeStays
    NothingIsLost
    CreationIsRepeatable
    RecordsAreTrue
    RefundedOnce
    
PROPERTIES
    ExpiredIsWithdrawn
    CacheCatchesUp
CHECK_DEADLOCK FALSE
