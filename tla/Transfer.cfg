\* Two transfers from one wallet in two processes, one of them retried once.
\* All may be decided, and then the system rests: no deadlock check.
SPECIFICATION TransferSpec
CONSTANTS
    t1 = t1  t2 = t2  wa = wa
    Txns = {t1, t2}
    Wallets = {wa}
    Bookings = {b1, b2, b3}
    Workers = {w1, w2}
    Procs = {p1, p2}
    WalletOf <- MCWalletOf
    Amount <- MCAmount
    Home <- MCHome
    InitialBalance <- MCBalance
    MaxEnqueued <- MCEnqueued
    LastMonth = 2
    NoTxn = NoTxn
    NoBooking = NoBooking
    NoWorker = NoWorker
SYMMETRY Symmetry
INVARIANTS
    CompletedIsDebited
    BookedOncePerRun
    FailedDebitIsExplained
    OverwritesTakeRuns
CHECK_DEADLOCK FALSE
