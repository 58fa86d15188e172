\* One transfer, retried once: it is debited twice.
SPECIFICATION TransferSpec
CONSTANTS
    t1 = t1  t2 = t2  wa = wa
    Txns = {t1}
    Wallets = {wa}
    Bookings = {b1, b2}
    Workers = {w1, w2}
    Procs = {p1, p2}
    WalletOf <- MCWalletOf
    Amount <- MCAmount
    Home <- MCHome
    InitialBalance <- MCBalance
    MaxEnqueued <- MCEnqueued
    LastMonth = 2
    NoTxn = NoTxn
    NoBooking = NoBooking
    NoWorker = NoWorker
INVARIANTS
    TransferDebitedOnce
CHECK_DEADLOCK FALSE
