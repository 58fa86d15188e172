\* Two request threads on one sharded wallet, two bookings, fair scheduling.
SPECIFICATION FairSpec
CONSTANTS
    t1 = t1  t2 = t2  t3 = t3
    wa = wa  wd = wd
    Txns = {t1, t2, t3}
    Wallets = {wa, wd}
    Bookings = {b1, b2}
    Workers = {w1, w2}
    WalletOf <- MCWalletOf
    Amount <- MCAmount
    Home <- MCHome
    InitialBalance <- MCBalance
    NoTxn = NoTxn
    NoBooking = NoBooking
INVARIANTS
    AvailableNeverNegative
    DebitedOnce
    BalanceCoversLedger
PROPERTIES
    LossIsStaleness
    Answered
