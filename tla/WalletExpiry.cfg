\* The expiry task runs for ever and releases nothing.
SPECIFICATION FairSpec
CONSTANTS
    t1 = t1  t2 = t2  t3 = t3
    wa = wa  wd = wd
    Txns = {t1, t2, t3}
    Wallets = {wa, wd}
    Bookings = {b1}
    Workers = {w1}
    WalletOf <- MCWalletOf
    Amount <- MCAmount
    Home <- MCHome
    InitialBalance <- MCBalance
    NoTxn = NoTxn
    NoBooking = NoBooking
PROPERTIES
    ExpiredIsClosed
