---------------------------- MODULE WalletProofs ----------------------------
(***************************************************************************)
(* Proofs about Wallet for every set of wallets, transactions, bookings    *)
(* and request threads, and all amounts and balances.                      *)
(***************************************************************************)
EXTENDS Wallet, FiniteSetTheorems, TLAPS

-----------------------------------------------------------------------------
(* Type correctness                                                          *)

LEMMA InitTypeOK == Init => TypeOK
BY WalletAssumption DEF Init, TypeOK, WalletRow, BookingRow, NoRow, PC, Replies

\* RequestOK is needed: the row a worker writes is that of its transaction.
LEMMA NextTypeOK == TypeOK /\ RequestOK /\ [Next]_vars => TypeOK'
<1> SUFFICES ASSUME TypeOK, RequestOK, [Next]_vars PROVE TypeOK'
  OBVIOUS
<1> USE WalletAssumption DEF TypeOK, WalletRow, BookingRow, NoRow, PC, Replies,
        rows, expiry, request, Goto, Answer, Payer
<1>1. ASSUME NEW w \in Workers, NEW t \in Txns, NEW b \in Bookings,
             ReserveRequest(w, t, b)
      PROVE  TypeOK'
  BY <1>1 DEF ReserveRequest
<1>2. ASSUME NEW w \in Workers, ReserveMissing(w) PROVE TypeOK'
  BY <1>2 DEF ReserveMissing
<1>3. ASSUME NEW w \in Workers, ReserveLock(w) PROVE TypeOK'
  BY <1>3 DEF ReserveLock, RequestOK
<1>4. ASSUME NEW w \in Workers, ReserveRefuse(w) PROVE TypeOK'
  BY <1>4 DEF ReserveRefuse
<1>5. ASSUME NEW w \in Workers, ReserveCommit(w) PROVE TypeOK'
  BY <1>5 DEF ReserveCommit, RequestOK
<1>6. ASSUME NEW w \in Workers, NEW t \in Txns, SettleRequest(w, t)
      PROVE  TypeOK'
  BY <1>6 DEF SettleRequest
<1>7. ASSUME NEW w \in Workers, NEW b \in Bookings, SettleFind(w, b)
      PROVE  TypeOK'
  BY <1>7 DEF SettleFind
<1>8. ASSUME NEW w \in Workers, SettleMissing(w) PROVE TypeOK'
  BY <1>8 DEF SettleMissing
<1>9. ASSUME NEW w \in Workers, SettleLock(w) PROVE TypeOK'
  BY <1>9 DEF SettleLock
<1>10. ASSUME NEW w \in Workers, SettleReject(w) PROVE TypeOK'
  BY <1>10 DEF SettleReject
<1>11. ASSUME NEW w \in Workers, SettleRead(w) PROVE TypeOK'
  BY <1>11 DEF SettleRead, RequestOK
<1>12. ASSUME NEW w \in Workers, SettleCommit(w) PROVE TypeOK'
  <2>1. /\ txn[w] \in Txns
        /\ WalletOf[txn[w]] \in Wallets
        /\ held[w] \in Bookings
        /\ Amount[txn[w]] \in Nat
    BY <1>12 DEF SettleCommit, RequestOK
  <2>2. wallet' \in [Wallets -> WalletRow]
    BY <1>12, <2>1 DEF SettleCommit, Deduct
  <2>3. debitTotal' \in [Wallets -> Nat] /\ debitRows' \in [Bookings -> Nat]
    BY <1>12, <2>1 DEF SettleCommit, RecordDebit
  <2>4. booking' \in [Bookings -> BookingRow]
    BY <1>12, <2>1 DEF SettleCommit
  <2>5. QED
    BY <1>12, <2>2, <2>3, <2>4 DEF SettleCommit
<1>13. ASSUME NEW w \in Workers, Respond(w) \/ Crash(w) PROVE TypeOK'
  <2>1. Reset(w)
    BY <1>13 DEF Respond, Crash
  <2>2. seen' \in [Workers -> WalletRow]
    BY <2>1 DEF Reset
  <2>3. /\ pc' \in [Workers -> PC]
        /\ txn' \in [Workers -> Txns \cup {NoTxn}]
        /\ held' \in [Workers -> Bookings \cup {NoBooking}]
        /\ reply' \in [Workers -> Replies]
    BY <2>1 DEF Reset
  <2>4. QED
    BY <2>1, <2>2, <2>3 DEF Reset
<1>14. ASSUME NEW b \in Bookings, Expire(b) PROVE TypeOK'
  BY <1>14 DEF Expire
<1>15. CASE ExpiryPass \/ ExpiryAbort
  BY <1>15 DEF ExpiryPass, ExpiryAbort
<1>16. CASE UNCHANGED vars
  BY <1>16 DEF vars
<1>17. QED
  BY <1>1, <1>2, <1>3, <1>4, <1>5, <1>6, <1>7, <1>8, <1>9, <1>10, <1>11,
     <1>12, <1>13, <1>14, <1>15, <1>16 DEF Next, Arrive, Serve

-----------------------------------------------------------------------------
(* Requests and bookings                                                     *)

LEMMA NextRequestOK == TypeOK /\ RequestOK /\ BookingMutex /\ [Next]_vars => RequestOK'
<1> SUFFICES ASSUME TypeOK, RequestOK, BookingMutex, [Next]_vars
             PROVE  RequestOK'
  OBVIOUS
<1> USE DEF TypeOK, BookingRow, PC, RequestOK, rows, expiry, request, Goto, Answer
<1>1. ASSUME NEW w \in Workers, NEW t \in Txns, NEW b \in Bookings,
             ReserveRequest(w, t, b)
      PROVE  RequestOK'
  BY <1>1 DEF ReserveRequest, FreshBooking
<1>2. ASSUME NEW w \in Workers, ReserveMissing(w) PROVE RequestOK'
  BY <1>2 DEF ReserveMissing
<1>3. ASSUME NEW w \in Workers, ReserveLock(w) \/ ReserveRefuse(w)
      PROVE  RequestOK'
  BY <1>3 DEF ReserveLock, ReserveRefuse
<1>4. ASSUME NEW w \in Workers, ReserveCommit(w) PROVE RequestOK'
  BY <1>4 DEF ReserveCommit, BookingMutex
<1>5. ASSUME NEW w \in Workers, NEW t \in Txns, SettleRequest(w, t)
      PROVE  RequestOK'
  BY <1>5 DEF SettleRequest
<1>6. ASSUME NEW w \in Workers, NEW b \in Bookings, SettleFind(w, b)
      PROVE  RequestOK'
  BY <1>6 DEF SettleFind, OpenBookings
<1>7. ASSUME NEW w \in Workers, SettleMissing(w) \/ SettleReject(w)
      PROVE  RequestOK'
  BY <1>7 DEF SettleMissing, SettleReject
<1>8. ASSUME NEW w \in Workers, SettleLock(w) \/ SettleRead(w)
      PROVE  RequestOK'
  BY <1>8 DEF SettleLock, SettleRead, Unprocessed
<1>9. ASSUME NEW w \in Workers, SettleCommit(w) PROVE RequestOK'
  BY <1>9 DEF SettleCommit, BookingMutex
<1>10. ASSUME NEW w \in Workers, Respond(w) \/ Crash(w) PROVE RequestOK'
  BY <1>10 DEF Respond, Crash, Reset
<1>11. CASE (\E b \in Bookings : Expire(b)) \/ ExpiryPass \/ ExpiryAbort
  BY <1>11 DEF Expire, ExpiryPass, ExpiryAbort
<1>12. CASE UNCHANGED vars
  BY <1>12 DEF vars
<1>13. QED
  BY <1>1, <1>2, <1>3, <1>4, <1>5, <1>6, <1>7, <1>8, <1>9, <1>10, <1>11,
     <1>12 DEF Next, Arrive, Serve

LEMMA NextBookingMutex == TypeOK /\ BookingMutex /\ [Next]_vars => BookingMutex'
<1> SUFFICES ASSUME TypeOK, BookingMutex, [Next]_vars
             PROVE  BookingMutex'
  OBVIOUS
<1> USE DEF TypeOK, PC, BookingMutex, rows, expiry, request, Goto, Answer
<1>1. ASSUME NEW w \in Workers, NEW t \in Txns, NEW b \in Bookings,
             ReserveRequest(w, t, b)
      PROVE  BookingMutex'
  BY <1>1 DEF ReserveRequest, FreshBooking
<1>2. ASSUME NEW w \in Workers, NEW t \in Txns, SettleRequest(w, t)
      PROVE  BookingMutex'
  BY <1>2 DEF SettleRequest
<1>3. ASSUME NEW w \in Workers,
             \/ ReserveMissing(w) \/ ReserveLock(w) \/ ReserveRefuse(w)
             \/ ReserveCommit(w)
      PROVE  BookingMutex'
  BY <1>3 DEF ReserveMissing, ReserveLock, ReserveRefuse, ReserveCommit
<1>4. ASSUME NEW w \in Workers, NEW b \in Bookings, SettleFind(w, b)
      PROVE  BookingMutex'
  BY <1>4 DEF SettleFind
<1>5. ASSUME NEW w \in Workers, SettleLock(w) PROVE BookingMutex'
  BY <1>5 DEF SettleLock, BookingLocked
<1>6. ASSUME NEW w \in Workers,
             \/ SettleMissing(w) \/ SettleReject(w) \/ SettleRead(w)
             \/ SettleCommit(w)
      PROVE  BookingMutex'
  BY <1>6 DEF SettleMissing, SettleReject, SettleRead, SettleCommit
<1>7. ASSUME NEW w \in Workers, Respond(w) \/ Crash(w) PROVE BookingMutex'
  BY <1>7 DEF Respond, Crash, Reset
<1>8. CASE (\E b \in Bookings : Expire(b)) \/ ExpiryPass \/ ExpiryAbort
  BY <1>8 DEF Expire, ExpiryPass, ExpiryAbort
<1>9. CASE UNCHANGED vars
  BY <1>9 DEF vars
<1>10. QED
  BY <1>1, <1>2, <1>3, <1>4, <1>5, <1>6, <1>7, <1>8, <1>9
  DEF Next, Arrive, Serve

-----------------------------------------------------------------------------
(* Money                                                                     *)

Money == CopyCovered /\ AvailableNeverNegative /\ BalanceCoversLedger

\* Only the two commits write a wallet row.  Both write what follows from a
\* copy, and a copy was read from a row for which Money holds; debit rows are
\* only ever added, so what covered them when the copy was read, less the
\* amount of the new row, covers them now.
LEMMA NextMoney == TypeOK /\ RequestOK /\ Money /\ [Next]_vars => Money'
<1> SUFFICES ASSUME TypeOK, RequestOK, Money, [Next]_vars
             PROVE  Money'
  OBVIOUS
<1> USE WalletAssumption
    DEF TypeOK, WalletRow, PC, Money, CopyCovered, AvailableNeverNegative,
        BalanceCoversLedger, Payer, Available, rows, expiry, request, Goto, Answer
<1>1. ASSUME NEW w \in Workers, NEW t \in Txns, NEW b \in Bookings,
             ReserveRequest(w, t, b)
      PROVE  Money'
  BY <1>1 DEF ReserveRequest
<1>2. ASSUME NEW w \in Workers, NEW t \in Txns, SettleRequest(w, t)
      PROVE  Money'
  BY <1>2 DEF SettleRequest
<1>3. ASSUME NEW w \in Workers, ReserveLock(w) PROVE Money'
  <2>1. WalletOf[txn[w]] \in Wallets /\ Amount[txn[w]] \in Nat \ {0}
    BY <1>3 DEF ReserveLock, RequestOK
  <2>2. /\ pc' = [pc EXCEPT ![w] = "reserving"]
        /\ seen' = [seen EXCEPT ![w] = wallet[WalletOf[txn[w]]]]
        /\ UNCHANGED <<wallet, debitTotal, txn>>
        /\ Available(wallet[WalletOf[txn[w]]]) >= Amount[txn[w]]
    BY <1>3 DEF ReserveLock, Sufficient
  <2>3. QED
    BY <2>1, <2>2
<1>4. ASSUME NEW w \in Workers, ReserveMissing(w) \/ ReserveRefuse(w)
      PROVE  Money'
  BY <1>4 DEF ReserveMissing, ReserveRefuse
<1>5. ASSUME NEW w \in Workers, ReserveCommit(w) PROVE Money'
  <2>1. WalletOf[txn[w]] \in Wallets /\ Amount[txn[w]] \in Nat \ {0}
    BY <1>5 DEF ReserveCommit, RequestOK
  <2>2. /\ wallet' = [wallet EXCEPT ![WalletOf[txn[w]]] =
                        [balance  |-> seen[w].balance,
                         reserved |-> seen[w].reserved + Amount[txn[w]]]]
        /\ pc[w] = "reserving"
        /\ pc' = [pc EXCEPT ![w] = "done"]
        /\ UNCHANGED <<debitTotal, txn, seen>>
    BY <1>5 DEF ReserveCommit
  <2>3. QED
    BY <2>1, <2>2
<1>6. ASSUME NEW w \in Workers, NEW b \in Bookings, SettleFind(w, b)
      PROVE  Money'
  BY <1>6 DEF SettleFind
<1>7. ASSUME NEW w \in Workers,
             SettleMissing(w) \/ SettleLock(w) \/ SettleReject(w)
      PROVE  Money'
  BY <1>7 DEF SettleMissing, SettleLock, SettleReject
<1>8. ASSUME NEW w \in Workers, SettleRead(w) PROVE Money'
  <2>1. WalletOf[txn[w]] \in Wallets
    BY <1>8 DEF SettleRead, RequestOK
  <2>2. /\ pc' = [pc EXCEPT ![w] = "updating"]
        /\ seen' = [seen EXCEPT ![w] = wallet[WalletOf[txn[w]]]]
        /\ UNCHANGED <<wallet, debitTotal, txn>>
    BY <1>8 DEF SettleRead
  <2>3. QED
    BY <2>1, <2>2
<1>9. ASSUME NEW w \in Workers, SettleCommit(w) PROVE Money'
  <2> DEFINE x == WalletOf[txn[w]]
             a == Amount[txn[w]]
  <2>1. x \in Wallets /\ a \in Nat \ {0}
    BY <1>9 DEF SettleCommit, RequestOK
  <2>2. /\ wallet' = [wallet EXCEPT ![x] =
                        [balance  |-> seen[w].balance - a,
                         reserved |-> seen[w].reserved - a]]
        /\ debitTotal' = [debitTotal EXCEPT ![x] = debitTotal[x] + a]
        /\ pc[w] = "updating"
        /\ pc' = [pc EXCEPT ![w] = "done"]
        /\ UNCHANGED <<txn, seen>>
    BY <1>9 DEF SettleCommit, Deduct, RecordDebit
  <2>3. \A y \in Wallets : debitTotal'[y] >= debitTotal[y] /\ debitTotal'[y] \in Nat
    BY <2>1, <2>2
  <2>4. AvailableNeverNegative' /\ BalanceCoversLedger'
    BY <2>1, <2>2
  <2>5. ASSUME NEW v \in Workers, pc'[v] \in {"reserving", "updating"}
        PROVE  /\ v # w /\ pc'[v] = pc[v] /\ WalletOf[txn[v]] \in Wallets
               /\ InitialBalance[WalletOf[txn[v]]] \in Nat
    BY <2>2, <2>5 DEF RequestOK
  <2>6. CopyCovered'
    BY <2>2, <2>3, <2>5
  <2>7. QED
    BY <2>4, <2>6
<1>10. ASSUME NEW w \in Workers, Respond(w) \/ Crash(w) PROVE Money'
  BY <1>10 DEF Respond, Crash, Reset
<1>11. CASE (\E b \in Bookings : Expire(b)) \/ ExpiryPass \/ ExpiryAbort
  BY <1>11 DEF Expire, ExpiryPass, ExpiryAbort
<1>12. CASE UNCHANGED vars
  BY <1>12 DEF vars
<1>13. QED
  BY <1>1, <1>2, <1>3, <1>4, <1>5, <1>6, <1>7, <1>8, <1>9, <1>10, <1>11,
     <1>12 DEF Next, Arrive, Serve

\* A booking enters and leaves "open" in the two commits only; RequestOK says
\* that the booking of the first is new and that of the second still open.
LEMMA NextDebitedOnce == TypeOK /\ RequestOK /\ DebitedOnce /\ [Next]_vars => DebitedOnce'
<1> SUFFICES ASSUME TypeOK, RequestOK, DebitedOnce, [Next]_vars
             PROVE  DebitedOnce'
  OBVIOUS
<1> USE DEF TypeOK, BookingRow, PC, DebitedOnce, rows
<1>1. ASSUME NEW w \in Workers, ReserveCommit(w) PROVE DebitedOnce'
  BY <1>1 DEF ReserveCommit, RequestOK
<1>2. ASSUME NEW w \in Workers, SettleCommit(w) PROVE DebitedOnce'
  BY <1>2 DEF SettleCommit, RecordDebit, RequestOK
<1>3. CASE UNCHANGED rows
  BY <1>3
<1>4. \/ UNCHANGED rows
      \/ \E w \in Workers : ReserveCommit(w) \/ SettleCommit(w)
  BY DEF Next, Arrive, Serve, vars, ReserveRequest, ReserveMissing, ReserveLock,
     ReserveRefuse, SettleRequest, SettleFind, SettleMissing, SettleLock,
     SettleReject, SettleRead, Respond, Crash, Reset, Expire, ExpiryPass,
     ExpiryAbort
<1>5. QED
  BY <1>1, <1>2, <1>3, <1>4

-----------------------------------------------------------------------------
(* The invariant and what follows from it                                    *)

LEMMA InitIInv == Init => IInv
<1> SUFFICES ASSUME Init PROVE IInv
  OBVIOUS
<1>1. TypeOK
  BY InitTypeOK
<1>2. RequestOK /\ BookingMutex /\ DebitedOnce
  BY DEF Init, RequestOK, BookingMutex, DebitedOnce
<1>3. CopyCovered /\ AvailableNeverNegative /\ BalanceCoversLedger
  BY WalletAssumption
  DEF Init, CopyCovered, AvailableNeverNegative, BalanceCoversLedger
<1>4. QED
  BY <1>1, <1>2, <1>3 DEF IInv

LEMMA NextIInv == IInv /\ [Next]_vars => IInv'
BY NextTypeOK, NextRequestOK, NextBookingMutex, NextMoney, NextDebitedOnce
DEF IInv, Money

LEMMA Invariance == Spec => []IInv
BY InitIInv, NextIInv, PTL DEF Spec

\* The variables always hold values of their types.
THEOREM TypeCorrect == Spec => []TypeOK
<1>1. IInv => TypeOK
  BY DEF IInv
<1>2. QED
  BY Invariance, <1>1, PTL

\* However many requests interleave, reserved_balance stays below balance.
THEOREM AvailableStaysCovered == Spec => []AvailableNeverNegative
<1>1. IInv => AvailableNeverNegative
  BY DEF IInv
<1>2. QED
  BY Invariance, <1>1, PTL

\* However many settle calls race, retry or crash, a booking is debited once.
THEOREM SettlesOnce == Spec => []DebitedOnce
<1>1. IInv => DebitedOnce
  BY DEF IInv
<1>2. QED
  BY Invariance, <1>1, PTL

\* The lost updates of the wallet row never take more than the debit rows say.
THEOREM LedgerIsCovered == Spec => []BalanceCoversLedger
<1>1. IInv => BalanceCoversLedger
  BY DEF IInv
<1>2. QED
  BY Invariance, <1>1, PTL

-----------------------------------------------------------------------------
(* No request saves a copy that another one may have outdated                *)

\* What a worker leaves of the others.
OthersKept(w) ==
    \A v \in Workers : v # w =>
        pc'[v] = pc[v] /\ txn'[v] = txn[v] /\ seen'[v] = seen[v]

LEMMA StepKeepsOthers ==
    ASSUME TypeOK, NEW w \in Workers,
           Arrive(w) \/ Serve(w) \/ Respond(w) \/ Crash(w)
    PROVE  OthersKept(w)
<1> USE DEF TypeOK, OthersKept, Goto, Answer
<1>1. CASE Arrive(w) \/ Respond(w) \/ Crash(w)
  BY <1>1 DEF Arrive, ReserveRequest, SettleRequest, Respond, Crash, Reset
<1>2. CASE Serve(w)
  BY <1>2 DEF Serve, ReserveMissing, ReserveLock, ReserveRefuse, ReserveCommit,
     SettleFind, SettleMissing, SettleLock, SettleReject, SettleRead, SettleCommit
<1>3. QED
  BY <1>1, <1>2

\* Reservations take turns at a wallet row, with or without CopiesAlone.
LEMMA NextWalletMutex == TypeOK /\ WalletMutex /\ [Next]_vars => WalletMutex'
<1> SUFFICES ASSUME TypeOK, WalletMutex, [Next]_vars
             PROVE  WalletMutex'
  OBVIOUS
<1> USE DEF TypeOK, PC, WalletMutex, Payer, Goto, Answer
<1>1. ASSUME NEW w \in Workers, ReserveLock(w) PROVE WalletMutex'
  BY <1>1 DEF ReserveLock, WalletLocked
<1>2. ASSUME NEW w \in Workers, pc'[w] # "reserving", OthersKept(w)
      PROVE  WalletMutex'
  BY <1>2 DEF OthersKept
<1>3. ASSUME NEW w \in Workers, Arrive(w) \/ Respond(w) \/ Crash(w)
      PROVE  WalletMutex'
  <2>1. pc'[w] # "reserving"
    BY <1>3 DEF Arrive, ReserveRequest, SettleRequest, Respond, Crash, Reset
  <2>2. QED
    BY <1>2, <1>3, <2>1, StepKeepsOthers
<1>4. ASSUME NEW w \in Workers, Serve(w), ~ReserveLock(w)
      PROVE  WalletMutex'
  <2>1. pc'[w] # "reserving"
    BY <1>4 DEF Serve, ReserveMissing, ReserveRefuse, ReserveCommit, SettleFind,
       SettleMissing, SettleLock, SettleReject, SettleRead, SettleCommit
  <2>2. QED
    BY <1>2, <1>4, <2>1, StepKeepsOthers
<1>5. CASE \/ \E b \in Bookings : Expire(b)
           \/ ExpiryPass \/ ExpiryAbort \/ UNCHANGED vars
  BY <1>5 DEF Expire, ExpiryPass, ExpiryAbort, vars, request
<1>6. QED
  BY <1>1, <1>3, <1>4, <1>5 DEF Next

\* A reservation saves a copy that is the row: a settlement waits for its lock.
LEMMA NextLockedCopyCurrent ==
    TypeOK /\ RequestOK /\ WalletMutex /\ LockedCopyCurrent /\ [Next]_vars
       => LockedCopyCurrent'
<1> SUFFICES ASSUME TypeOK, RequestOK, WalletMutex, LockedCopyCurrent, [Next]_vars
             PROVE  LockedCopyCurrent'
  OBVIOUS
<1> USE WalletAssumption DEF TypeOK, PC, LockedCopyCurrent, Payer, rows, Goto, Answer
<1>1. ASSUME NEW w \in Workers, ReserveLock(w) PROVE LockedCopyCurrent'
  BY <1>1 DEF ReserveLock, RequestOK
<1>2. ASSUME NEW w \in Workers, OthersKept(w), pc'[w] # "reserving",
             \A v \in Workers : v # w /\ pc[v] = "reserving"
                                 => wallet'[Payer(v)] = wallet[Payer(v)]
      PROVE  LockedCopyCurrent'
  BY <1>2 DEF OthersKept
<1>3. ASSUME NEW w \in Workers, ReserveCommit(w) \/ SettleCommit(w)
      PROVE  LockedCopyCurrent'
  <2>1. pc'[w] # "reserving"
    BY <1>3 DEF ReserveCommit, SettleCommit
  <2>2. Payer(w) \in Wallets
    BY <1>3 DEF ReserveCommit, SettleCommit, RequestOK
  <2>3. \A y \in Wallets : y # Payer(w) => wallet'[y] = wallet[y]
    BY <1>3, <2>2 DEF ReserveCommit, SettleCommit, Deduct
  <2>4. ASSUME NEW v \in Workers, v # w, pc[v] = "reserving"
        PROVE  Payer(v) \in Wallets /\ Payer(v) # Payer(w)
    BY <1>3, <2>4 DEF ReserveCommit, SettleCommit, WalletMutex, WalletLocked, RequestOK
  <2>5. QED
    BY <1>2, <1>3, <2>1, <2>3, <2>4, StepKeepsOthers DEF Serve
<1>4. ASSUME NEW w \in Workers, Arrive(w) \/ Respond(w) \/ Crash(w)
      PROVE  LockedCopyCurrent'
  <2>1. UNCHANGED wallet /\ pc'[w] # "reserving"
    BY <1>4 DEF Arrive, ReserveRequest, SettleRequest, Respond, Crash, Reset
  <2>2. QED
    BY <1>2, <1>4, <2>1, StepKeepsOthers
<1>5. ASSUME NEW w \in Workers, Serve(w),
             ~(ReserveLock(w) \/ ReserveCommit(w) \/ SettleCommit(w))
      PROVE  LockedCopyCurrent'
  <2>1. UNCHANGED wallet /\ pc'[w] # "reserving"
    BY <1>5 DEF Serve, ReserveMissing, ReserveRefuse, SettleFind, SettleMissing,
       SettleLock, SettleReject, SettleRead
  <2>2. QED
    BY <1>2, <1>5, <2>1, StepKeepsOthers
<1>6. CASE \/ \E b \in Bookings : Expire(b)
           \/ ExpiryPass \/ ExpiryAbort \/ UNCHANGED vars
  BY <1>6 DEF Expire, ExpiryPass, ExpiryAbort, vars, request
<1>7. QED
  BY <1>1, <1>3, <1>4, <1>5, <1>6 DEF Next

Exact == WalletMutex /\ CopyCurrent /\ BalanceMatchesLedger

\* A commit outdates no copy of another request: while one is about to settle
\* none has a copy of its row, and reservations take turns.
LEMMA NextExact ==
    TypeOK /\ RequestOK /\ CopiesAlone /\ Exact /\ [Next]_vars => Exact'
<1> SUFFICES ASSUME TypeOK, RequestOK, CopiesAlone, Exact, [Next]_vars
             PROVE  Exact'
  OBVIOUS
<1> SUFFICES CopyCurrent' /\ BalanceMatchesLedger'
  BY NextWalletMutex DEF Exact
<1> USE WalletAssumption
    DEF TypeOK, WalletRow, PC, Exact, CopyCurrent, BalanceMatchesLedger, Payer,
        rows, Goto, Answer
<1>1. ASSUME NEW w \in Workers, ReserveLock(w) \/ SettleRead(w)
      PROVE  CopyCurrent' /\ BalanceMatchesLedger'
  BY <1>1 DEF ReserveLock, SettleRead, RequestOK
<1>2. ASSUME NEW w \in Workers, ReserveCommit(w) PROVE CopyCurrent' /\ BalanceMatchesLedger'
  <2>1. WalletOf[txn[w]] \in Wallets
    BY <1>2 DEF ReserveCommit, RequestOK
  <2>2. CopyCurrent'
    <3>1. ASSUME NEW v \in Workers, v # w, pc[v] \in {"reserving", "updating"}
          PROVE  WalletOf[txn[v]] # WalletOf[txn[w]]
      BY <1>2, <3>1 DEF ReserveCommit, CopiesAlone, WalletMutex
    <3>2. QED
      BY <1>2, <2>1, <3>1 DEF ReserveCommit
  <2>3. BalanceMatchesLedger'
    BY <1>2, <2>1 DEF ReserveCommit
  <2>4. QED
    BY <2>2, <2>3
<1>3. ASSUME NEW w \in Workers, SettleCommit(w) PROVE CopyCurrent' /\ BalanceMatchesLedger'
  <2>1. WalletOf[txn[w]] \in Wallets /\ Amount[txn[w]] \in Nat \ {0}
    BY <1>3 DEF SettleCommit, RequestOK
  <2>2. CopyCurrent'
    <3>1. ASSUME NEW v \in Workers, v # w, pc[v] \in {"reserving", "updating"}
          PROVE  WalletOf[txn[v]] # WalletOf[txn[w]]
      BY <1>3, <3>1 DEF SettleCommit, CopiesAlone
    <3>2. QED
      BY <1>3, <2>1, <3>1 DEF SettleCommit, Deduct
  <2>3. BalanceMatchesLedger'
    BY <1>3, <2>1 DEF SettleCommit, Deduct, RecordDebit
  <2>4. QED
    BY <2>2, <2>3
<1>4. ASSUME NEW w \in Workers, UNCHANGED rows, OthersKept(w),
             pc'[w] \notin {"reserving", "updating"}
      PROVE  CopyCurrent' /\ BalanceMatchesLedger'
  BY <1>4 DEF OthersKept
<1>5. ASSUME NEW w \in Workers,
             \/ Arrive(w) \/ Respond(w) \/ Crash(w)
             \/ Serve(w) /\ ~(ReserveLock(w) \/ SettleRead(w))
                         /\ ~(ReserveCommit(w) \/ SettleCommit(w))
      PROVE  UNCHANGED rows /\ pc'[w] \notin {"reserving", "updating"}
  <2>1. CASE Arrive(w) \/ Respond(w) \/ Crash(w)
    BY <2>1 DEF Arrive, ReserveRequest, SettleRequest, Respond, Crash, Reset
  <2>2. CASE /\ Serve(w)
             /\ ~(ReserveLock(w) \/ SettleRead(w) \/ ReserveCommit(w) \/ SettleCommit(w))
    BY <2>2 DEF Serve, ReserveMissing, ReserveRefuse, SettleFind, SettleMissing,
       SettleLock, SettleReject
  <2>3. QED
    BY <1>5, <2>1, <2>2
<1>6. CASE \/ \E b \in Bookings : Expire(b)
           \/ ExpiryPass \/ ExpiryAbort \/ UNCHANGED vars
  BY <1>6 DEF Expire, ExpiryPass, ExpiryAbort, vars, request
<1>7. ASSUME NEW w \in Workers, Arrive(w) \/ Serve(w) \/ Respond(w) \/ Crash(w)
      PROVE  CopyCurrent' /\ BalanceMatchesLedger'
  BY <1>1, <1>2, <1>3, <1>4, <1>5, <1>7, StepKeepsOthers
<1>8. QED
  BY <1>6, <1>7 DEF Next

LEMMA InitExact == Init => Exact
BY WalletAssumption
   DEF Init, Exact, WalletMutex, CopyCurrent, BalanceMatchesLedger

LEMMA AloneExact == Spec /\ []CopiesAlone => []Exact
<1>1. IInv /\ CopiesAlone /\ Exact /\ [Next]_vars => Exact'
  BY NextExact DEF IInv
<1>2. QED
  BY Invariance, InitExact, <1>1, PTL DEF Spec

\* However many requests there are at once: balance and debit rows can disagree
\* only after commit_funds has saved a copy of a row that another request had a
\* copy of as well.
THEOREM AloneLedgerIsExact == Spec /\ []CopiesAlone => []BalanceMatchesLedger
<1>1. Exact => BalanceMatchesLedger
  BY DEF Exact
<1>2. QED
  BY AloneExact, <1>1, PTL

-----------------------------------------------------------------------------
(* What open bookings claim                                                  *)

\* The definitions that the ledger takes from the library are the same there.
LEMMA LedgerCounts ==
    ASSUME NEW x
    PROVE  /\ Ledger!Held(x) = Cardinality(Ledger!Claimed(x))
           /\ Ledger!Held(x)' = Cardinality(Ledger!Claimed(x)')
<1>1. \A S : Ledger!Cardinality(S) = Cardinality(S)
  BY DEF Ledger!Cardinality, Cardinality
<1>2. QED
  BY <1>1 DEF Ledger!Held

LEMMA ClaimedElement ==
    ASSUME NEW x, NEW u
    PROVE  /\ u \in Ledger!Claimed(x) <=>
                \E b \in Bookings : \E i \in 1..Amount[booking[b].txn] :
                    booking[b].state = "open" /\ WalletOf[booking[b].txn] = x /\ u = <<b, i>>
           /\ u \in Ledger!Claimed(x)' <=>
                \E b \in Bookings : \E i \in 1..Amount[booking'[b].txn] :
                    booking'[b].state = "open" /\ WalletOf[booking'[b].txn] = x /\ u = <<b, i>>
BY DEF Ledger!Claimed

\* The units of one hold.
LEMMA UnitsCount ==
    ASSUME NEW b, NEW m \in Nat
    PROVE  IsFiniteSet({b} \X (1..m)) /\ Cardinality({b} \X (1..m)) = m
<1> DEFINE S == {b}
           T == 1..m
<1>1. IsFiniteSet(T) /\ Cardinality(T) = m
  <2>1. IsFiniteSet(1..m) /\ Cardinality(1..m) = IF 1 > m THEN 0 ELSE m - 1 + 1
    BY FS_Interval, 1 \in Int, m \in Int
  <2>2. QED
    BY <2>1
<1>2. IsFiniteSet(S) /\ Cardinality(S) = 1
  BY FS_Singleton
<1> HIDE DEF S, T
<1>3. IsFiniteSet(S \X T) /\ Cardinality(S \X T) = 1 * m
  BY <1>1, <1>2, FS_Product
<1>4. QED
  BY <1>3 DEF S, T

\* Steps that write rows.
LEMMA RowsStep ==
    ASSUME [Next]_vars
    PROVE  \/ \E w \in Workers : ReserveCommit(w) \/ SettleCommit(w)
           \/ UNCHANGED rows
<1> USE DEF rows
<1>1. ASSUME NEW w \in Workers, Arrive(w) \/ Respond(w) \/ Crash(w)
      PROVE  UNCHANGED rows
  BY <1>1 DEF Arrive, ReserveRequest, SettleRequest, Respond, Crash, Reset
<1>2. ASSUME NEW w \in Workers, Serve(w), ~ReserveCommit(w), ~SettleCommit(w)
      PROVE  UNCHANGED rows
  BY <1>2 DEF Serve, ReserveMissing, ReserveLock, ReserveRefuse, SettleFind, SettleMissing,
     SettleLock, SettleReject, SettleRead
<1>3. CASE (\E b \in Bookings : Expire(b)) \/ ExpiryPass \/ ExpiryAbort \/ UNCHANGED vars
  BY <1>3 DEF Expire, ExpiryPass, ExpiryAbort, vars
<1>4. QED
  BY <1>1, <1>2, <1>3 DEF Next

\* What the two commits do: one saves the row, the other what was read of it.
LEMMA ReserveCommitStep ==
    ASSUME TypeOK, RequestOK, LockedCopyCurrent, NEW w \in Workers, ReserveCommit(w)
    PROVE  /\ txn[w] \in Txns /\ held[w] \in Bookings /\ Payer(w) \in Wallets
           /\ Amount[txn[w]] \in Nat
           /\ booking[held[w]].state = "none"
           /\ booking' = [booking EXCEPT ![held[w]] = [txn |-> txn[w], state |-> "open"]]
           /\ wallet'[Payer(w)].balance = wallet[Payer(w)].balance
           /\ wallet'[Payer(w)].reserved = wallet[Payer(w)].reserved + Amount[txn[w]]
           /\ \A v \in Wallets : v # Payer(w) => wallet'[v] = wallet[v]
           /\ seen[w] = wallet[Payer(w)]
<1>1. pc[w] = "reserving" /\ txn[w] \in Txns /\ held[w] \in Bookings
      /\ booking[held[w]].state = "none"
  BY DEF ReserveCommit, RequestOK
<1>2. Payer(w) \in Wallets /\ Amount[txn[w]] \in Nat
  BY <1>1, WalletAssumption DEF Payer
<1>3. seen[w] = wallet[Payer(w)]
  BY <1>1 DEF LockedCopyCurrent
<1>4. QED
  BY <1>1, <1>2, <1>3 DEF ReserveCommit, TypeOK, WalletRow

LEMMA SettleCommitStep ==
    ASSUME TypeOK, RequestOK, NEW w \in Workers, SettleCommit(w)
    PROVE  /\ pc[w] = "updating" /\ txn[w] \in Txns /\ held[w] \in Bookings /\ Payer(w) \in Wallets
           /\ Amount[txn[w]] \in Nat
           /\ booking[held[w]].state = "open" /\ booking[held[w]].txn = txn[w]
           /\ booking' = [booking EXCEPT ![held[w]].state = "committed"]
           /\ wallet'[Payer(w)].balance = seen[w].balance - Amount[txn[w]]
           /\ wallet'[Payer(w)].reserved = seen[w].reserved - Amount[txn[w]]
           /\ \A v \in Wallets : v # Payer(w) => wallet'[v] = wallet[v]
<1>1. pc[w] = "updating" /\ txn[w] \in Txns /\ held[w] \in Bookings
      /\ booking[held[w]].state = "open" /\ booking[held[w]].txn = txn[w]
  BY DEF SettleCommit, RequestOK
<1>2. Payer(w) \in Wallets /\ Amount[txn[w]] \in Nat
  BY <1>1, WalletAssumption DEF Payer
<1>3. QED
  BY <1>1, <1>2 DEF SettleCommit, Deduct, TypeOK, WalletRow

ClaimedFinite == \A x \in Wallets : IsFiniteSet(Ledger!Claimed(x))

\* A reservation adds the units of its booking to those of its wallet, as many
\* as it adds to the column.
LEMMA ReserveClaims ==
    ASSUME TypeOK, RequestOK, LockedCopyCurrent, ClaimedFinite,
           NEW w \in Workers, ReserveCommit(w), NEW x \in Wallets
    PROVE  IsFiniteSet(Ledger!Claimed(x)') /\ Lost(x)' = Lost(x)
<1> DEFINE b == held[w]
           t == txn[w]
           P == {b} \X (1..Amount[t])
<1>1. /\ b \in Bookings /\ t \in Txns /\ Payer(w) \in Wallets /\ Payer(w) = WalletOf[t]
      /\ Amount[t] \in Nat
      /\ booking[b].state = "none"
      /\ booking'[b] = [txn |-> t, state |-> "open"]
      /\ \A o \in Bookings : o # b => booking'[o] = booking[o]
      /\ wallet'[Payer(w)].reserved = wallet[Payer(w)].reserved + Amount[t]
      /\ \A v \in Wallets : v # Payer(w) => wallet'[v] = wallet[v]
  BY ReserveCommitStep DEF TypeOK, Payer
<1> HIDE DEF b, t
<1>2. /\ Lost(x) = Cardinality(Ledger!Claimed(x)) - wallet[x].reserved
      /\ Lost(x)' = Cardinality(Ledger!Claimed(x)') - wallet'[x].reserved
      /\ wallet[x].reserved \in Int
  BY LedgerCounts DEF Lost, TypeOK, WalletRow
<1>3. IsFiniteSet(Ledger!Claimed(x)) /\ Cardinality(Ledger!Claimed(x)) \in Nat
  BY FS_CardinalityType DEF ClaimedFinite
<1>4. CASE x # Payer(w)
  <2>1. Ledger!Claimed(x)' = Ledger!Claimed(x)
    <3> SUFFICES ASSUME NEW u PROVE u \in Ledger!Claimed(x)' <=> u \in Ledger!Claimed(x)
      OBVIOUS
    <3>1. \A o \in Bookings :
             (booking'[o].state = "open" /\ WalletOf[booking'[o].txn] = x)
                <=> (booking[o].state = "open" /\ WalletOf[booking[o].txn] = x)
      BY <1>1, <1>4
    <3>2. \A o \in Bookings : booking[o].state = "open" => booking'[o] = booking[o]
      BY <1>1
    <3>3. QED
      BY <3>1, <3>2, ClaimedElement
  <2>2. QED
    BY <1>1, <1>2, <1>3, <1>4, <2>1
<1>5. CASE x = Payer(w)
  <2>1. Ledger!Claimed(x)' = Ledger!Claimed(x) \cup P
    <3> SUFFICES ASSUME NEW u
                 PROVE  u \in Ledger!Claimed(x)' <=> u \in Ledger!Claimed(x) \/ u \in P
      OBVIOUS
    <3>1. u \in P <=> \E i \in 1..Amount[t] : u = <<b, i>>
      OBVIOUS
    <3> HIDE DEF P
    <3>2. \A o \in Bookings : booking[o].state = "open" => booking'[o] = booking[o] /\ o # b
      BY <1>1
    <3>3. \A o \in Bookings : o # b => booking'[o] = booking[o]
      BY <1>1
    <3>4. booking'[b].state = "open" /\ booking'[b].txn = t /\ WalletOf[t] = x
      BY <1>1, <1>5
    <3>5. u \in Ledger!Claimed(x)' => u \in Ledger!Claimed(x) \/ u \in P
      BY <3>1, <3>3, <3>4, ClaimedElement
    <3>6. u \in Ledger!Claimed(x) \/ u \in P => u \in Ledger!Claimed(x)'
      BY <1>1, <3>1, <3>2, <3>4, ClaimedElement
    <3>7. QED
      BY <3>5, <3>6
  <2>2. Ledger!Claimed(x) \cap P = {}
    <3> SUFFICES ASSUME NEW u \in Ledger!Claimed(x), u \in P PROVE FALSE
      OBVIOUS
    <3>1. PICK o \in Bookings : booking[o].state = "open" /\ \E i : u = <<o, i>>
      BY ClaimedElement
    <3>2. o = b
      BY <3>1
    <3>3. QED
      BY <1>1, <3>1, <3>2
  <2>3. IsFiniteSet(P) /\ Cardinality(P) = Amount[t]
    BY <1>1, UnitsCount
  <2> HIDE DEF P
  <2>4. /\ IsFiniteSet(Ledger!Claimed(x) \cup P)
        /\ Cardinality(Ledger!Claimed(x) \cup P)
              = Cardinality(Ledger!Claimed(x)) + Cardinality(P) - Cardinality({})
    BY <1>3, <2>2, <2>3, FS_Union
  <2>5. Cardinality({}) = 0 /\ Cardinality(Ledger!Claimed(x)) \in Nat
    BY <1>3, FS_EmptySet, FS_CardinalityType
  <2>6. QED
    BY <1>1, <1>2, <1>3, <1>5, <2>1, <2>3, <2>4, <2>5
<1>6. QED
  BY <1>4, <1>5

\* A settlement takes the units of its booking away, and as many from what its
\* copy says is reserved.
LEMMA SettleClaims ==
    ASSUME TypeOK, RequestOK, ClaimedFinite,
           NEW w \in Workers, SettleCommit(w), NEW x \in Wallets
    PROVE  /\ IsFiniteSet(Ledger!Claimed(x)')
           /\ x # Payer(w) => Lost(x)' = Lost(x)
           /\ x = Payer(w) =>
                Lost(x)' = Lost(x) + wallet[x].reserved - seen[w].reserved
<1> DEFINE b == held[w]
           t == txn[w]
           P == {b} \X (1..Amount[t])
<1>1. /\ b \in Bookings /\ t \in Txns /\ Payer(w) \in Wallets /\ Payer(w) = WalletOf[t]
      /\ Amount[t] \in Nat
      /\ booking[b].state = "open" /\ booking[b].txn = t
      /\ booking'[b].state = "committed"
      /\ \A o \in Bookings : o # b => booking'[o] = booking[o]
      /\ wallet'[Payer(w)].reserved = seen[w].reserved - Amount[t]
      /\ \A v \in Wallets : v # Payer(w) => wallet'[v] = wallet[v]
  BY SettleCommitStep DEF TypeOK, BookingRow, Payer
<1> HIDE DEF b, t
<1>2. /\ Lost(x) = Cardinality(Ledger!Claimed(x)) - wallet[x].reserved
      /\ Lost(x)' = Cardinality(Ledger!Claimed(x)') - wallet'[x].reserved
      /\ wallet[x].reserved \in Int /\ seen[w].reserved \in Int
  BY LedgerCounts DEF Lost, TypeOK, WalletRow
<1>3. IsFiniteSet(Ledger!Claimed(x)) /\ Cardinality(Ledger!Claimed(x)) \in Nat
  BY FS_CardinalityType DEF ClaimedFinite
<1>4. CASE x # Payer(w)
  <2>1. Ledger!Claimed(x)' = Ledger!Claimed(x)
    <3> SUFFICES ASSUME NEW u PROVE u \in Ledger!Claimed(x)' <=> u \in Ledger!Claimed(x)
      OBVIOUS
    <3>1. \A o \in Bookings :
             (booking'[o].state = "open" /\ WalletOf[booking'[o].txn] = x)
                <=> (booking[o].state = "open" /\ WalletOf[booking[o].txn] = x)
      BY <1>1, <1>4
    <3>2. \A o \in Bookings : booking'[o].state = "open" => booking'[o] = booking[o]
      BY <1>1
    <3>3. QED
      BY <3>1, <3>2, ClaimedElement
  <2>2. QED
    BY <1>1, <1>2, <1>3, <1>4, <2>1
<1>5. CASE x = Payer(w)
  <2>1. Ledger!Claimed(x) = Ledger!Claimed(x)' \cup P
    <3> SUFFICES ASSUME NEW u
                 PROVE  u \in Ledger!Claimed(x) <=> u \in Ledger!Claimed(x)' \/ u \in P
      OBVIOUS
    <3>1. u \in P <=> \E i \in 1..Amount[t] : u = <<b, i>>
      OBVIOUS
    <3> HIDE DEF P
    <3>2. \A o \in Bookings : booking'[o].state = "open" => booking'[o] = booking[o] /\ o # b
      BY <1>1
    <3>3. \A o \in Bookings : o # b => booking'[o] = booking[o]
      BY <1>1
    <3>4. booking[b].state = "open" /\ booking[b].txn = t /\ WalletOf[t] = x
      BY <1>1, <1>5
    <3>5. u \in Ledger!Claimed(x) => u \in Ledger!Claimed(x)' \/ u \in P
      BY <3>1, <3>3, <3>4, ClaimedElement
    <3>6. u \in Ledger!Claimed(x)' \/ u \in P => u \in Ledger!Claimed(x)
      BY <1>1, <3>1, <3>2, <3>4, ClaimedElement
    <3>7. QED
      BY <3>5, <3>6
  <2>2. Ledger!Claimed(x)' \cap P = {}
    <3> SUFFICES ASSUME NEW u \in Ledger!Claimed(x)', u \in P PROVE FALSE
      OBVIOUS
    <3>1. PICK o \in Bookings : booking'[o].state = "open" /\ \E i : u = <<o, i>>
      BY ClaimedElement
    <3>2. o = b
      BY <3>1
    <3>3. QED
      BY <1>1, <3>1, <3>2
  <2>3. IsFiniteSet(P) /\ Cardinality(P) = Amount[t]
    BY <1>1, UnitsCount
  <2>4. IsFiniteSet(Ledger!Claimed(x)')
    BY <1>3, <2>1, FS_Subset
  <2> HIDE DEF P
  <2>5. /\ Cardinality(Ledger!Claimed(x)' \cup P)
              = Cardinality(Ledger!Claimed(x)') + Cardinality(P) - Cardinality({})
    BY <2>2, <2>3, <2>4, FS_Union
  <2>6. Cardinality({}) = 0 /\ Cardinality(Ledger!Claimed(x)') \in Nat
    BY <2>4, FS_EmptySet, FS_CardinalityType
  <2>7. QED
    BY <1>1, <1>2, <1>3, <1>5, <2>1, <2>3, <2>4, <2>5, <2>6
<1>6. QED
  BY <1>4, <1>5

-----------------------------------------------------------------------------
(* What overlapping requests lose                                            *)

LossInv == IInv /\ WalletMutex /\ LockedCopyCurrent /\ ClaimedFinite

LEMMA NextLost ==
    ASSUME LossInv, [Next]_vars, NEW x \in Wallets
    PROVE  /\ IsFiniteSet(Ledger!Claimed(x)')
           /\ \/ Lost(x)' = Lost(x)
              \/ \E w \in Workers :
                    /\ SettleCommit(w) /\ Payer(w) = x
                    /\ Lost(x)' = Lost(x) + wallet[x].reserved - seen[w].reserved
<1>1. TypeOK /\ RequestOK /\ LockedCopyCurrent /\ ClaimedFinite
  BY DEF LossInv, IInv
<1>2. CASE UNCHANGED rows
  <2>1. Ledger!Claimed(x)' = Ledger!Claimed(x) /\ Ledger!Held(x)' = Ledger!Held(x)
    BY <1>2 DEF rows, Ledger!Claimed, Ledger!Held
  <2>2. QED
    BY <1>1, <1>2, <2>1 DEF rows, Lost, ClaimedFinite
<1>3. ASSUME NEW w \in Workers, ReserveCommit(w)
      PROVE  IsFiniteSet(Ledger!Claimed(x)') /\ Lost(x)' = Lost(x)
  BY <1>1, <1>3, ReserveClaims
<1>4. ASSUME NEW w \in Workers, SettleCommit(w)
      PROVE  /\ IsFiniteSet(Ledger!Claimed(x)')
             /\ \/ Lost(x)' = Lost(x)
                \/ /\ Payer(w) = x
                   /\ Lost(x)' = Lost(x) + wallet[x].reserved - seen[w].reserved
  BY <1>1, <1>4, SettleClaims
<1>5. QED
  BY <1>2, <1>3, <1>4, RowsStep

\* Whatever requests overlap: what open bookings claim and the column does not
\* hold changes only where a settlement saves a copy that is out of date, by
\* exactly what the copy is behind.
THEOREM OnlyStaleCopiesLose == Spec => LossIsStaleness
<1>1. Init => LossInv
  <2>1. Init => \A x \in Wallets : Ledger!Claimed(x) = {}
    BY DEF Init, Ledger!Claimed
  <2>2. QED
    BY <2>1, InitIInv, FS_EmptySet
       DEF Init, LossInv, WalletMutex, LockedCopyCurrent, ClaimedFinite
<1>2. LossInv /\ [Next]_vars => LossInv'
  <2>1. LossInv /\ [Next]_vars => ClaimedFinite'
    BY NextLost DEF ClaimedFinite
  <2>2. QED
    BY <2>1, NextIInv, NextWalletMutex, NextLockedCopyCurrent DEF LossInv, IInv
<1>3. LossInv /\ [Next]_vars =>
        [\A x \in Wallets :
            \/ Lost(x)' = Lost(x)
            \/ \E w \in Workers :
                  /\ SettleCommit(w) /\ Payer(w) = x
                  /\ Lost(x)' = Lost(x) + wallet[x].reserved - seen[w].reserved]_vars
  BY NextLost
<1>4. QED
  BY <1>1, <1>2, <1>3, PTL DEF Spec, LossIsStaleness

-----------------------------------------------------------------------------
(* The refinement of the ledger                                              *)

Totals == CopyCurrent /\ ReservedIsOpenTotal

LEMMA NextTotals ==
    ASSUME IInv, IInv', Exact, Exact', Totals, [Next]_vars
    PROVE  Totals'
<1>1. TypeOK /\ TypeOK' /\ RequestOK /\ CopyCurrent /\ CopyCurrent' /\ ReservedIsOpenTotal
  BY DEF IInv, Exact, Totals
<1>2. CASE UNCHANGED rows
  <2>1. ReservedIsOpenTotal'
    BY <1>1, <1>2 DEF rows, ReservedIsOpenTotal, Ledger!Held, Ledger!Claimed
  <2>2. QED
    BY <1>1, <2>1 DEF Totals
<1>3. ASSUME NEW w \in Workers, ReserveCommit(w) \/ SettleCommit(w)
      PROVE  Totals'
  <2>1. ClaimedFinite /\ \A x \in Wallets : Lost(x) = 0 /\ wallet[x].reserved \in Int
    BY <1>1, LedgerCounts, FS_CardinalityType
       DEF ReservedIsOpenTotal, ClaimedFinite, Lost, TypeOK, WalletRow
  <2>2. ASSUME NEW x \in Wallets
        PROVE  IsFiniteSet(Ledger!Claimed(x)') /\ Lost(x)' = 0
    <3>1. CASE ReserveCommit(w)
      <4>1. LockedCopyCurrent
        BY <1>1 DEF CopyCurrent, LockedCopyCurrent
      <4>2. QED
        BY <1>1, <2>1, <3>1, <4>1, ReserveClaims
    <3>2. CASE SettleCommit(w)
      <4>1. x = Payer(w) => seen[w].reserved = wallet[x].reserved
        BY <1>1, <3>2 DEF SettleCommit, CopyCurrent
      <4>2. QED
        BY <1>1, <2>1, <3>2, <4>1, SettleClaims
    <3>3. QED
      BY <1>3, <3>1, <3>2
  <2>3. ASSUME NEW x \in Wallets
        PROVE  wallet'[x].reserved = Ledger!Held(x)'
    <3>1. /\ Lost(x)' = Ledger!Held(x)' - wallet'[x].reserved
          /\ wallet'[x].reserved \in Int /\ Ledger!Held(x)' \in Nat
      BY <1>1, <2>2, LedgerCounts, FS_CardinalityType DEF Lost, TypeOK, WalletRow
    <3>2. QED
      BY <2>2, <3>1
  <2>4. QED
    BY <1>1, <2>2, <2>3 DEF Totals, ReservedIsOpenTotal
<1>4. QED
  BY <1>2, <1>3, RowsStep

LEMMA InitTotals == Init => Totals /\ Ledger!Init
<1> SUFFICES ASSUME Init PROVE Totals /\ Ledger!Init
  OBVIOUS
<1>1. CopyCurrent
  BY DEF Init, CopyCurrent
<1>2. \A x \in Wallets : Ledger!Claimed(x) = {}
  BY DEF Init, Ledger!Claimed
<1>3. ReservedIsOpenTotal
  BY <1>2, FS_EmptySet, LedgerCounts DEF Init, ReservedIsOpenTotal
<1>4. InitialBalance = [x \in Wallets |-> InitialBalance[x]]
  BY WalletAssumption
<1>5. [x \in Wallets |-> wallet[x].balance] = InitialBalance
  BY <1>4 DEF Init
<1>6. QED
  BY <1>1, <1>3, <1>5 DEF Init, Totals, Ledger!Init

\* A reservation that is committed is a grant of the ledger, a settlement a
\* payment, and every other step leaves the ledger as it is.
LEMMA NextLedger ==
    ASSUME TypeOK, TypeOK', RequestOK, CopyCovered, Totals, [Next]_vars
    PROVE  [Ledger!Next]_(Ledger!ledgerVars)
<1> DEFINE Funds == [x \in Wallets |-> wallet[x].balance]
<1>0. CopyCurrent /\ LockedCopyCurrent /\ ReservedIsOpenTotal
  BY DEF Totals, CopyCurrent, LockedCopyCurrent
<1>1. CASE UNCHANGED rows
  BY <1>1 DEF rows, Ledger!ledgerVars
<1>2. ASSUME NEW w \in Workers, ReserveCommit(w)
      PROVE  Ledger!Next
  <2>1. /\ txn[w] \in Txns /\ held[w] \in Bookings /\ Payer(w) \in Wallets
        /\ Payer(w) = WalletOf[txn[w]] /\ Amount[txn[w]] \in Nat
        /\ booking[held[w]].state = "none"
        /\ booking' = [booking EXCEPT ![held[w]] = [txn |-> txn[w], state |-> "open"]]
        /\ wallet'[Payer(w)].balance = wallet[Payer(w)].balance
        /\ \A v \in Wallets : v # Payer(w) => wallet'[v] = wallet[v]
        /\ seen[w] = wallet[Payer(w)]
    BY <1>0, <1>2, ReserveCommitStep DEF Payer
  <2>2. wallet[Payer(w)].balance - wallet[Payer(w)].reserved >= Amount[txn[w]]
    BY <1>2, <2>1 DEF ReserveCommit, CopyCovered, Available
  <2>3. wallet[Payer(w)].reserved = Ledger!Held(Payer(w))
    BY <1>0, <2>1 DEF ReservedIsOpenTotal
  <2>4. Funds[WalletOf[txn[w]]] - Ledger!Held(WalletOf[txn[w]]) >= Amount[txn[w]]
    BY <2>1, <2>2, <2>3
  <2>5. Funds' = Funds
    BY <2>1
  <2>6. PICK b \in Bookings, t \in Txns : b = held[w] /\ t = txn[w]
    BY <2>1
  <2>7. Ledger!Grant(b, t)
    BY <2>1, <2>4, <2>5, <2>6 DEF Ledger!Grant
  <2>8. QED
    BY <2>7 DEF Ledger!Next
<1>3. ASSUME NEW w \in Workers, SettleCommit(w)
      PROVE  Ledger!Next
  <2>1. /\ held[w] \in Bookings /\ Payer(w) \in Wallets
        /\ Payer(w) = WalletOf[booking[held[w]].txn] /\ booking[held[w]].txn = txn[w]
        /\ booking[held[w]].state = "open"
        /\ booking' = [booking EXCEPT ![held[w]].state = "committed"]
        /\ wallet'[Payer(w)].balance = wallet[Payer(w)].balance - Amount[txn[w]]
        /\ \A v \in Wallets : v # Payer(w) => wallet'[v] = wallet[v]
    <3>1. seen[w] = wallet[Payer(w)]
      BY <1>0, <1>3, SettleCommitStep DEF CopyCurrent
    <3>2. QED
      BY <1>3, <3>1, SettleCommitStep DEF Payer
  <2>2. Funds' = [Funds EXCEPT ![Payer(w)] = @ - Amount[txn[w]]]
    BY <2>1
  <2>3. PICK b \in Bookings : b = held[w]
    BY <2>1
  <2>4. Ledger!Pay(b)
    BY <2>1, <2>2, <2>3 DEF Ledger!Pay
  <2>5. QED
    BY <2>4 DEF Ledger!Next
<1>4. QED
  BY <1>1, <1>2, <1>3, RowsStep

LEMMA AloneTotals == Spec /\ []CopiesAlone => []Totals
<1>1. IInv /\ IInv' /\ Exact /\ Exact' /\ Totals /\ [Next]_vars => Totals'
  BY NextTotals
<1>2. Init => Totals /\ Ledger!Init
  BY InitTotals
<1>3. QED
  BY Invariance, AloneExact, <1>1, <1>2, PTL DEF Spec

\* However many requests there are at once: as long as commit_funds saves no
\* copy of a row that another request has a copy of as well, reserve and settle
\* implement the ledger.  Each reservation is covered by funds that no open one
\* claims, each settlement takes its own amount, and nothing else touches
\* balances or bookings.
THEOREM AloneImplementsLedger == Spec /\ []CopiesAlone => ImplementsLedger
<1>1. Init => Ledger!Init
  BY InitTotals
<1>2. IInv /\ IInv' /\ Totals /\ [Next]_vars => [Ledger!Next]_(Ledger!ledgerVars)
  BY NextLedger DEF IInv
<1>3. QED
  BY Invariance, AloneTotals, <1>1, <1>2, PTL DEF Spec, ImplementsLedger, Ledger!Spec

\* However many requests there are at once: bookings that are open at a time can
\* add up to more than the balance only after such a save.
THEOREM AloneBookingsCovered == Spec /\ []CopiesAlone => []OpenBookingsCovered
<1>1. IInv /\ Totals => OpenBookingsCovered
  BY DEF IInv, AvailableNeverNegative, Totals, ReservedIsOpenTotal, OpenBookingsCovered
<1>2. QED
  BY Invariance, AloneTotals, <1>1, PTL
=============================================================================
