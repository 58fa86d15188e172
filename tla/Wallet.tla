------------------------------- MODULE Wallet -------------------------------
(***************************************************************************)
(* The money path of wallet_service: the endpoints "reserve" and "settle"  *)
(* of WalletViewSet, WalletService.reserve_funds and commit_funds behind   *)
(* them, and the periodic task release_expired_bookings.                   *)
(*                                                                         *)
(* Requests are served by Workers.  PostgreSQL runs at READ COMMITTED and  *)
(* a service method is cut at its database statements: a row lock is held  *)
(* from the statement that takes it to the end of the transaction, a plain *)
(* read returns the row as last committed, and save() writes back every    *)
(* column of the object that was read.                                     *)
(***************************************************************************)
EXTENDS Integers, FiniteSets

CONSTANTS
    Wallets,        \* primary keys of Wallet rows
    Txns,           \* transaction ids; a booking's reason is TXN_<id>
    Bookings,       \* primary keys the WalletBookings rows can get
    Workers,        \* request threads of the service
    WalletOf,       \* the wallet a transaction pays from
    Amount,         \* the amount it pays
    Home,           \* the database that holds a wallet's row
    InitialBalance, \* balances before the first request (set in the admin)
    NoTxn, NoBooking

Shards == {"shard_1", "shard_2"}

\* Amounts are positive: TransactionService refuses others before a request
\* is made.  All rows start without reservations.
ASSUME WalletAssumption ==
    /\ WalletOf \in [Txns -> Wallets]
    /\ Amount \in [Txns -> Nat \ {0}]
    /\ Home \in [Wallets -> {"default"} \cup Shards]
    /\ InitialBalance \in [Wallets -> Nat]
    /\ NoTxn \notin Txns
    /\ NoBooking \notin Bookings

VARIABLES
    wallet,      \* Wallet rows as committed
    booking,     \* WalletBookings rows as committed
    debitTotal,  \* per wallet, the sum of its "debit" WalletRecord rows
    debitRows,   \* per booking, how many "debit" rows its settlement wrote
    expired,     \* bookings whose expires_at has passed
    expiryTask,  \* release_expired_bookings: "idle" or "running"
    pc,          \* what each worker does next
    txn,         \* the transaction id in the worker's request
    held,        \* the booking the worker creates or settles
    seen,        \* the worker's in-memory copy of the wallet row
    reply        \* the response it is about to send

rows    == <<wallet, booking, debitTotal, debitRows>>
expiry  == <<expired, expiryTask>>
request == <<pc, txn, held, seen, reply>>
vars    == <<wallet, booking, debitTotal, debitRows, expired, expiryTask,
             pc, txn, held, seen, reply>>

WalletRow  == [balance : Int, reserved : Int]
NoRow      == [balance |-> 0, reserved |-> 0]

\* is_released is not a state: no code that runs ever sets it.
BookingRow == [txn : Txns \cup {NoTxn}, state : {"none", "open", "committed"}]

PC      == {"idle", "reserve", "reserving", "settle", "found", "settling",
            "updating", "done"}
Replies == {"none", "ok", "refused", "missing", "error"}

TypeOK ==
    /\ wallet \in [Wallets -> WalletRow]
    /\ booking \in [Bookings -> BookingRow]
    /\ debitTotal \in [Wallets -> Nat]
    /\ debitRows \in [Bookings -> Nat]
    /\ expired \in SUBSET Bookings
    /\ expiryTask \in {"idle", "running"}
    /\ pc \in [Workers -> PC]
    /\ txn \in [Workers -> Txns \cup {NoTxn}]
    /\ held \in [Workers -> Bookings \cup {NoBooking}]
    /\ seen \in [Workers -> WalletRow]
    /\ reply \in [Workers -> Replies]

Init ==
    /\ wallet = [x \in Wallets |->
                    [balance |-> InitialBalance[x], reserved |-> 0]]
    /\ booking = [b \in Bookings |-> [txn |-> NoTxn, state |-> "none"]]
    /\ debitTotal = [x \in Wallets |-> 0]
    /\ debitRows = [b \in Bookings |-> 0]
    /\ expired = {}
    /\ expiryTask = "idle"
    /\ pc = [w \in Workers |-> "idle"]
    /\ txn = [w \in Workers |-> NoTxn]
    /\ held = [w \in Workers |-> NoBooking]
    /\ seen = [w \in Workers |-> NoRow]
    /\ reply = [w \in Workers |-> "none"]

-----------------------------------------------------------------------------
(* Row locks: implied by where the workers are, so a crash drops them.       *)

Available(row) == row.balance - row.reserved

Payer(w) == WalletOf[txn[w]]

\* Mutant of WalletLocked: commit_funds locks the wallet over one connection and
\* updates it over another.
WalletLockedTwice(x) ==
    \E w \in Workers : pc[w] \in {"reserving", "updating"} /\ Payer(w) = x

\* select_for_update on the wallet row, held until reserve_funds commits.
WalletLocked(x) == \E w \in Workers : pc[w] = "reserving" /\ Payer(w) = x

\* select_for_update on the booking row, held until commit_funds commits.
BookingLocked(b) ==
    \E w \in Workers : pc[w] \in {"settling", "updating"} /\ held[w] = b

Goto(w, to) == pc' = [pc EXCEPT ![w] = to]

Answer(w, r) ==
    /\ pc' = [pc EXCEPT ![w] = "done"]
    /\ reply' = [reply EXCEPT ![w] = r]

-----------------------------------------------------------------------------
(* POST /wallets/wallet/reserve/                                             *)

\* A primary key no row and no unfinished reservation has (uuid4).
FreshBooking(b) ==
    /\ booking[b].state = "none"
    /\ \A w \in Workers : pc[w] \in {"reserve", "reserving"} => held[w] # b

ReserveRequest(w, t, b) ==
    /\ pc[w] = "idle"
    /\ FreshBooking(b)
    /\ Goto(w, "reserve")
    /\ txn' = [txn EXCEPT ![w] = t]
    /\ held' = [held EXCEPT ![w] = b]
    /\ UNCHANGED <<rows, expiry, seen, reply>>

InShard(w) == Home[Payer(w)] \in Shards

\* The view looks in the shards only: a wallet of "default" is not found.
ReserveMissing(w) ==
    /\ pc[w] = "reserve"
    /\ ~InShard(w)
    /\ Answer(w, "missing")
    /\ UNCHANGED <<rows, expiry, txn, held, seen>>

\* Mutant of Sufficient: the check forgets what is already reserved.
SufficientBalance(w) == wallet[Payer(w)].balance >= Amount[txn[w]]

Sufficient(w) == Available(wallet[Payer(w)]) >= Amount[txn[w]]

\* The lock is granted, the row is read under it, and the funds suffice.
ReserveLock(w) ==
    /\ pc[w] = "reserve"
    /\ InShard(w)
    /\ ~WalletLocked(Payer(w))
    /\ Sufficient(w)
    /\ seen' = [seen EXCEPT ![w] = wallet[Payer(w)]]
    /\ Goto(w, "reserving")
    /\ UNCHANGED <<rows, expiry, txn, held, reply>>

\* ... or they do not: ValueError, rollback, 400.
ReserveRefuse(w) ==
    /\ pc[w] = "reserve"
    /\ InShard(w)
    /\ ~WalletLocked(Payer(w))
    /\ ~Sufficient(w)
    /\ Answer(w, "refused")
    /\ UNCHANGED <<rows, expiry, txn, held, seen>>

ReserveCommit(w) ==
    /\ pc[w] = "reserving"
    /\ wallet' = [wallet EXCEPT ![Payer(w)] =
                    [balance  |-> seen[w].balance,
                     reserved |-> seen[w].reserved + Amount[txn[w]]]]
    /\ booking' = [booking EXCEPT ![held[w]] =
                    [txn |-> txn[w], state |-> "open"]]
    /\ Answer(w, "ok")
    /\ UNCHANGED <<debitTotal, debitRows, expiry, txn, held, seen>>

-----------------------------------------------------------------------------
(* POST /wallets/wallet/settle/                                              *)

SettleRequest(w, t) ==
    /\ pc[w] = "idle"
    /\ Goto(w, "settle")
    /\ txn' = [txn EXCEPT ![w] = t]
    /\ UNCHANGED <<rows, expiry, held, seen, reply>>

OpenBookings(t) ==
    {b \in Bookings : booking[b].state = "open" /\ booking[b].txn = t}

\* first() orders by the random primary key: any open booking of the
\* transaction may be the one that is settled.
SettleFind(w, b) ==
    /\ pc[w] = "settle"
    /\ b \in OpenBookings(txn[w])
    /\ held' = [held EXCEPT ![w] = b]
    /\ Goto(w, "found")
    /\ UNCHANGED <<rows, expiry, txn, seen, reply>>

SettleMissing(w) ==
    /\ pc[w] = "settle"
    /\ OpenBookings(txn[w]) = {}
    /\ Answer(w, "missing")
    /\ UNCHANGED <<rows, expiry, txn, held, seen>>

\* Mutant of Unprocessed: the flags are not looked at again under the lock.
UnprocessedUnchecked(b) == booking[b].state # "none"

Unprocessed(b) == booking[b].state = "open"

\* The booking row is locked and re-read: still unprocessed.
SettleLock(w) ==
    /\ pc[w] = "found"
    /\ ~BookingLocked(held[w])
    /\ Unprocessed(held[w])
    /\ Goto(w, "settling")
    /\ UNCHANGED <<rows, expiry, txn, held, seen, reply>>

\* Processed meanwhile: the ValueError is not caught by the view, a 500.  The
\* view's second lookup failing (DoesNotExist) ends the request the same way.
SettleReject(w) ==
    /\ pc[w] = "found"
    /\ ~BookingLocked(held[w])
    /\ ~Unprocessed(held[w])
    /\ Answer(w, "error")
    /\ UNCHANGED <<rows, expiry, txn, held, seen>>

\* booking.wallet is a plain SELECT: it takes and waits for no lock.
SettleRead(w) ==
    /\ pc[w] = "settling"
    /\ seen' = [seen EXCEPT ![w] = wallet[Payer(w)]]
    /\ Goto(w, "updating")
    /\ UNCHANGED <<rows, expiry, txn, held, reply>>

\* Mutant of Deduct: the reservation is not taken back.
DeductKeepsHold(w) ==
    wallet' = [wallet EXCEPT ![Payer(w)] =
                 [balance  |-> seen[w].balance - Amount[txn[w]],
                  reserved |-> seen[w].reserved]]

\* The values saved are computed from the worker's copy of the row.
Deduct(w) ==
    wallet' = [wallet EXCEPT ![Payer(w)] =
                 [balance  |-> seen[w].balance - Amount[txn[w]],
                  reserved |-> seen[w].reserved - Amount[txn[w]]]]

\* Mutant of RecordDebit: no row is written.
RecordNothing(w) == UNCHANGED <<debitTotal, debitRows>>

RecordDebit(w) ==
    /\ debitTotal' = [debitTotal EXCEPT ![Payer(w)] = @ + Amount[txn[w]]]
    /\ debitRows' = [debitRows EXCEPT ![held[w]] = @ + 1]

\* The UPDATE of the wallet row waits for its lock; wallet, debit row and
\* is_committed are committed together.
SettleCommit(w) ==
    /\ pc[w] = "updating"
    /\ ~WalletLocked(Payer(w))
    /\ Deduct(w)
    /\ RecordDebit(w)
    /\ booking' = [booking EXCEPT ![held[w]].state = "committed"]
    /\ Answer(w, "ok")
    /\ UNCHANGED <<expiry, txn, held, seen>>

-----------------------------------------------------------------------------
(* Ends of a request                                                         *)

Reset(w) ==
    /\ pc' = [pc EXCEPT ![w] = "idle"]
    /\ txn' = [txn EXCEPT ![w] = NoTxn]
    /\ held' = [held EXCEPT ![w] = NoBooking]
    /\ seen' = [seen EXCEPT ![w] = NoRow]
    /\ reply' = [reply EXCEPT ![w] = "none"]
    /\ UNCHANGED <<rows, expiry>>

\* The response leaves the service, and the finally clause clears the shard.
Respond(w) == pc[w] = "done" /\ Reset(w)

\* The worker process dies: the open transaction is rolled back, its locks
\* go, and the response, if there was one, is lost.
Crash(w) == pc[w] # "idle" /\ Reset(w)

-----------------------------------------------------------------------------
(* Expiry                                                                    *)

\* Thirty minutes after a reservation.
Expire(b) ==
    /\ booking[b].state = "open"
    /\ b \notin expired
    /\ expired' = expired \cup {b}
    /\ UNCHANGED <<rows, expiryTask, request>>

ExpiredOpen == {b \in expired : booking[b].state = "open"}

\* release_expired_bookings starts and reads the list of expired bookings.
ExpiryPass ==
    /\ expiryTask = "idle"
    /\ ExpiredOpen # {}
    /\ expiryTask' = "running"
    /\ UNCHANGED <<rows, expired, request>>

\* booking.wallet of the first booking: a Celery worker has no shard in its
\* thread, the router answers "default", and the row, which is in a shard, is
\* not found there.  Wallet.DoesNotExist ends the whole task.
ExpiryAbort ==
    /\ expiryTask = "running"
    /\ expiryTask' = "idle"
    /\ UNCHANGED <<rows, expired, request>>

-----------------------------------------------------------------------------
\* The steps the service itself takes for a request it has accepted.
Serve(w) ==
    \/ ReserveMissing(w)
    \/ ReserveLock(w)
    \/ ReserveRefuse(w)
    \/ ReserveCommit(w)
    \/ \E b \in Bookings : SettleFind(w, b)
    \/ SettleMissing(w)
    \/ SettleLock(w)
    \/ SettleReject(w)
    \/ SettleRead(w)
    \/ SettleCommit(w)

Arrive(w) ==
    \E t \in Txns :
        \/ \E b \in Bookings : ReserveRequest(w, t, b)
        \/ SettleRequest(w, t)

Next ==
    \/ \E w \in Workers : Arrive(w) \/ Serve(w) \/ Respond(w) \/ Crash(w)
    \/ \E b \in Bookings : Expire(b)
    \/ ExpiryPass
    \/ ExpiryAbort

Spec == Init /\ [][Next]_vars

\* PostgreSQL grants a row lock to its waiters in turn, so a worker whose next
\* step is possible again and again takes it: strong fairness per worker.  The
\* beat schedule starts the expiry task again and again.
Fairness ==
    /\ \A w \in Workers : SF_vars(Serve(w)) /\ WF_vars(Respond(w))
    /\ WF_vars(ExpiryPass)
    /\ WF_vars(ExpiryAbort)

FairSpec == Spec /\ Fairness

-----------------------------------------------------------------------------
(* Properties                                                                *)

\* No interleaving of the unlocked read in commit_funds with other requests
\* makes more reserved than there is balance: available_balance, the figure
\* every balance check uses, never goes negative.
AvailableNeverNegative ==
    \A x \in Wallets : wallet[x].reserved <= wallet[x].balance

\* The lock on the booking row makes settlement happen once: a booking has one
\* debit row when it is committed and none before, however many settle calls,
\* retries and crashes there are.
DebitedOnce ==
    \A b \in Bookings :
        debitRows[b] = IF booking[b].state = "committed" THEN 1 ELSE 0

\* Lost updates of the wallet row err on one side only: the balance is never
\* lower than the debit rows that BalanceService.calculate_balance sums up say.
BalanceCoversLedger ==
    \A x \in Wallets : wallet[x].balance >= InitialBalance[x] - debitTotal[x]

\* What a lock on the wallet row would give commit_funds: from its read to its
\* commit no other request has a copy of the row that it is going to save.
CopiesAlone ==
    \A v, w \in Workers :
        /\ pc[v] = "updating" /\ pc[w] \in {"reserving", "updating"}
        /\ Payer(v) = Payer(w)
        => v = w

\* With CopiesAlone balance and debit rows agree to the rupee: what
\* BalanceService.calculate_balance derives from the records is the balance
\* column.
BalanceMatchesLedger ==
    \A x \in Wallets : wallet[x].balance = InitialBalance[x] - debitTotal[x]

\* A request that is accepted is answered (or its worker dies): waiting for
\* row locks never becomes waiting on one another.
Answered == \A w \in Workers : pc[w] # "idle" ~> pc[w] = "idle"

-----------------------------------------------------------------------------
(* The ledger that wallet_service promises, seen in its tables               *)

Ledger == INSTANCE WalletLedger WITH
    funds <- [x \in Wallets |-> wallet[x].balance],
    hold  <- booking

\* With CopiesAlone the two endpoints implement the ledger: every reservation
\* is covered by funds nothing else claims, and every settlement takes exactly
\* its own amount.
ImplementsLedger == Ledger!Spec

\* What reserve_funds checks for one booking ("avail bal is not enough"),
\* stated of all of them: the open bookings of a wallet never add up to more
\* than its balance.
OpenBookingsCovered ==
    \A x \in Wallets : Ledger!Held(x) <= wallet[x].balance

\* What open bookings claim and the column reserved_balance does not hold.
Lost(x) == Ledger!Held(x) - wallet[x].reserved

\* A reservation is lost, or one that was lost comes back, only where a
\* settlement saves a copy that is out of date, and then just as much as the
\* copy is behind the row.
LossIsStaleness ==
    [][\A x \in Wallets :
          \/ Lost(x)' = Lost(x)
          \/ \E w \in Workers :
                /\ SettleCommit(w) /\ Payer(w) = x
                /\ Lost(x)' = Lost(x) + wallet[x].reserved - seen[w].reserved]_vars

-----------------------------------------------------------------------------
(* The invariants behind the properties                                      *)

\* The variables a worker uses at its next statement have been assigned.
RequestOK ==
    \A w \in Workers :
        /\ pc[w] # "idle" => txn[w] \in Txns
        /\ pc[w] \in {"reserve", "reserving"} =>
              /\ held[w] \in Bookings
              /\ booking[held[w]].state = "none"
        /\ pc[w] \in {"found", "settling", "updating"} =>
              /\ held[w] \in Bookings
              /\ booking[held[w]].state # "none"
              /\ booking[held[w]].txn = txn[w]
        /\ pc[w] \in {"settling", "updating"} =>
              booking[held[w]].state = "open"

\* Two requests never create, and never settle, the same booking at once.
BookingMutex ==
    \A v, w \in Workers :
        \/ v = w
        \/ held[v] # held[w]
        \/ /\ ~(pc[v] \in {"reserve", "reserving"} /\ pc[w] \in {"reserve", "reserving"})
           /\ ~(pc[v] \in {"settling", "updating"} /\ pc[w] \in {"settling", "updating"})

\* A worker's copy of a wallet row may be stale; what it says is still covered.
CopyCovered ==
    \A w \in Workers :
        /\ pc[w] \in {"reserving", "updating"} =>
              /\ seen[w].reserved <= seen[w].balance
              /\ seen[w].balance >= InitialBalance[Payer(w)] - debitTotal[Payer(w)]
        /\ pc[w] = "reserving" => Available(seen[w]) >= Amount[txn[w]]

\* The lock that reserve_funds takes: two reservations never have a copy of the
\* same row.
WalletMutex ==
    \A v, w \in Workers :
        pc[v] = "reserving" /\ pc[w] = "reserving" /\ Payer(v) = Payer(w) => v = w

\* The copy of a reservation is the row: a settlement waits for its lock before
\* it saves.
LockedCopyCurrent ==
    \A w \in Workers : pc[w] = "reserving" => seen[w] = wallet[Payer(w)]

\* With CopiesAlone a copy is the row: nothing is written behind its back.
CopyCurrent ==
    \A w \in Workers :
        pc[w] \in {"reserving", "updating"} => seen[w] = wallet[Payer(w)]

\* With CopiesAlone the column reserved_balance is the total of the open
\* bookings, the figure that the check in reserve_funds needs.
ReservedIsOpenTotal ==
    \A x \in Wallets :
        /\ IsFiniteSet(Ledger!Claimed(x))
        /\ wallet[x].reserved = Ledger!Held(x)

\* The inductive invariant.
IInv ==
    /\ TypeOK
    /\ RequestOK
    /\ BookingMutex
    /\ CopyCovered
    /\ AvailableNeverNegative
    /\ DebitedOnce
    /\ BalanceCoversLedger
=============================================================================
