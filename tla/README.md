# PakRemit in TLA+

Specifications, model-checking runs and machine-checked proofs for PakRemit
(`src/`): seven Django services that talk over HTTP and Celery, each with its
own PostgreSQL databases, and a shared package, `Parent`.

## 1. The system

### Parts, state and operations

| part | state | operations |
| --- | --- | --- |
| **wallet_service** `wallets` | `Wallet`, `WalletBookings`, `WalletRecord`, `WalletLimit`, in `default`, `shard_1`, `shard_2` | HTTP: `create-internal`, `check-balance`, `reserve`, `settle`, `freeze`, `unfreeze`, `upgrade_tier`, list, retrieve. Celery: `release_expired_bookings`, `calculate_daily_spending`. No caller: `deposit_funds`, `release_funds` |
| **wallet_service** `limits` | `DailySpending`, `MonthlySpending`, `FraudFlag` | Celery: `run_fraud_detection`. No caller: `LimitCheckService` |
| **transaction_service** `transactions` | `Transaction` with fee and metadata, one database per month; an idempotency cache in each process | HTTP: `p2p`, `merchant_payment`, list. Celery: `process_transaction_async`, `retry_failed_transactions`. No caller: `StateMachine`, `validate_/process_/settle_/complete_transaction` |
| **transaction_service** `refunds` | `Refund` | HTTP: request, approve, process |
| **settlement_service** | `BankStatement`, `BankTransaction`, `SettlementMatch`, `SettlementDifference` | HTTP: `upload`, `settle`, DELETE, `resolve`. Admin site: add, change, delete. Celery: `process_uploaded_statement`, `settlement_report`. Ends in an error before it saves: plain POST, PUT, PATCH |
| **record_service** | `RecordEvent` (append only), `EventProjection`, in `default` and two shards | HTTP: `append`, `replay`, reads. Celery: `rebuild_all_projections`, `archive_old_events` |
| **forex_service** | `ExchangeRate`, `CurrencyPair`; a rate cache in Redis | HTTP: `rates`, `convert`, `update_rate`. Admin site: add, change, delete. Celery: `fetch_live_forex_rates`, `cleanup_old_rates` |
| **notification_service** | `WebhookEndpoint`, `WebhookDelivery`, mail logs | Celery: `trigger_transaction_webhook`, `dispatch_webhook`, `retry_pending_webhooks`, `send_transaction_notification` |
| **identity_service** | `User` (with the lockout counter), `Profile`, `UserDevice`, `KYCProfile`, `VerificationLog` | HTTP: register, login, change password, KYC submit/approve/reject/`verify_biometric`. Celery: `check_kyc_expiry`, `expire_old_kycs` |
| **Parent** | the breaker's keys in Redis; the shard of the current thread; a trace id | `breaker_call`, `set_/get_/clear_current_shard`, `get_shard_for_user`, authentication and permission classes |

### How they interact

* A transfer: `transaction_service` stores the row; the `post_save` signal queues
  `process_transaction_async`; the task calls `reserve` and then `settle` of
  `wallet_service` through `breaker_call`, stores the status after each, and
  queues a mail and a webhook for `notification_service`.
* A registration asks `create-internal` for a wallet, inside its own database
  transaction. It sends `"PKR"`, the serializer knows lower-case currencies only,
  and the refusal is neither logged nor acted on (`if response` is false for a
  4xx answer): wallets come from the admin site. The approval of a KYC profile
  calls `upgrade_tier` with a user id where a wallet id is looked for, which is
  answered with 404 each time.
* A new exchange rate clears the cached one and is appended as an event to
  `record_service`, the only caller that service has.
* All of these calls go through the circuit breaker, whose keys every process
  that points to the same Redis database shares.

### What is hard about it

1. Full-row saves. `save()` writes every column of a copy that was read
   earlier, mostly without a lock: `commit_funds`, statements, users, KYC
   profiles, projections.
2. Two services, two databases: a transfer is recorded in one and paid in the
   other, and calls get lost, late and repeated.
3. Tasks are acknowledged before they run. A worker that dies loses its task; a
   periodic task looks for some of these transfers by the age of their row.
4. Databases chosen by context: by a thread-local (wallets), by the current
   month (transactions), by the aggregate (events). Code that has no context, a
   Celery task for one, gets `default`.
5. Counters in Redis that are incremented, read, tested and deleted in separate
   commands.
6. Signals that queue work before the code that follows has run.
7. Decisions on what was true earlier: the claims of a token that is refreshed
   for ever, an idempotency cache in each process, a form of the admin site.

What makes each part correct is stated under *Properties* in its module. Every
place where something can go wrong is a row of `hazards` in `PROJECT.json`.

## 2. The modules

| module | what it is | code |
| --- | --- | --- |
| `Wallet` | `reserve`, `settle`, the expiry task | `wallet_service/wallets/{views,services,tasks,middleware,router}.py` |
| `WalletLedger` | abstract: an account with holds | the promise of these endpoints |
| `Transfer` | the task of a transfer, composed with `Wallet` | `transaction_service/transactions/{services,signals,tasks,router,utils}.py` |
| `CircuitBreaker` | `breaker_call` | `Parent/circuit_utils.py` |
| `Settlement` | one statement from upload to settlement | `settlement_service/statements/*.py` |
| `EventStore` | one aggregate: `append`, `replay`, the rebuild task | `record_service/events/services.py`, `record_service/record_center/router.py` |
| `Accounts` | registration, login with its lockout, password change | `identity_service/accounts/{services,models,views,serializers/detail}.py` |
| `Kyc` | one KYC profile and the task that expires it | `identity_service/kyc/*.py` |
| `Access` | which requests a token is served | `Parent/permissions.py`, the settings and the view sets of all services |
| `RateCache` | one rate: its rows and its key in Redis | `forex_service/rates/*.py` |
| `Notifications` | webhooks: trigger, dispatch, retry, cleanup | `notification_service/webhooks/*.py` |
| `Mails` | the mails about one transfer | `notification_service/emails/*.py` |
| `Requests` | `p2p` and `merchant_payment` with an `Idempotency-Key` | `transaction_service/transactions/{views,services,models}.py` |
| `Refunds` | all refunds of one transfer | `transaction_service/refunds/*.py` |
| `Custody` | the status of a wallet, among payments and the admin's pages | `wallet_service/wallets/{views,admin,services}.py` |
| `Placement` | the creation of a wallet, and in which database | `wallet_service/wallets/{services,views,middleware}.py`, `Parent/sharding_utils.py` |
| `WalletProofs`, `TransferProofs`, `CircuitBreakerProofs`, `SettlementProofs`, `EventStoreProofs` | theorems about the module of that name | |
| `IdentityProofs` | theorems about `Accounts` and `Kyc` | |
| `ExchangeProofs` | theorems about `Requests`, `Notifications` and `RateCache` | |
| `PartsProofs` | theorems about `Custody`, `Access`, `Placement`, `Refunds`, `Mails`, and about all ten parts of `MCServices` | |
| `MCWallet`, `MCTransfer`, `MCSettlement`, `MCEventStore`, `MCServices` | instances for TLC | |

### Wallet

PostgreSQL works at READ COMMITTED (Django's default), so a service method is
cut at its database statements, and each worker (a request thread) has a `pc`:

    reserve:  idle -> reserve -> reserving -> done -> idle
    settle:   idle -> settle -> found -> settling -> updating -> done -> idle

`reserving` is the state in which `select_for_update` holds the wallet row,
`settling` and `updating` hold the booking row. The locks are derived from the
`pc`s, so a crash, which the database answers with a rollback, drops them by
itself. `seen` is the Python object the worker holds: `ReserveCommit` and
`Deduct` write what they compute from it, not from the row. In a reservation the
object is read under the lock; in a settlement it is not (`services.py:50`), and
the save waits for the lock of a reservation and then overwrites what that
reservation wrote.

The router is part of the model where it decides something: `reserve` finds
wallets of the two shards only (`ReserveMissing`), and the expiry task, which
has no shard in its thread, does not find the wallet of a booking at all
(`ExpiryAbort`). Balances are set in the admin before the first request: no code
that runs increases one. Edits of a wallet in the admin later on, and the status
`frozen`, which neither endpoint reads, are the subject of `Custody`.

### WalletLedger and the refinement

`WalletLedger` has two steps: `Grant` (only against funds that no open hold
claims) and `Pay` (once per hold). What open holds claim is counted in units of
money (`Claimed`). `Wallet` maps the ledger to the tables (`Ledger`), `funds` to
the column `balance` and `hold` to the bookings. Requests that overlap freely do
not implement it, as `wallet_overdraft` shows. They do as long as `CopiesAlone`
holds: from its read of the wallet row to its commit, a settlement shares the row
with no other request that has a copy of it. That is what the lock that
`commit_funds` does not take would give (a single worker has it anyway). Under
this assumption the refinement is checked and proved, for any number of workers;
so the missing lock is the whole difference between the code and the ledger.

### Transfer

`Transfer` extends `Wallet`: a process's call *is* a request of a wallet worker
(`CallReserve` takes the worker's `ReserveRequest` step along, `ReserveAnswered`
its `Respond`). A call can end without an answer (`CallLost`: timeout or broken
connection); the wallet worker then carries on and answers nobody. Further
faults: a worker process that dies with its task (`WorkerLost`), a wallet worker
that dies (`WalletCrash`), a broker that cannot be reached (`CreateUnqueued`), an
open breaker (`CallBlocked`), and the end of the month, after which the row of a
transfer is in a database nobody looks in. The balance check of the request
(`EnoughBalancePerm`) is not a guard of `Create`: its answer can be out of date
by the time the task runs, and the task does not repeat it. What happens in the
request itself before and after the row is stored is in `Requests`. The breaker is
abstracted to "may refuse at any time", which its own module justifies.

### CircuitBreaker

Each caller runs `breaker_call` one Redis command at a time. Nothing in the code
stores `HALF_OPEN`, so those branches are dead and not modelled; the open state
ends with the timeout of its key. `failed`, `opened` and `passed` are history
variables.

### Settlement

One statement: `upload` stores it (the signal queues the first task), parses the
lines one by one and queues the second task. A client may call `settle` and
`resolve`; DELETE takes the lines, matches and differences along, under whatever
run is at work. The admin site adds statements, whose file nobody parses, and its
change form posts the whole row, with the status its page showed or the
administrator chose. (The plain POST, PUT and PATCH are no steps:
`BankStatementSerializer` declares `transactions` and leaves it out of its
`fields`, so that each of them ends in an AssertionError before it saves.) A run
that saves the statement after a deletion inserts it again, empty, because
Django's `save()` inserts where its update finds no row, and a change form that
does so in the status `uploaded` makes the signal queue a third task. The rows a loop goes through are fixed when its queryset is read; one that
is gone by the time its match is inserted ends the run. A line is reduced to what
`MatchingEngine` looks at. A small upload is read to its end when the file is
stored, and then no line is found in it: the empty file among the inputs stands
for it.

### EventStore

The router picks a shard by the aggregate of an *instance*. `append_event` and
`rebuild_projection` start from `objects.using(None)`, a query without one, so
the events and one copy of the projection (`default`) are in the database
`default`. Only `projection.save(using=None)` has an instance and goes to the
`shard`: at once, since the transaction that is open is one of `default`, and
into a copy that no query reads. `log` holds the events in the order of their
commits, `created` in the order of `created_at`, by which they are replayed.
`InsertProjection` waits while another request has inserted the projection and
not committed it, as PostgreSQL makes a second insert of a primary key wait. A
shard insert that loses a race raises, and is one of the causes of `Fail`. A
payload is the set of keys it sets, and a projection says of every key which
event set it last. The loop of `replay_events` applies one payload after another;
`Replay` says what it computes: of the events that set a key, the `Latest`.
`MCEventStore` also has the loop (`ReplayOneByOne`), and an assumption that TLC
evaluates compares the two for every order and subset of the events.

### Accounts and Kyc

Both are about one row and requests that read it, work, and later save every
column of what they read. A login reads the user three times: the lockout is
checked on the first copy and a failure is counted in it, a success is saved from
the second, and `super().validate` authenticates once more. So a failed login
that was slow can put back an old password or take away a lock; the properties
say how far that goes. `update_or_create` in `submit_kyc` is the only one that
locks the row. `verify_biometric` creates the profile if there is none, and a
submission after that is refused, since the profile is pending. The task
`expire_old_kycs` lists and saves in two steps like everybody else. On the admin
site every column of a profile can be entered (`SaveEntry`, `AddEntry`), a status
that does not go with `is_verified` included; a form is a decision like an
approval. `options` holds the pair of status and `is_verified` that was stored
last, and what requests had read by then: `OnlyOldCopiesUndo` says that the row
never has another pair.

### Access

Six services decide on the claims of the token; identity also reads the row of
the account (`active`, the staff flag of `KYCViewSet`). The actions are what
changes claims and tokens: the account, login, refresh, the clock. The rest of
the module is the decision itself, `Serves`, put together as in the code:
authentication, `get_permissions`, `get_queryset`, `has_object_permission`. Some
things it shows are worth knowing: transfers, refunds, statements, differences
and webhook endpoints have none of the attributes by which
`PakRemitPermission` knows an owner, so that only `control = "admin"` may open
one of them; `SpendingViewSet` sets `permission_class`, which nothing reads, so
that rows of spending need a token and no verified profile; the rates of all
pairs are public; `resolve` of a fraud flag asks for a privileged claim, while
`is_resolved` is a writable field of a plain PATCH as well, which the owner of the
wallet may send; and which release of the token library is installed is not pinned,
so the model lets a refresh succeed whether the account is active or not.

### RateCache

A row is known by its `effective_from`, a time stamp, and says one of a few
figures. A reader asks Redis, then the database, for the newest row that is in
effect, then fills the key. `update_rate` and the fetching task commit a row and
then delete the key. The insert of `fetch_live_forex_rates` carries a stamp taken
before the provider was asked, so rows may be inserted in another order than they
are stamped, and even after `cleanup_old_rates` has deleted all that are as old:
nothing bounds how long the loop of the task takes.

The admin site works differently. The form that adds a rate runs in one
transaction with its signal, so the key is deleted before the row can be seen
(`AddRate`, `CommitRate`), and a reader may cache the older rate in between; the
rate may begin in the future; and a change or a deletion deletes no key at all.
So the promise is about rows for which `update_rate` or the task deleted the key
while the row was there and no reader stood between query and `setex` with an
older one (`Landed`): `floor` is the newest of them, and sinks when its row is
deleted or moved and an older one is left or comes later (`Sunk`).

### Notifications and Mails

One message per completed transfer; its task makes a row for each active
endpoint and queues a `dispatch_webhook` for each. Any of these messages can be
lost with its worker, an endpoint can be switched off or deleted in between, and
a post that got no answer may have been accepted. `RetryPass` is translated as it
stands, and no reachable state enables it to do anything (theorem
`RetryFindsNothing`). `Mails` is one sequence of sends and inserts without a
transaction, which any number of workers may run for the same transfer. In both,
the queue is the service's own; `transaction_service` points to the same Redis
database, and where a worker of either service listens to the other's queue it
discards what it finds there. The command lines of the workers are not in the
repository, so that case is covered by the loss of a message.

### Requests and Refunds

`Requests` begins where the balance check has passed and ends where `Transfer`
begins. Each process has its own cache of answers; the row, its task and its fee
are three separate commits, each in the database of the month it is by then.
`Refunds` has two set-ups in its initial states. In the configured one each
search for the original transfer fails, because it asks `default` first, where
the router lets no such table be created. In the other one (the settings switch
the router off for tests) the search goes on and everything after it works, with
one save per statement: nothing that is read is locked, and the transfer of an
approval is committed in another database than the refund. Neither set-up looks
at what became of the payment before it marks it as completed. `muddled` is
set by exactly those events after which the code promises nothing: two requests
on one row, an approval that fails half-way, a status an admin sets by hand, a
refund deleted after its approval.

### Custody and Placement

`Custody` is the row of one wallet as seen by payments (the balance check with
its look at the status, the reservation under a lock, the settlement without
one), by `freeze` and `unfreeze`, and by the form of the admin site, which posts
all columns of the page as it was opened. A request reaches the shard of a wallet
through `freeze` only if it carries a token and a session; with a token alone it
looks in `default`. `Placement` is `create-internal`, with the shard each process
derives from its own `hash(str(user_id))`, restarts, and the wallets the admin
adds. Because of `"PKR"` above, the call that registration makes never gets past
`Valid`; the steps behind it are there for a caller that sends what the
serializer accepts. Left out are wallets and limits that are deleted on the admin
site, and a `create-internal` whose body is not JSON: the middleware finds no user
in it, and the rows go to `default`.

### How the service modules are composed

`Transfer` runs `Wallet` inside it, because they share rows and calls. The ten
modules from `Accounts` to `Placement` share nothing with each other: no row, no
lock, no message. `MCServices` therefore runs one of them at a time; `part` is
chosen in the initial state and the state spaces add up instead of multiplying.
`refunds` is explored up to the first event that sets `muddled`, since its
property says nothing about what comes later (the proof covers it all the same).

## 3. The runs

| run | instance | states | shows |
| --- | --- | --- | --- |
| `wallet_pool` | 2 workers, a wallet in a shard (balance 3) with transfers of 1 and 2, a wallet in `default`, 2 bookings, fair | 60 000 | `AvailableNeverNegative`, `DebitedOnce`, `BalanceCoversLedger`, `LossIsStaleness`, `Answered` |
| `wallet_alone` | 2 workers, 3 bookings, as long as `CopiesAlone` holds (`AloneSpec`) | 268 000 | `ImplementsLedger` |
| `transfer` | 2 transfers (one retried once) in 2 processes, 2 wallet workers, 3 bookings, 2 months | 186 000 up to symmetry | `CompletedIsDebited`, `BookedOncePerRun`, `FailedDebitIsExplained`, `OverwritesTakeRuns` |
| `transfer_fair` | 1 transfer, retried once, fair, no symmetry | 41 000 | `EventuallyDecided` |
| `breaker` | 2 callers, limit 2, at most 6 failures | 37 000 | `OpensOnFailuresOnly`, `FailuresAreNoticed`, `RecoversForGood` |
| `settlement` | three files of up to 2 lines, upload or add form, all three tasks, 2 of a settle request, a change form and a deletion | 322 000 | `UploadSettlesAll`, `OnlyWeakAreFlagged`, `QuietIsCompleted`, `EventuallyCompleted` |
| `event_store` | 3 events with overlapping payloads, 2 rebuilds at a time | 53 000 | `DefaultIsSnapshot`, `ShardIsSnapshotPlusOne`, `EventsAreProjected`, `AppendsEnd` |
| `wallet_overdraft` | 2 workers, 3 bookings | | violates `OpenBookingsCovered` |
| `wallet_expiry` | 1 worker, 1 booking, fair | | violates `ExpiredIsClosed` |
| `transfer_twice` | 1 transfer, retried once | | violates `TransferDebitedOnce` |
| `webhook_retry` | 1 message, 2 endpoints, fair | | violates `FailedIsRetried` |
| `services` | the ten parts below, one at a time | 270 000 | the properties below |

The parts of `services`:

| part | instance | properties |
| --- | --- | --- |
| accounts | 2 workers, 2 passwords, lock after 2 failures, 2 half-hours | `LockNeedsFailures`, `MissesAreBounded`, `PasswordStays` |
| kyc | 2 requests and the task, 1 tier, 1 form whose columns contradict each other, 2 months, 2 profiles one after another, fair | `VerifiedWasGranted`, `OnlyOldCopiesUndo`, `ExpiredIsWithdrawn` |
| rates | 2 readers, 2 writers, 1 add form, changes and deletions, 2 stamps, 2 figures, fair | `RateNeverFallsBack`, `CacheCatchesUp` |
| webhooks | 1 message, 2 endpoints | `DeliveriesAreTrue` |
| mails | 2 workers, 3 tasks for one transfer | `RecordsAreTrue` |
| requests | 3 requests, 2 processes, 1 key, 2 months | `AnswersAgree` |
| refunds | 3 requests, 3 refunds, 2 transfers, both set-ups | `RefundedOnce` |
| custody | 2 payments, 1 page of the admin site, balance 1 | `FreezeStays`, `NothingIsLost` |
| placement | 2 processes, 2 requests, both shards | `CreationIsRepeatable` |
| access | 1 session, access 2 hours, refresh 3, 6 hours | `ServedAsEntered` |

Why these bounds are enough. Races on a wallet row need a settlement that has
read it and one other request that writes it: two workers. Two bookings let the
other request be a reservation or a settlement; the third in `wallet_overdraft`
is the one that is granted too much. Wallets do not share rows, so one wallet per
kind of home is enough. Two processes and one retry give every overlap of two
runs of a task; a third run adds nothing that a second does not do. Two events
race for the projection, the third finds it, or follows a rebuild; two rebuilds
can write in the order opposite to the one in which they read. The bounds
are `MaxEnqueued` (how often a task is queued), `LastMonth`, `MaxFailed`
(failing calls; six are enough to pass the bound of five that
`FailuresAreNoticed` states for two callers), `Settles` and `Others` (requests to
settle, change or delete a statement), and
the finite sets of keys `Bookings`, `Txns` and `Wallets`. Requests to the wallet
service are not bounded, except that reservations stop when the keys are used up.

In `services` two actors per part are enough for a copy to be read before and
saved after somebody else's step, and a third is added where it makes a
difference: a third request for a key meets one that is at work and one that is
over; a third agent finds a refund that two others meet on. `Limit` is 2 instead
of 5: what matters is that the count can be at, and one below, the limit while
another copy is out; the bound of `MissesAreBounded` is stated, and proved, for
every limit and every number of workers.
With a balance of 1 two payments compete for the same unit, one of them the page
of the admin brings back. `RefreshLife` outlasts `AccessLife` and `LastHour`
lets a session be refreshed until nothing of its first tokens is valid. The
bounds of the clocks and of what is created are `LastMoment`, `LastMonth`,
`LastPeriod`, `LastHour`, `MaxProfiles`, `MaxStamp`, `MaxTasks`, `MaxRefunds` and
`MaxMoves`; `MaxAttempts` is the code's own.

### Fairness

* `Wallet`: strong fairness of a worker's next step, because PostgreSQL queues
  the waiters of a row lock, and weak fairness of its answer and of the expiry
  task, which the beat schedule starts again and again. Requests, crashes and
  the clock (`Expire`) have none.
* `Transfer`: a waiting message is taken by some process again and again (strong
  fairness, since other messages compete), and a process goes on with its task
  (weak: every wait of the task has a timeout of ten seconds). Neither the
  retry, the crashes, the wallet service nor the calendar is fair; the property
  says what follows without them.
* `CircuitBreaker`: callers that have their answer record it, and Redis drops an
  expired key. `EventStore`: a request goes on with its statements; rebuilds,
  failures and new events have no fairness.
* `Settlement`: Celery starts what is queued, and runs carry on. A run has
  finitely many steps, so weak fairness of "some run takes a step" is enough.
* `Kyc`: beat starts `expire_old_kycs` every day (weak fairness of `SweepList`;
  the schedule is in the database of `django_celery_beat`), and a worker that is
  killed now and then gets through some time (strong fairness of `SweepSave`).
* `RateCache`: only that Redis drops a key whose time is over. A reader may stand
  still for ever and a writer may never delete the key; the property still holds.
* `Notifications`, in `webhook_retry`: beat runs the retry pass again and again,
  and workers go on with their jobs.

`CHECK_DEADLOCK FALSE` stands in the runs in which the work may simply be over.

### What the violations mean

* `wallet_overdraft`: settle reads the wallet row (balance 3, 1 reserved), a
  reservation of 2 commits, settle writes back balance 2, reserved 0. The
  booking of 2 is still open but nothing of it is reserved, so 2 more are
  granted. `AvailableNeverNegative` still holds, and is proved: a deduction
  takes the same amount from both columns of one copy.
* `wallet_expiry`: the task ends with `Wallet.DoesNotExist` at its first booking.
* `transfer_twice`: the task runs a second time while, or after, the first one
  settles; each run books and each settle call takes an open booking.
* `webhook_retry`: the pass asks for rows in status `pending` with a retry time.
  A row is `failed` once its post has failed, and a retry time is set by the pass
  itself only.

### What the passing runs leave room for

Some properties have exceptions, and each exception is something the code does.
A settlement that is under way when a wallet is frozen thaws it (`contended`); a
password changed while a slow login fails may be undone (`crowded`); the status of
a profile may become again what a request had read before it was stored
(`options`); a transfer may leave its final status, once for each further run of
its task; a served rate may be older than the newest row, for an hour; a statement
keeps the status a form gave it; a refund is safe only where requests do not meet
on its row (`muddled`); two processes that hash a user to different shards make two wallets
(`CreationIsRepeatable` speaks of one `route`); the same key in the next month
makes a second transfer (`AnswersAgree` speaks of one month). Where a hazard is such
an exception, its `note` in `PROJECT.json` says so.

## 4. The proofs

Theorems about a module are of the form `Spec => []P` or `Spec => [][A]_vars`,
or say that one specification implements another, for every value of the
constants that satisfies the named assumption of the module. Three of them, and
a corollary in `TransferProofs`, have `[]CopiesAlone` as a hypothesis as well. Each
rests on an inductive invariant, shown to hold initially and to be preserved
action by action. The invariants that need history of their own (`OnceInv`,
`MissInv`, `RateInv`, `SettlementInv`, `EventStoreInv`) stand at the end of the modules
they are about, and TLC has checked each of them on the instance of its run.

### Wallet

`WalletProofs` proves, for every number of wallets, transactions, bookings and
workers and for all amounts and balances that satisfy `WalletAssumption` (amounts
are positive, balances not negative, every transaction has a wallet and every
wallet a database):

* `TypeCorrect`, `AvailableStaysCovered`, `SettlesOnce`, `LedgerIsCovered`:
  `TypeOK`, `AvailableNeverNegative`, `DebitedOnce` and `BalanceCoversLedger`
  are invariants of `Spec`.
* `OnlyStaleCopiesLose`: `Spec => LossIsStaleness`. What open bookings claim and
  the column `reserved` does not hold (`Lost`) changes only in a settlement whose
  copy is out of date, by exactly what the copy is behind.
* `AloneLedgerIsExact`, `AloneBookingsCovered`: so are `BalanceMatchesLedger` and
  `OpenBookingsCovered` while `CopiesAlone` holds. The second is what
  `wallet_overdraft` violates without it.
* `AloneImplementsLedger`: `Spec /\ []CopiesAlone => ImplementsLedger`.

None of the three safety properties is inductive: what the next commit writes is
computed from a copy that may be stale. The inductive invariant `IInv` adds

* `RequestOK`: what a worker has found out about its booking is still true where
  the code relies on it (a booking that is being settled is open);
* `BookingMutex`: no two workers settle, or create, the same booking at a time,
  which the row lock and the fresh key guarantee;
* `CopyCovered`: a copy may be stale, but it was once the row, so in it the
  reserved part is within the balance, and the balance covers the debit rows as
  they are now (debit rows are only added, and `balance >= initial - debits` gets
  weaker with each).

A settlement then takes the same amount from both columns of a covered copy and
adds it to the debit rows; a reservation adds an amount that the copy, read
under the lock, still has available. Each lemma `Next...` shows one part of
`IInv` to be preserved, action by action. The theorems with `CopiesAlone` replace
`CopyCovered` by `CopyCurrent`: the copy *is* the row. Only a commit could outdate
it; while a settlement is about to commit, `CopiesAlone` says that nobody else has a
copy of its row, and while a reservation is, that no settlement has one; that no
other reservation has one either follows from its lock (`WalletMutex`).

For the refinement the code's check (balance less reserved) has to be the
ledger's (funds less what open holds claim), so the column `reserved` has to be
the size of a set (`ReservedIsOpenTotal`). A sum over a set would call for
induction; the set of units that open holds claim does not: a reservation adds
the units of one booking, a settlement removes them, and cardinalities of disjoint
unions are library facts. `ReserveClaims` and `SettleClaims` are stated of every
state, for `OnlyStaleCopiesLose`: a reservation saves the row itself, because
settlements wait for its lock (`LockedCopyCurrent`), and leaves `Lost` as it is; a
settlement adds what its copy is behind, which is nothing under `CopiesAlone`.
Then `NextLedger` maps `ReserveCommit` to `Grant`, the commit of a settlement to
`Pay`, and every other step, a crash included, to a stutter.

### CircuitBreaker

`CircuitBreakerProofs` proves for any finite set of callers, any limit and any number
of failures:

* `TypeCorrect`: `TypeOK` is an invariant of `Spec`.
* `OpensRightly`: so is `OpensOnFailuresOnly`. The invariant `OpenInv` counts the
  failures in the counter together with the callers that are about to add one
  (`failed`, `first`): each stands for a failure that happened, since a set to
  one takes the place of a counter that is not negative.
* `NoticesFailures`: so is `FailuresAreNoticed`. A caller in `first` will set the
  counter back to one, whatever the others have counted by then, and a caller in
  `read` may find the result. `Noticed` is a budget: each caller in `first` is
  worth the failures its set can hide, and fewer of them the more of them wait,
  because a caller that waits there cannot count at the same time. `Weight` adds
  that up, and the lemmas `Noticed...` say what each step does to the budget; the
  products they need are isolated in `WeightStep` and `WeightRoom`. The lemmas on
  `Count` say what a step does to the number of callers at a point.

The bound `MaxFailed` is a constant of the theorems, so they hold for every
value of it.

### Transfer

`TransferProofs` builds on `WalletProofs`. Its first result, `WalletStep`, says
that a step of `Transfer` is a step of `Wallet` or leaves its variables alone, as
long as callers and wallet workers agree on who serves whom (`CallOK`). From it
`TransferRefinesWallet` (`TransferSpec => Spec`) follows, and with it every
theorem about `Wallet` holds under the Celery tasks too; `TransferImplementsLedger`
spells it out for the ledger. `TransferInv` adds
`ReplyOK` (an "ok" to a settle request means that a booking is committed),
`BegunOK` (what works for a transfer finds that its status has moved on) and
`RunsCover` (the bookings of a transfer, the runs that have still to reserve and
the reservations under way are together no more than the runs). Results:
`CompletedTransfersArePaid`, `OneBookingPerRun`, and `NothingBeforeValidation`
(a transfer that is `initiated` has no booking).

`OverwritesAreRuns` says how often a final status is written over: less often than
the task has run. A run stores one final status at most, and as its last save, so
that final statuses and the runs that have still to store one (`Savers`) are
together no more than the runs, and an overwrite takes one of the former away
(`OverwritesCovered`).

Two more are about a transfer whose task was queued once: `FailureIsExplained`, and
`QueuedOncePaidOnce`, which says that it is paid at most once: what
`transfer_twice` shows takes a second queueing. `OnceInv` adds to `TransferInv`: messages and runs together are as many as were
queued (`MessagesOK`); so one process at most has the transfer, and when its
status is final that process has only the notification left (`OnceOK`); and
while no answer was lost, money moves for it only in the settle call its process
waits for, whose reply says whether it did (`SettlementKnown`).

### Settlement

`SettlementProofs`, for every set of lines and files and any number of settle
requests, with one change form and one deletion (the bounds of the model):
`TypeCorrect`, `UploadSettles`, `FlagsAreBounded`,
`QuietCompleted`. `SettlementInv` consists of

* `QueuedOnce`: which event queues which of the tasks, each of them once;
* `UploadProgress`: the second task of an upload begins when the file is read, so
  a line is either still in its loop or has what the loop gives it. Other runs
  only add results, and a deletion takes the line along with them;
* `FlagsCovered`: the differences of a line, and those that runs have still to
  make for it, are no more than matches times runs that have read the unmatched
  rows. What a run has still to make is counted as a set of pairs (`Due`): a run
  that reads the rows joins the second factor and owes one difference per match;
  a new match raises the product and adds nothing that is due;
* `StatusTrue`: while no form has set the status, "uploaded" means that the first task has
  not begun, and "processing" that some run has not come to its end.

### EventStore

`EventStoreProofs`, for any events, payloads and number of rebuilds:
`TypeCorrect`, `DefaultSnapshot`, `ShardSnapshotPlusOne`, `AllEventsProjected`. A
`Snapshot` is a row that is the replay of the first `version` events to be
committed, in the order of their creation. The row in `default` is written by a
rebuild, which replays what it has found, and by the request that inserts it,
empty with version 0; both are snapshots, and stay such, because neither a new
event nor another commit changes what the first events were. A request holds a
copy of such a row, new or found (`CopiesAreSnapshots`), and saves it with its own
event on top into the shard, before it commits: hence the other two theorems.

`ReplayIsTheLoop` is about the operators alone. `LoopStates` describes the states
that the loop of `replay_events` goes through; the theorem says that the last of
them is `Replay`. It takes no induction over the events: the last event that sets a
key is at the largest of a set of indices, and the last index up to which the key
has kept the value it had then is the largest of another (`KeyStays`).

### Accounts, Kyc, Requests, Notifications, RateCache

The first two in `IdentityProofs`, the others in `ExchangeProofs`.

* `LocksAreDeserved`: `LockInv` says of the row and of every copy that it is
  `Honest`, that is, counts no more failures than were answered. A save of an
  honest copy is honest whatever it overwrites.
* `ChosenPasswordStays`: `PasswordInv` says that unless the last change was
  made in company, every copy that somebody may save has the chosen password.
* `MissesStayBounded`: `MissesAreBounded`, for any number of workers that save old
  copies over one another. Each worker has a count it will go on from (`Known`):
  that of the copy it may add a failure to, or that of the row. The `Tally` says how
  many of the workers are at most at 0, at most at 1, and so on. A miss raises the
  count of its worker from some `a` to `a+1` in the row, whatever that save undoes:
  counts below `a` stay, and those that were above `a` stay above it. So the first
  place at which the tally changes is `a`, where it gets smaller (`TallyRises`), and
  the tally never comes back, as reads and lost saves do not lower a count
  (`TallyKept`). A right password and a lock start the count of misses again. Hence
  there are no more misses in a row than tallies that come before the present one
  in this lexicographic order (`MissInv`), and the present one is not among them.
* `OnlyTheGrantedAreVerified`, `DecisionsStand`: `KycInv` says `Sound` of the row
  and of all copies (where it is verified, an approval or a form said so, in that
  status and tier), and that what a request has in hand is among `options`: it read
  the row, which was, or it held its copy when the options were set.
* `AnswersNameOneTransfer`: `RequestsInv`. Ids are unique because they are the
  cardinality of a set that only grows (`RowsOK`); a request that has a transfer
  of its own has it under its key, with the task and the fee once it has come
  that far (`OwnOK`), and an answer, cached or given, names a transfer that has
  both (`AnswersOK`).
* `DeliveriesTell`: `HookInv` gives each stage of a job what is true of its row
  (`DeliveryOK`), and each running trigger the jobs it has not come to
  (`TriggerOK`). `RetryFindsNothing` follows: no row is ever due.
* `ServedRateIsNotOlder`: `RateInv` says of `floor` that its row is in the table, or
  all that are there are newer (`FloorHolds`), so that nobody who asks the database
  finds an older one; and that neither the key nor a reader that is about to fill
  it has one. A deletion of the row takes `floor` along, to the newest older row
  that is left, or leaves it where there is none.

### The parts of `PartsProofs`

* `Custody` (`FreezesStay`, `NothingGetsLost`): `CustodyInv` has the lock held by
  at most one payment and only while it reserves (`RowLocked`), whose copy is the
  row (`CopiesFresh`); every copy, a page's included, satisfies both halves of
  `NothingIsLost` (`AllHonest`), as both get weaker when debits are added; and
  unless a settlement was under way, those that read the row since have read the
  decided status (`Thawed`). A page may hold an old status; saving it is a new
  decision.
* `Access` (`AllServedAsEntered`): the claims and the lifetime of each pair of
  tokens go back to `entered` and `renewed` (`Tagged`); then a case for each kind
  of request, those included that ask for no verification (`Unasked`) and those
  about what everybody is shown (`Common`).
* `Placement` (`CreationRepeatable`): one row per shard (`OnePerShard`), what a
  call has in hand is in its shard (`CallsOK`), as is what was answered
  (`ToldOK`), and each wallet has its limit, its creator, or none to come
  (`LimitsOK`).
* `Refunds` (`AllRefundedOnce`): while nothing is muddled, the requests at work
  are about different rows (`Sole`), their copies are current up to what they are
  going to change (`AgentOK`), rows and transfers point at each other (`RowOK`,
  `MoveOK`), and at most one row stands, or is about to (`OneStanding`).
* `Mails` (`RecordsTrue`): the workers that stand before a stage (`Crowd`, the
  sizes of the sets `Before(x)`) have done what comes before it and not yet what
  comes next: each inequality is shown with them on its smaller side (`Counted`).
* All ten parts (`ServicesTypeCorrect`): a step of `MCServices` is, for each part, a
  step of its own specification or none (`EachPartIsItself`), so that every
  theorem about a part holds of the composition that TLC explores.

## 5. Checked only, or not modelled

Every safety property of the passing runs, every action property and every
refinement is proved as well. Model-checked but not proved:

* the liveness properties `Answered`, `EventuallyDecided`, `RecoversForGood`,
  `EventuallyCompleted`, `AppendsEnd`, `ExpiredIsWithdrawn` and `CacheCatchesUp`:
  they rest on fairness, which is out of the prover's reach;
* how many `Tallies` there are. The bound of `MissesAreBounded` is the size of that
  set, which a closed formula would take an induction to give; TLC compares it with
  the binomial coefficient for up to 4 workers and limits up to 4
  (`TalliesCounted` in `MCServices`);
* that the recursive `ReplayOneByOne` of `MCEventStore` runs through the states that
  `LoopStates` describes, which would be an induction as well: TLC compares it with
  `Replay` for all orders of three events;
* the four properties that the runs show to be violated.

What looks like an induction often needs none. Least and greatest elements of
finite sets are within reach, with the library's facts about well-founded orders
(`LargestNumber`, and `KeyStays` by it), and so are sums, if they are written as sizes
of sets of units, and measures that count what has not been used up (`Lower`).

Proved, and therefore in no run: the type invariants of `Wallet`, `Transfer`,
`CircuitBreaker` and `EventStore`, `BalanceMatchesLedger` under `CopiesAlone`,
that a transfer is untouched while it is `initiated`, and that one queued once
is paid once.

Not modelled, with the reason:

* limits and fraud: `LimitCheckService` has no caller, so no limit is enforced;
  `calculate_daily_spending` ends with an error, since it reads the limit of a
  sharded wallet from `default`; `run_fraud_detection` lists the wallets of the
  shards, but counts their records in `default`, where there are none, and the
  flag it would insert there at night fails on its foreign key. What is
  left, who lists and resolves flags, is in `Access`.
* code nothing calls: `StateMachine`, `validate_/process_/settle_/`
  `complete_transaction`, `deposit_funds`, `release_funds`, `send_webhook`,
  `send_bulk_emails`, `send_transaction_email`. That the receiver of a transfer is
  never credited needs no model to be seen: nothing that runs calls
  `deposit_funds`.
* `upgrade_tier`, which always answers 404 to its only caller.
* forms of the admin site other than those of wallets, statements, profiles, rates,
  refunds and (for their claims) accounts: transfers with their fees, webhook endpoints and
  deliveries, mail logs, events and projections, the lines, matches and
  differences of a statement, bookings, debit rows, and deletions of wallets and
  limits. What is said of these rows is said of them as the services write them.
* requests without any token, which only views that ask for none serve.
* the row of the device of a login, which nothing but the list of devices reads;
  the event that forex_service appends for a new rate, whose failure is only
  logged; `check_kyc_expiry`, `settlement_report` and `archive_old_events`, which
  read and send or count; the trace id; settings, URLs, migrations and tests
  (their content is used where a setting decides something: routers, lifetimes of
  tokens, caches, databases).
* reads without a decision: lists and single rows.

## 6. Plan

Done: the money path (`Wallet`, `Transfer`, `Requests`, `Refunds`, `Custody`,
`Placement`), the machinery under it (`CircuitBreaker`, `Access`), and the
processes that store something in several steps (`Settlement`, `EventStore`,
`Accounts`, `Kyc`, `RateCache`, `Notifications`, `Mails`).

Proofs: every safety and action property of the passing runs, the refinement of
`Wallet` by `Transfer`, and that of the ledger by both under `CopiesAlone`.

Left, most useful first:

1. `Requests` composed with `Transfer`: the balance check of a request against
   the reservations of the tasks that were queued before it.
2. A variable that adds up what settlements with stale copies lose: by
   `LossIsStaleness` open bookings exceed the balance by no more than that, and
   what is left is to bound it by the reservations that were granted meanwhile.
3. The safety half of the liveness properties: that the steps which fairness is
   assumed of stay enabled until they are taken, as invariants.
