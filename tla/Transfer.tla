------------------------------ MODULE Transfer ------------------------------
(***************************************************************************)
(* A transfer from its creation to its final status: the Celery task       *)
(* process_transaction_async of transaction_service, the periodic task     *)
(* retry_failed_transactions, and the calls the first one makes to the     *)
(* endpoints of wallet_service, whose module this one extends.             *)
(*                                                                         *)
(* A task is acknowledged when it is taken (Celery's default), so a worker *)
(* process that dies takes its task with it.  Transaction rows live in one *)
(* database per month, and every read and save goes to the database of the *)
(* month in which it is made.                                              *)
(***************************************************************************)
EXTENDS Wallet, FiniteSets

CONSTANTS
    Procs,       \* Celery worker processes of transaction_service
    NoWorker,    \* no wallet worker is serving the process's call
    LastMonth,   \* bound: the months are 1 .. LastMonth
    MaxEnqueued  \* bound: how often a transaction's task is queued

ASSUME TransferAssumption ==
    /\ NoWorker \notin Workers
    /\ LastMonth \in Nat \ {0}
    /\ MaxEnqueued \in [Txns -> Nat \ {0}]

VARIABLES
    month,      \* the current month
    status,     \* Transaction.status, or "absent"
    rowMonth,   \* the month whose database holds the row
    queue,      \* waiting process_transaction_async messages per transaction
    enqueued,   \* how many were ever queued
    runs,       \* how many were taken by a worker
    step,       \* what each process does next
    job,        \* the transaction it works on
    call,       \* the wallet worker that serves its HTTP call
    unanswered, \* transactions with a wallet call that got no answer
    crashed,    \* transactions whose task or message was lost
    overwritten \* how many saves of a transaction's status found a final one

messages     == <<queue, enqueued, runs>>
tasks        == <<step, job, call>>
history      == <<unanswered, crashed>>
transferVars == <<month, status, rowMonth, queue, enqueued, runs, step, job,
                  call, unanswered, crashed, overwritten, vars>>

Status == {"initiated", "validating", "processing", "completed", "failed"}
Steps  == {"idle", "start", "reserve", "awaitReserve", "settle", "awaitSettle",
           "notify"}
Final  == {"completed", "failed"}

TransferTypeOK ==
    /\ TypeOK
    /\ month \in 1..LastMonth
    /\ status \in [Txns -> Status \cup {"absent"}]
    /\ rowMonth \in [Txns -> 1..LastMonth]
    /\ queue \in [Txns -> Nat]
    /\ enqueued \in [Txns -> Nat]
    /\ runs \in [Txns -> Nat]
    /\ step \in [Procs -> Steps]
    /\ job \in [Procs -> Txns \cup {NoTxn}]
    /\ call \in [Procs -> Workers \cup {NoWorker}]
    /\ unanswered \in SUBSET Txns
    /\ crashed \in SUBSET Txns
    /\ overwritten \in [Txns -> Nat]

TransferInit ==
    /\ Init
    /\ month = 1
    /\ status = [t \in Txns |-> "absent"]
    /\ rowMonth = [t \in Txns |-> 1]
    /\ queue = [t \in Txns |-> 0]
    /\ enqueued = [t \in Txns |-> 0]
    /\ runs = [t \in Txns |-> 0]
    /\ step = [p \in Procs |-> "idle"]
    /\ job = [p \in Procs |-> NoTxn]
    /\ call = [p \in Procs |-> NoWorker]
    /\ unanswered = {}
    /\ crashed = {}
    /\ overwritten = [t \in Txns |-> 0]

-----------------------------------------------------------------------------
(* Rows and messages                                                         *)

InCurrentMonth(t) == rowMonth[t] = month

Enqueue(S) ==
    /\ queue' = [t \in Txns |-> queue[t] + (IF t \in S THEN 1 ELSE 0)]
    /\ enqueued' = [t \in Txns |-> enqueued[t] + (IF t \in S THEN 1 ELSE 0)]
    /\ UNCHANGED runs

\* The row is committed as it is created (the surrounding atomic block is one
\* of "default"), and the post_save handler queues the task.
Create(t) ==
    /\ status[t] = "absent"
    /\ status' = [status EXCEPT ![t] = "initiated"]
    /\ rowMonth' = [rowMonth EXCEPT ![t] = month]
    /\ Enqueue({t})
    /\ UNCHANGED <<month, tasks, history, overwritten, vars>>

\* The broker cannot be reached: delay() raises, and the row stays.
CreateUnqueued(t) ==
    /\ status[t] = "absent"
    /\ status' = [status EXCEPT ![t] = "initiated"]
    /\ rowMonth' = [rowMonth EXCEPT ![t] = month]
    /\ crashed' = crashed \cup {t}
    /\ UNCHANGED <<month, messages, tasks, unanswered, overwritten, vars>>

\* created_at is five minutes old or older: with a queue that is behind this
\* is true of transactions whose task is still running, too.
Stuck(t) == status[t] = "processing" /\ InCurrentMonth(t)

\* retry_failed_transactions queues a task for every stuck transaction.
Retry ==
    LET S == {t \in Txns : Stuck(t) /\ enqueued[t] < MaxEnqueued[t]}
    IN  /\ S # {}
        /\ Enqueue(S)
        /\ UNCHANGED <<month, status, rowMonth, tasks, history, overwritten, vars>>

NextMonth ==
    /\ month < LastMonth
    /\ month' = month + 1
    /\ UNCHANGED <<status, rowMonth, messages, tasks, history, overwritten, vars>>

-----------------------------------------------------------------------------
(* process_transaction_async                                                 *)

End(p) ==
    /\ step' = [step EXCEPT ![p] = "idle"]
    /\ job' = [job EXCEPT ![p] = NoTxn]
    /\ call' = [call EXCEPT ![p] = NoWorker]

Goon(p, to) ==
    /\ step' = [step EXCEPT ![p] = to]
    /\ call' = [call EXCEPT ![p] = NoWorker]
    /\ UNCHANGED job

\* txn.save(update_fields=['status']) in the database of this month.  Where
\* the row is not there the save touches no row and Django raises: the task
\* ends.  Otherwise the task goes on to step "to".
Save(p, s, to) ==
    \/ /\ InCurrentMonth(job[p])
       /\ status' = [status EXCEPT ![job[p]] = s]
       /\ overwritten' = [overwritten EXCEPT
                             ![job[p]] = IF status[job[p]] \in Final THEN @ + 1 ELSE @]
       /\ IF to = "idle" THEN End(p) ELSE Goon(p, to)
    \/ /\ ~InCurrentMonth(job[p])
       /\ UNCHANGED <<status, overwritten>>
       /\ End(p)

\* A message is taken, and acknowledged; the row is looked up.
Take(p, t) ==
    /\ step[p] = "idle"
    /\ queue[t] > 0
    /\ queue' = [queue EXCEPT ![t] = @ - 1]
    /\ runs' = [runs EXCEPT ![t] = @ + 1]
    /\ IF InCurrentMonth(t)
       THEN /\ step' = [step EXCEPT ![p] = "start"]
            /\ job' = [job EXCEPT ![p] = t]
       ELSE UNCHANGED <<step, job>>       \* "not found": the task returns
    /\ UNCHANGED <<month, status, rowMonth, enqueued, call, history, overwritten, vars>>

Validate(p) ==
    /\ step[p] = "start"
    /\ Save(p, "validating", "reserve")
    /\ UNCHANGED <<month, rowMonth, messages, history, vars>>

\* breaker_call(requests.post): a wallet worker takes up the request.
CallReserve(p, w) ==
    /\ step[p] = "reserve"
    /\ \E b \in Bookings : ReserveRequest(w, job[p], b)
    /\ step' = [step EXCEPT ![p] = "awaitReserve"]
    /\ call' = [call EXCEPT ![p] = w]
    /\ UNCHANGED <<month, status, rowMonth, messages, job, history, overwritten>>

CallSettle(p, w) ==
    /\ step[p] = "settle"
    /\ SettleRequest(w, job[p])
    /\ step' = [step EXCEPT ![p] = "awaitSettle"]
    /\ call' = [call EXCEPT ![p] = w]
    /\ UNCHANGED <<month, status, rowMonth, messages, job, history, overwritten>>

\* The breaker is open, or the connection is refused: no request is made.
CallBlocked(p) ==
    /\ step[p] \in {"reserve", "settle"}
    /\ Save(p, "failed", "idle")
    /\ UNCHANGED <<month, rowMonth, messages, history, vars>>

\* Mutant of Accepted: the status code of the response is not looked at.
AcceptedAlways(w) == reply[w] # "none"

Accepted(w) == reply[w] = "ok"

ReserveAnswered(p) ==
    LET w == call[p]
    IN  /\ step[p] = "awaitReserve"
        /\ w \in Workers
        /\ Respond(w)
        /\ IF Accepted(w) THEN Save(p, "processing", "settle")
                          ELSE Save(p, "failed", "idle")
        /\ UNCHANGED <<month, rowMonth, messages, history>>

Success == "completed"

SettleAnswered(p) ==
    LET w == call[p]
    IN  /\ step[p] = "awaitSettle"
        /\ w \in Workers
        /\ Respond(w)
        /\ IF Accepted(w) THEN Save(p, Success, "notify")
                          ELSE Save(p, "failed", "idle")
        /\ UNCHANGED <<month, rowMonth, messages, history>>

\* Mutant of OnNoAnswer: the task raises instead of recording the failure.
NoAnswerRaises(p) == UNCHANGED <<status, overwritten>> /\ End(p)

\* Mutant of OnNoAnswer: the call is made again.
NoAnswerRepeats(p) ==
    /\ UNCHANGED <<status, overwritten>>
    /\ Goon(p, IF step[p] = "awaitReserve" THEN "reserve" ELSE "settle")

OnNoAnswer(p) == Save(p, "failed", "idle")

\* The call times out, or its connection breaks.  The wallet worker, if it is
\* alive, carries on with the request.
CallLost(p) ==
    /\ step[p] \in {"awaitReserve", "awaitSettle"}
    /\ OnNoAnswer(p)
    /\ unanswered' = unanswered \cup {job[p]}
    /\ UNCHANGED <<month, rowMonth, messages, crashed, vars>>

\* Mutant of Notify: a notification that cannot be queued fails the transfer.
NotifyOrFail(p) ==
    /\ step[p] = "notify"
    /\ Save(p, "failed", "idle")
    /\ UNCHANGED <<month, rowMonth, messages, history, vars>>

\* The mail and webhook tasks are queued for the notification service.
Notify(p) ==
    /\ step[p] = "notify"
    /\ End(p)
    /\ UNCHANGED <<month, status, rowMonth, messages, history, overwritten, vars>>

\* The worker process dies: nobody has the task any more.
WorkerLost(p) ==
    /\ step[p] # "idle"
    /\ End(p)
    /\ crashed' = crashed \cup {job[p]}
    /\ UNCHANGED <<month, status, rowMonth, messages, unanswered, overwritten, vars>>

-----------------------------------------------------------------------------
(* wallet_service, under these callers                                       *)

transferState == <<month, status, rowMonth, messages, step, job, history, overwritten>>

WalletServes(w) == Serve(w) /\ UNCHANGED <<transferState, call>>

\* The caller has given up: the response goes nowhere.
RespondToNobody(w) ==
    /\ \A p \in Procs : call[p] # w
    /\ Respond(w)
    /\ UNCHANGED <<transferState, call>>

\* The caller, if it is still there, sees its connection break.
WalletCrash(w) ==
    /\ Crash(w)
    /\ call' = [p \in Procs |-> IF call[p] = w THEN NoWorker ELSE call[p]]
    /\ UNCHANGED transferState

-----------------------------------------------------------------------------
TaskStep(p) ==
    \/ Validate(p)
    \/ \E w \in Workers : CallReserve(p, w) \/ CallSettle(p, w)
    \/ ReserveAnswered(p)
    \/ SettleAnswered(p)
    \/ CallLost(p)
    \/ Notify(p)

TransferNext ==
    \/ \E t \in Txns : Create(t) \/ CreateUnqueued(t)
    \/ Retry
    \/ NextMonth
    \/ \E p \in Procs :
          \/ \E t \in Txns : Take(p, t)
          \/ TaskStep(p)
          \/ CallBlocked(p)
          \/ WorkerLost(p)
    \/ \E w \in Workers : WalletServes(w) \/ RespondToNobody(w) \/ WalletCrash(w)

TransferSpec == TransferInit /\ [][TransferNext]_transferVars

\* Celery hands a waiting message to a free process and a process carries on
\* with its task; requests.post has a timeout of ten seconds, so a call ends.
\* Nothing is assumed of Retry, of crashes or of the calendar.
TransferFairness ==
    /\ \A t \in Txns : SF_transferVars(\E p \in Procs : Take(p, t))
    /\ \A p \in Procs : WF_transferVars(TaskStep(p) \/ CallBlocked(p))

TransferFairSpec == TransferSpec /\ TransferFairness

-----------------------------------------------------------------------------
(* Properties                                                                *)

BookingsOf(t)  == {b \in Bookings : booking[b].txn = t}
CommittedOf(t) == {b \in BookingsOf(t) : booking[b].state = "committed"}

\* Two services agree on success: a transfer that is recorded as completed has
\* been paid, whatever was retried, lost or answered late.
CompletedIsDebited ==
    \A t \in Txns : status[t] = "completed" => CommittedOf(t) # {}

\* Each delivery of the task reserves at most once, so a transfer is not booked
\* (and so not debited) more often than its task was taken from the queue.
BookedOncePerRun == \A t \in Txns : Cardinality(BookingsOf(t)) <= runs[t]

\* While the row says "initiated" no money has moved for the transfer, so a
\* transfer whose first message was lost may be dropped or started again.
InitiatedIsUntouched ==
    \A t \in Txns : status[t] \in {"absent", "initiated"} => BookingsOf(t) = {}

\* A transfer that is recorded as failed although it was debited had a call
\* without an answer or ran more than once: a plain refusal never costs money.
FailedDebitIsExplained ==
    \A t \in Txns :
        status[t] = "failed" /\ CommittedOf(t) # {} =>
            t \in unanswered \/ enqueued[t] > 1

\* A final status is overwritten less often than the task has run, however the
\* runs overlap and wherever they die: a run stores one final status at most, as
\* the last thing it stores.
OverwritesTakeRuns == \A t \in Txns : overwritten[t] > 0 => overwritten[t] < runs[t]

\* A transfer reaches a final status unless its task is lost or the month ends
\* while it is on its way.
EventuallyDecided ==
    \A t \in Txns :
        status[t] = "initiated" ~>
            status[t] \in Final \/ t \in crashed \/ ~InCurrentMonth(t)

\* "Idempotency Protection": a transfer is debited once.
TransferDebitedOnce == \A t \in Txns : Cardinality(CommittedOf(t)) <= 1

-----------------------------------------------------------------------------
(* The invariants behind the properties                                      *)

Begun(t) == status[t] \notin {"absent", "initiated"}

\* A process has its transaction, and no two of them one worker; the worker of
\* a call serves the request that the process has made.
CallOK ==
    /\ \A p \in Procs :
          /\ step[p] # "idle" => job[p] \in Txns
          /\ call[p] # NoWorker =>
                /\ step[p] \in {"awaitReserve", "awaitSettle"}
                /\ pc[call[p]] # "idle"
                /\ txn[call[p]] = job[p]
                /\ step[p] = "awaitSettle" => pc[call[p]] \notin {"reserve", "reserving"}
    /\ \A p, q \in Procs : p # q /\ call[p] = call[q] => call[p] = NoWorker

\* A reply is there when the request is done, and "ok" to a settle request
\* means that a booking of the transaction is committed.
ReplyOK ==
    /\ \A w \in Workers : reply[w] # "none" => pc[w] = "done"
    /\ \A p \in Procs :
          step[p] = "awaitSettle" /\ call[p] # NoWorker /\ reply[call[p]] = "ok"
             => CommittedOf(job[p]) # {}

\* What works for a transfer after its validation finds its status moved on.
BegunOK ==
    /\ \A p \in Procs : step[p] \notin {"idle", "start"} => Begun(job[p])
    /\ \A w \in Workers : pc[w] \in {"reserve", "reserving"} => Begun(txn[w])

\* The runs of a transfer that have still to reserve, and the reservations
\* that are under way.
Claims(t)  == {p \in Procs : job[p] = t /\ step[p] \in {"start", "reserve"}}
Pending(t) == {w \in Workers : txn[w] = t /\ pc[w] \in {"reserve", "reserving"}}

\* Every run that was taken is good for one booking.
RunsCover ==
    \A t \in Txns :
        /\ IsFiniteSet(Claims(t)) /\ IsFiniteSet(Pending(t)) /\ IsFiniteSet(BookingsOf(t))
        /\ Cardinality(Claims(t)) + Cardinality(Pending(t)) + Cardinality(BookingsOf(t))
              <= runs[t]

\* The inductive invariant.
TransferInv ==
    /\ TransferTypeOK
    /\ IInv
    /\ CallOK
    /\ ReplyOK
    /\ BegunOK
    /\ RunsCover
    /\ CompletedIsDebited
    /\ InitiatedIsUntouched

\* The runs of a transfer that have still a status to store.
Savers(t) == {p \in Procs : job[p] = t /\ step[p] \notin {"idle", "notify"}}

\* Every run that was taken is good for one final status, which is there, was
\* overwritten, or is still to be stored.
OverwritesCovered ==
    \A t \in Txns :
        /\ IsFiniteSet(Savers(t))
        /\ Cardinality(Savers(t)) + overwritten[t] + (IF status[t] \in Final THEN 1 ELSE 0)
              <= runs[t]

\* A message is waiting or was taken; who works for a transfer has taken one,
\* and a process without a task has no transfer.
MessagesOK ==
    /\ \A t \in Txns :
          /\ queue[t] + runs[t] = enqueued[t]
          /\ status[t] = "absent" => enqueued[t] = 0
          /\ Begun(t) => runs[t] > 0
    /\ \A p \in Procs :
          IF step[p] = "idle" THEN job[p] = NoTxn ELSE runs[job[p]] > 0

\* A transfer whose task was queued once is in one process at most, and when
\* its status is final that process has nothing left to save.
OnceOK ==
    \A t \in Txns : enqueued[t] = 1 =>
        /\ \A p, q \in Procs : job[p] = t /\ job[q] = t => p = q
        /\ status[t] \in Final => \A p \in Procs : job[p] = t => step[p] = "notify"

\* The request threads that may still commit a booking of the transfer.
Settling(t) ==
    {w \in Workers : txn[w] = t /\ pc[w] \in {"settle", "found", "settling", "updating"}}

Unpaid(t) == CommittedOf(t) = {} /\ Settling(t) = {}

\* While no call of a transfer that was queued once is without an answer, money
\* moves for it only in the settle call that its process waits for, and the
\* reply to that call says whether it did.
SettlementKnown ==
    /\ \A t \in Txns : Settling(t) # {} => Begun(t)
    /\ \A t \in Txns : enqueued[t] = 1 /\ t \notin unanswered =>
          /\ status[t] = "failed" => Unpaid(t)
          /\ \A p \in Procs : job[p] = t =>
                /\ step[p] \in {"start", "reserve", "awaitReserve", "settle"} => Unpaid(t)
                /\ step[p] = "awaitSettle" /\ call[p] # NoWorker =>
                      /\ Settling(t) \subseteq {call[p]}
                      /\ reply[call[p]] # "ok" => CommittedOf(t) = {}

\* The inductive invariant for transfers that were queued once.
OnceInv ==
    /\ TransferInv
    /\ MessagesOK
    /\ OnceOK
    /\ SettlementKnown
=============================================================================
