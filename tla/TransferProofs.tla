--------------------------- MODULE TransferProofs ---------------------------
(***************************************************************************)
(* Proofs about Transfer for every set of transfers, wallets, bookings,    *)
(* task processes and request threads, and for any number of retries.      *)
(***************************************************************************)
EXTENDS Transfer, WalletProofs, FiniteSetTheorems

-----------------------------------------------------------------------------
(* What a step does to the tasks, and to the wallet service                  *)

\* Whatever comes of a save, its task goes on as told, with the status stored,
\* or ends.
LEMMA SaveEffect ==
    ASSUME NEW p \in Procs, NEW s, NEW to, Save(p, s, to)
    PROVE  /\ call' = [call EXCEPT ![p] = NoWorker]
           /\ \/ /\ step' = [step EXCEPT ![p] = "idle"]
                 /\ job' = [job EXCEPT ![p] = NoTxn]
                 /\ UNCHANGED status \/ status' = [status EXCEPT ![job[p]] = s]
              \/ /\ step' = [step EXCEPT ![p] = to]
                 /\ UNCHANGED job
                 /\ status' = [status EXCEPT ![job[p]] = s]
BY DEF Save, End, Goon

\* The steps of a task that no wallet worker takes part in.
Local(p) ==
    \/ Validate(p) \/ CallBlocked(p) \/ CallLost(p) \/ Notify(p) \/ WorkerLost(p)

\* Under this caller the wallet service does what it does under any.
LEMMA WalletStep ==
    ASSUME CallOK, [TransferNext]_transferVars
    PROVE  [Next]_vars
<1>1. CASE UNCHANGED transferVars
  BY <1>1 DEF transferVars
<1>2. CASE \/ \E t \in Txns : Create(t) \/ CreateUnqueued(t)
           \/ Retry
           \/ NextMonth
  BY <1>2 DEF Create, CreateUnqueued, Retry, NextMonth
<1>3. ASSUME NEW p \in Procs, NEW t \in Txns, Take(p, t)
      PROVE  UNCHANGED vars
  BY <1>3 DEF Take
<1>4. ASSUME NEW p \in Procs, Local(p)
      PROVE  UNCHANGED vars
  BY <1>4 DEF Local, Validate, CallBlocked, CallLost, Notify, WorkerLost
<1>5. ASSUME NEW p \in Procs, NEW w \in Workers, CallReserve(p, w) \/ CallSettle(p, w)
      PROVE  Arrive(w)
  BY <1>5 DEF CallReserve, CallSettle, Arrive, CallOK
<1>6. ASSUME NEW p \in Procs, ReserveAnswered(p) \/ SettleAnswered(p)
      PROVE  \E w \in Workers : Respond(w)
  BY <1>6 DEF ReserveAnswered, SettleAnswered
<1>7. ASSUME NEW w \in Workers, WalletServes(w) \/ RespondToNobody(w) \/ WalletCrash(w)
      PROVE  Serve(w) \/ Respond(w) \/ Crash(w)
  BY <1>7 DEF WalletServes, RespondToNobody, WalletCrash
<1>8. QED
  BY <1>1, <1>2, <1>3, <1>4, <1>5, <1>6, <1>7
  DEF TransferNext, TaskStep, Local, Next

-----------------------------------------------------------------------------
(* Type correctness                                                          *)

LEMMA InitTransferTypeOK == TransferInit => TransferTypeOK
BY InitTypeOK, TransferAssumption
DEF TransferInit, TransferTypeOK, Status, Steps

LEMMA SaveTypes ==
    ASSUME TransferTypeOK, NEW p \in Procs, job[p] \in Txns,
           NEW s \in Status, NEW to \in Steps, Save(p, s, to)
    PROVE  /\ status' \in [Txns -> Status \cup {"absent"}]
           /\ step' \in [Procs -> Steps]
           /\ job' \in [Procs -> Txns \cup {NoTxn}]
           /\ call' \in [Procs -> Workers \cup {NoWorker}]
           /\ overwritten' \in [Txns -> Nat]
<1>1. "idle" \in Steps
  BY DEF Steps
<1>2. overwritten' \in [Txns -> Nat]
  BY DEF Save, TransferTypeOK
<1>3. QED
  BY SaveEffect, <1>1, <1>2 DEF TransferTypeOK

\* Everything but the wallet service's own variables, for which NextTypeOK is.
TaskTypeOK ==
    /\ month \in 1..LastMonth
    /\ status \in [Txns -> Status \cup {"absent"}]
    /\ rowMonth \in [Txns -> 1..LastMonth]
    /\ queue \in [Txns -> Nat]
    /\ enqueued \in [Txns -> Nat]
    /\ runs \in [Txns -> Nat]
    /\ step \in [Procs -> Steps]
    /\ job \in [Procs -> Txns \cup {NoTxn}]
    /\ call \in [Procs -> Workers \cup {NoWorker}]
    /\ unanswered \in SUBSET Txns
    /\ crashed \in SUBSET Txns
    /\ overwritten \in [Txns -> Nat]

LEMMA NextTaskTypeOK ==
    ASSUME TransferTypeOK, CallOK, [TransferNext]_transferVars
    PROVE  TaskTypeOK'
<1> USE DEF TransferTypeOK, TaskTypeOK, messages, tasks, history
<1>0. \A p \in Procs : step[p] # "idle" => job[p] \in Txns
  BY DEF CallOK
<1>1. ASSUME NEW t \in Txns, Create(t) \/ CreateUnqueued(t)
      PROVE  TaskTypeOK'
  BY <1>1 DEF Create, CreateUnqueued, Enqueue, Status
<1>2. CASE Retry
  BY <1>2 DEF Retry, Enqueue
<1>3. CASE NextMonth
  BY <1>3, TransferAssumption DEF NextMonth
<1>4. ASSUME NEW p \in Procs, NEW t \in Txns, Take(p, t)
      PROVE  TaskTypeOK'
  <2>1. queue[t] - 1 \in Nat /\ runs[t] + 1 \in Nat
    BY <1>4 DEF Take
  <2>2. QED
    BY <1>4, <2>1 DEF Take, Steps
<1>5. ASSUME NEW p \in Procs, Validate(p) PROVE TaskTypeOK'
  <2>1. "validating" \in Status /\ "reserve" \in Steps /\ job[p] \in Txns
    BY <1>0, <1>5 DEF Validate, Status, Steps
  <2>2. QED
    BY <1>5, <2>1, SaveTypes DEF Validate
<1>6. ASSUME NEW p \in Procs, CallBlocked(p) PROVE TaskTypeOK'
  <2>1. "failed" \in Status /\ "idle" \in Steps /\ job[p] \in Txns
    BY <1>0, <1>6 DEF CallBlocked, Status, Steps
  <2>2. QED
    BY <1>6, <2>1, SaveTypes DEF CallBlocked
<1>7. ASSUME NEW p \in Procs, CallLost(p) PROVE TaskTypeOK'
  <2>1. "failed" \in Status /\ "idle" \in Steps /\ job[p] \in Txns
    BY <1>0, <1>7 DEF CallLost, Status, Steps
  <2>2. QED
    BY <1>7, <2>1, SaveTypes DEF CallLost, OnNoAnswer
<1>8. ASSUME NEW p \in Procs, Notify(p) \/ WorkerLost(p) PROVE TaskTypeOK'
  BY <1>0, <1>8 DEF Notify, WorkerLost, End, Steps
<1>9. ASSUME NEW p \in Procs, NEW w \in Workers, CallReserve(p, w) \/ CallSettle(p, w)
      PROVE  TaskTypeOK'
  BY <1>9 DEF CallReserve, CallSettle, Steps
<1>10. ASSUME NEW p \in Procs, ReserveAnswered(p) PROVE TaskTypeOK'
  <2>1. /\ {"processing", "failed"} \subseteq Status
        /\ {"settle", "idle"} \subseteq Steps
        /\ job[p] \in Txns
    BY <1>0, <1>10 DEF ReserveAnswered, Status, Steps
  <2>2. Save(p, "processing", "settle") \/ Save(p, "failed", "idle")
    BY <1>10 DEF ReserveAnswered
  <2>3. QED
    BY <1>10, <2>1, <2>2, SaveTypes DEF ReserveAnswered
<1>11. ASSUME NEW p \in Procs, SettleAnswered(p) PROVE TaskTypeOK'
  <2>1. /\ {"completed", "failed"} \subseteq Status
        /\ {"notify", "idle"} \subseteq Steps
        /\ job[p] \in Txns
    BY <1>0, <1>11 DEF SettleAnswered, Status, Steps
  <2>2. Save(p, "completed", "notify") \/ Save(p, "failed", "idle")
    BY <1>11 DEF SettleAnswered, Success
  <2>3. QED
    BY <1>11, <2>1, <2>2, SaveTypes DEF SettleAnswered
<1>12. ASSUME NEW w \in Workers, WalletServes(w) \/ RespondToNobody(w)
       PROVE  TaskTypeOK'
  BY <1>12 DEF WalletServes, RespondToNobody, transferState
<1>13. ASSUME NEW w \in Workers, WalletCrash(w) PROVE TaskTypeOK'
  BY <1>13 DEF WalletCrash, transferState
<1>14. CASE UNCHANGED transferVars
  BY <1>14 DEF transferVars
<1>15. QED
  BY <1>1, <1>2, <1>3, <1>4, <1>5, <1>6, <1>7, <1>8, <1>9, <1>10, <1>11, <1>12,
     <1>13, <1>14 DEF TransferNext, TaskStep

LEMMA NextTransferTypeOK ==
    ASSUME TransferTypeOK, IInv, CallOK, [TransferNext]_transferVars
    PROVE  TransferTypeOK' /\ IInv'
BY WalletStep, NextIInv, NextTaskTypeOK DEF TransferTypeOK, TaskTypeOK, IInv

-----------------------------------------------------------------------------
(* Calls                                                                     *)

\* A worker that serves a request keeps its transaction, and neither ends the
\* request nor makes a reservation of a settlement.
LEMMA ServeEffect ==
    ASSUME TypeOK, NEW w \in Workers, Serve(w)
    PROVE  /\ txn' = txn
           /\ pc[w] # "idle" /\ pc'[w] # "idle"
           /\ pc[w] \notin {"reserve", "reserving"} => pc'[w] \notin {"reserve", "reserving"}
           /\ \A v \in Workers : v # w => pc'[v] = pc[v] /\ reply'[v] = reply[v]
           /\ reply'[w] = reply[w] \/ pc'[w] = "done"
BY DEF TypeOK, Serve, ReserveMissing, ReserveLock, ReserveRefuse, ReserveCommit,
   SettleFind, SettleMissing, SettleLock, SettleReject, SettleRead, SettleCommit,
   Goto, Answer

\* A task that ends or goes on to a step without a call leaves the others be.
LEMMA UncalledOK ==
    ASSUME TransferTypeOK, CallOK, NEW p \in Procs,
           \A v \in Workers \ {call[p]} : pc'[v] = pc[v] /\ txn'[v] = txn[v],
           call' = [call EXCEPT ![p] = NoWorker],
           \/ step' = [step EXCEPT ![p] = "idle"] /\ job' = [job EXCEPT ![p] = NoTxn]
           \/ \E to \in Steps : step' = [step EXCEPT ![p] = to] /\ job' = job,
           job[p] \in Txns
    PROVE  CallOK'
BY TransferAssumption DEF TransferTypeOK, CallOK

LEMMA NextCallOK ==
    ASSUME TransferTypeOK, IInv, CallOK, [TransferNext]_transferVars
    PROVE  CallOK'
<1> USE DEF tasks, messages, history
<1>0. \A p \in Procs : step[p] # "idle" => job[p] \in Txns
  BY DEF CallOK
<1>1. CASE \/ \E t \in Txns : Create(t) \/ CreateUnqueued(t)
           \/ Retry
           \/ NextMonth
           \/ UNCHANGED transferVars
  BY <1>1 DEF Create, CreateUnqueued, Retry, NextMonth, transferVars, vars, CallOK
<1>2. ASSUME NEW p \in Procs, NEW t \in Txns, Take(p, t)
      PROVE  CallOK'
  BY <1>2 DEF Take, TransferTypeOK, CallOK, vars
<1>3. ASSUME NEW p \in Procs, Validate(p) \/ CallBlocked(p) \/ CallLost(p)
      PROVE  CallOK'
  <2>1. job[p] \in Txns /\ UNCHANGED <<pc, txn>>
    BY <1>0, <1>3 DEF Validate, CallBlocked, CallLost, vars
  <2>2. \/ Save(p, "validating", "reserve")
        \/ Save(p, "failed", "idle")
    BY <1>3 DEF Validate, CallBlocked, CallLost, OnNoAnswer
  <2>3. "reserve" \in Steps /\ "idle" \in Steps
    BY DEF Steps
  <2>4. QED
    BY <2>1, <2>2, <2>3, SaveEffect, UncalledOK
<1>4. ASSUME NEW p \in Procs, Notify(p) \/ WorkerLost(p)
      PROVE  CallOK'
  <2>1. job[p] \in Txns /\ End(p) /\ UNCHANGED <<pc, txn>>
    BY <1>0, <1>4 DEF Notify, WorkerLost, vars
  <2>2. QED
    BY <2>1, UncalledOK DEF End
<1>5. ASSUME NEW p \in Procs, NEW w \in Workers, CallReserve(p, w)
      PROVE  CallOK'
  <2>1. /\ step[p] = "reserve" /\ job[p] \in Txns
        /\ pc[w] = "idle"
        /\ pc' = [pc EXCEPT ![w] = "reserve"]
        /\ txn' = [txn EXCEPT ![w] = job[p]]
        /\ step' = [step EXCEPT ![p] = "awaitReserve"]
        /\ call' = [call EXCEPT ![p] = w]
        /\ UNCHANGED job
    BY <1>0, <1>5 DEF CallReserve, ReserveRequest, Goto
  <2>2. QED
    BY <2>1, TransferAssumption DEF TransferTypeOK, TypeOK, CallOK
<1>6. ASSUME NEW p \in Procs, NEW w \in Workers, CallSettle(p, w)
      PROVE  CallOK'
  <2>1. /\ step[p] = "settle" /\ job[p] \in Txns
        /\ pc[w] = "idle"
        /\ pc' = [pc EXCEPT ![w] = "settle"]
        /\ txn' = [txn EXCEPT ![w] = job[p]]
        /\ step' = [step EXCEPT ![p] = "awaitSettle"]
        /\ call' = [call EXCEPT ![p] = w]
        /\ UNCHANGED job
    BY <1>0, <1>6 DEF CallSettle, SettleRequest, Goto
  <2>2. QED
    BY <2>1, TransferAssumption DEF TransferTypeOK, TypeOK, CallOK
<1>7. ASSUME NEW p \in Procs, ReserveAnswered(p) \/ SettleAnswered(p)
      PROVE  CallOK'
  <2>1. /\ job[p] \in Txns
        /\ call[p] \in Workers
        /\ \A v \in Workers \ {call[p]} : pc'[v] = pc[v] /\ txn'[v] = txn[v]
    BY <1>0, <1>7 DEF ReserveAnswered, SettleAnswered, Respond, Reset, TransferTypeOK, TypeOK
  <2>2. \/ Save(p, "processing", "settle") \/ Save(p, "completed", "notify")
        \/ Save(p, "failed", "idle")
    BY <1>7 DEF ReserveAnswered, SettleAnswered, Success
  <2>3. {"settle", "notify", "idle"} \subseteq Steps
    BY DEF Steps
  <2>4. QED
    BY <2>1, <2>2, <2>3, SaveEffect, UncalledOK
<1>8. ASSUME NEW w \in Workers, WalletServes(w)
      PROVE  CallOK'
  <2>1. Serve(w) /\ UNCHANGED <<step, job, call>>
    BY <1>8 DEF WalletServes, transferState
  <2>2. QED
    BY <2>1, ServeEffect DEF CallOK, TransferTypeOK
<1>9. ASSUME NEW w \in Workers, RespondToNobody(w)
      PROVE  CallOK'
  <2>1. /\ \A p \in Procs : call[p] # w
        /\ pc' = [pc EXCEPT ![w] = "idle"]
        /\ txn' = [txn EXCEPT ![w] = NoTxn]
        /\ UNCHANGED <<step, job, call>>
    BY <1>9 DEF RespondToNobody, Respond, Reset, transferState
  <2>2. QED
    BY <2>1 DEF CallOK, TransferTypeOK, TypeOK
<1>10. ASSUME NEW w \in Workers, WalletCrash(w)
       PROVE  CallOK'
  <2>1. /\ call' = [p \in Procs |-> IF call[p] = w THEN NoWorker ELSE call[p]]
        /\ pc' = [pc EXCEPT ![w] = "idle"]
        /\ txn' = [txn EXCEPT ![w] = NoTxn]
        /\ UNCHANGED <<step, job>>
    BY <1>10 DEF WalletCrash, Crash, Reset, transferState
  <2>2. QED
    BY <2>1 DEF CallOK, TransferTypeOK, TypeOK
<1>11. QED
  BY <1>1, <1>2, <1>3, <1>4, <1>5, <1>6, <1>7, <1>8, <1>9, <1>10
  DEF TransferNext, TaskStep

-----------------------------------------------------------------------------
(* Bookings and replies                                                      *)

\* A booking changes in two ways only: a reservation opens one that was not
\* there, and a settlement commits an open one.
LEMMA BookingStep ==
    ASSUME TypeOK, RequestOK, [Next]_vars, NEW b \in Bookings,
           booking'[b] # booking[b]
    PROVE  \/ /\ booking[b].state = "none"
              /\ \E w \in Workers :
                    /\ pc[w] = "reserving" /\ pc'[w] = "done" /\ txn'[w] = txn[w]
                    /\ held[w] = b
                    /\ booking'[b] = [txn |-> txn[w], state |-> "open"]
           \/ /\ booking[b].state = "open"
              /\ booking'[b] = [txn |-> booking[b].txn, state |-> "committed"]
<1>1. ASSUME NEW w \in Workers, ReserveCommit(w)
      PROVE  /\ booking[b].state = "none"
             /\ pc[w] = "reserving" /\ pc'[w] = "done" /\ txn'[w] = txn[w]
             /\ held[w] = b
             /\ booking'[b] = [txn |-> txn[w], state |-> "open"]
  BY <1>1 DEF ReserveCommit, Answer, TypeOK, RequestOK
<1>2. ASSUME NEW w \in Workers, SettleCommit(w)
      PROVE  /\ booking[b].state = "open"
             /\ booking'[b] = [txn |-> booking[b].txn, state |-> "committed"]
  BY <1>2 DEF SettleCommit, TypeOK, BookingRow, RequestOK
<1>3. \E w \in Workers : ReserveCommit(w) \/ SettleCommit(w)
  BY DEF Next, Serve, Arrive, Respond, Crash, Reset, Expire, ExpiryPass, ExpiryAbort,
     ReserveRequest, SettleRequest, ReserveMissing, ReserveLock, ReserveRefuse,
     SettleFind, SettleMissing, SettleLock, SettleReject, SettleRead, rows, vars
<1>4. QED
  BY <1>1, <1>2, <1>3

\* What has been paid stays paid.
LEMMA CommittedStays ==
    ASSUME TypeOK, RequestOK, [Next]_vars, NEW t \in Txns, CommittedOf(t) # {}
    PROVE  CommittedOf(t)' # {}
<1>1. PICK b \in Bookings : booking[b].txn = t /\ booking[b].state = "committed"
  BY DEF CommittedOf, BookingsOf
<1>2. booking'[b] = booking[b]
  BY <1>1, BookingStep
<1>3. QED
  BY <1>1, <1>2 DEF CommittedOf, BookingsOf

\* A worker that says "ok" to a request that was not a reservation has just
\* committed a booking of the request's transaction.
LEMMA ServeReply ==
    ASSUME TypeOK, RequestOK, NEW w \in Workers, Serve(w),
           pc[w] \notin {"reserve", "reserving"}
    PROVE  \/ reply'[w] \in {"missing", "error"}
           \/ reply'[w] = reply[w]
           \/ CommittedOf(txn[w])' # {}
<1>1. CASE SettleCommit(w)
  <2>1. /\ held[w] \in Bookings /\ booking[held[w]].txn = txn[w]
        /\ booking' = [booking EXCEPT ![held[w]].state = "committed"]
    BY <1>1 DEF SettleCommit, RequestOK
  <2>2. /\ booking'[held[w]].txn = txn[w]
        /\ booking'[held[w]].state = "committed"
    BY <2>1 DEF TypeOK, BookingRow
  <2>3. txn' = txn
    BY <1>1 DEF SettleCommit
  <2>4. held[w] \in CommittedOf(txn[w])'
    BY <2>1, <2>2, <2>3 DEF CommittedOf, BookingsOf
  <2>5. QED
    BY <2>4
<1>2. CASE ~SettleCommit(w)
  BY <1>2 DEF Serve, ReserveMissing, ReserveLock, ReserveRefuse, ReserveCommit,
     SettleFind, SettleMissing, SettleLock, SettleReject, SettleRead, Answer, TypeOK
<1>3. QED
  BY <1>1, <1>2

\* Replies that are not there when the request is not done.
LEMMA NextReplyDone ==
    ASSUME TypeOK, [Next]_vars, \A w \in Workers : reply[w] # "none" => pc[w] = "done"
    PROVE  \A w \in Workers : reply'[w] # "none" => pc'[w] = "done"
<1>1. ASSUME NEW w \in Workers, Arrive(w) PROVE UNCHANGED reply /\ pc[w] = "idle"
                                    /\ \A v \in Workers \ {w} : pc'[v] = pc[v]
  BY <1>1 DEF Arrive, ReserveRequest, SettleRequest, Goto, TypeOK
<1>2. ASSUME NEW w \in Workers, Serve(w)
      PROVE  /\ \A v \in Workers : v # w => pc'[v] = pc[v] /\ reply'[v] = reply[v]
             /\ reply'[w] = "none" \/ pc'[w] = "done"
  BY <1>2 DEF Serve, ReserveMissing, ReserveLock, ReserveRefuse, ReserveCommit,
     SettleFind, SettleMissing, SettleLock, SettleReject, SettleRead, SettleCommit,
     Answer, Goto, TypeOK
<1>3. ASSUME NEW w \in Workers, Respond(w) \/ Crash(w)
      PROVE  /\ \A v \in Workers : v # w => pc'[v] = pc[v] /\ reply'[v] = reply[v]
             /\ reply'[w] = "none"
  BY <1>3 DEF Respond, Crash, Reset, TypeOK
<1>4. CASE \/ \E b \in Bookings : Expire(b)
           \/ ExpiryPass \/ ExpiryAbort
           \/ UNCHANGED vars
  BY <1>4 DEF Expire, ExpiryPass, ExpiryAbort, request, vars
<1>5. QED
  BY <1>1, <1>2, <1>3, <1>4 DEF Next

\* An "ok" that a settling task is about to read was true when the worker said
\* it, and what is committed stays committed until it is read.
LEMMA NextReplyOK ==
    ASSUME TransferTypeOK, IInv, CallOK, ReplyOK, [TransferNext]_transferVars
    PROVE  ReplyOK'
<1> DEFINE Told(p) == step[p] = "awaitSettle" /\ call[p] # NoWorker /\ reply[call[p]] = "ok"
<1> USE DEF tasks, messages, history
<1>0. /\ TypeOK /\ RequestOK /\ [Next]_vars
      /\ \A p \in Procs : step[p] # "idle" => job[p] \in Txns
  BY WalletStep DEF IInv, CallOK
<1>1. \A w \in Workers : reply'[w] # "none" => pc'[w] = "done"
  BY <1>0, NextReplyDone DEF ReplyOK
<1>2. \A t \in Txns : CommittedOf(t) # {} => CommittedOf(t)' # {}
  BY <1>0, CommittedStays
<1> DEFINE Kept(p) == Told(p) /\ job[p] \in Txns /\ job'[p] = job[p]
<1>3. ASSUME NEW p \in Procs, Kept(p) PROVE CommittedOf(job[p])' # {}
  BY <1>2, <1>3 DEF ReplyOK
<1>4. SUFFICES ASSUME NEW p \in Procs, Told(p)'
               PROVE  Kept(p) \/ \E t \in Txns : t = job'[p] /\ CommittedOf(t)' # {}
  BY <1>1, <1>3, <1>4 DEF ReplyOK, CommittedOf, BookingsOf
<1>5. CASE \/ \E t \in Txns : Create(t) \/ CreateUnqueued(t)
           \/ Retry
           \/ NextMonth
           \/ UNCHANGED transferVars
  BY <1>0, <1>4, <1>5 DEF Create, CreateUnqueued, Retry, NextMonth, transferVars, vars
<1>6. ASSUME NEW q \in Procs, NEW t \in Txns, Take(q, t)
      PROVE  Kept(p)
  BY <1>0, <1>4, <1>6 DEF Take, TransferTypeOK, vars
<1>7. ASSUME NEW q \in Procs, Local(q)
      PROVE  Kept(p)
  <2>1. /\ q = p => step'[p] # "awaitSettle"
        /\ q # p => step'[p] = step[p] /\ job'[p] = job[p] /\ call'[p] = call[p]
        /\ UNCHANGED reply
    BY <1>7 DEF Local, Validate, CallBlocked, CallLost, OnNoAnswer, Notify, WorkerLost,
       Save, End, Goon, TransferTypeOK, vars
  <2>2. QED
    BY <1>0, <1>4, <2>1
<1>8. ASSUME NEW q \in Procs, NEW w \in Workers, CallReserve(q, w) \/ CallSettle(q, w)
      PROVE  Kept(p)
  <2>1. /\ q = p => call'[p] = w
        /\ q # p => step'[p] = step[p] /\ job'[p] = job[p] /\ call'[p] = call[p]
        /\ UNCHANGED reply
        /\ pc[w] = "idle"
    BY <1>8 DEF CallReserve, CallSettle, ReserveRequest, SettleRequest, TransferTypeOK
  <2>2. reply[w] = "none"
    BY <2>1 DEF ReplyOK, TypeOK
  <2>3. QED
    BY <1>0, <1>4, <2>1, <2>2
<1>9. ASSUME NEW q \in Procs, ReserveAnswered(q) \/ SettleAnswered(q)
      PROVE  Kept(p)
  <2>1. /\ q = p => step'[p] # "awaitSettle"
        /\ q # p => step'[p] = step[p] /\ job'[p] = job[p] /\ call'[p] = call[p]
    BY <1>9 DEF ReserveAnswered, SettleAnswered, Save, End, Goon, Success, TransferTypeOK
  <2>2. \A v \in Workers : reply'[v] = reply[v] \/ reply'[v] = "none"
    BY <1>9 DEF ReserveAnswered, SettleAnswered, Respond, Reset, TransferTypeOK, TypeOK
  <2>3. QED
    BY <1>0, <1>4, <2>1, <2>2 DEF TransferTypeOK
<1>10. ASSUME NEW w \in Workers, WalletServes(w)
       PROVE  Kept(p) \/ \E t \in Txns : t = job'[p] /\ CommittedOf(t)' # {}
  <2>1. Serve(w) /\ UNCHANGED <<step, job, call>>
    BY <1>10 DEF WalletServes, transferState
  <2>2. CASE call[p] # w
    BY <1>0, <1>4, <2>1, <2>2, ServeEffect DEF TransferTypeOK
  <2>3. CASE call[p] = w
    <3>1. /\ w # NoWorker /\ job[p] \in Txns /\ txn[w] = job[p]
          /\ pc[w] \notin {"reserve", "reserving"}
      BY <1>0, <1>4, <2>1, <2>3 DEF CallOK
    <3>2. CASE CommittedOf(txn[w])' # {}
      BY <2>1, <3>1, <3>2, ServeEffect, <1>0 DEF CommittedOf, BookingsOf
    <3>3. CASE reply'[w] = reply[w]
      BY <1>4, <2>1, <2>3, <3>1, <3>3
    <3>4. QED
      BY <1>0, <1>4, <2>1, <2>3, <3>1, <3>2, <3>3, ServeReply
  <2>4. QED
    BY <2>2, <2>3
<1>11. ASSUME NEW w \in Workers, RespondToNobody(w) \/ WalletCrash(w)
       PROVE  Kept(p)
  <2>1. UNCHANGED <<step, job>> /\ (call'[p] = call[p] \/ call'[p] = NoWorker)
    BY <1>11 DEF RespondToNobody, WalletCrash, transferState
  <2>2. \A v \in Workers : reply'[v] = reply[v] \/ reply'[v] = "none"
    BY <1>11 DEF RespondToNobody, WalletCrash, Respond, Crash, Reset, TypeOK, TransferTypeOK
  <2>3. QED
    BY <1>0, <1>4, <2>1, <2>2 DEF TransferTypeOK
<1>12. QED
  BY <1>5, <1>6, <1>7, <1>8, <1>9, <1>10, <1>11 DEF TransferNext, TaskStep, Local

-----------------------------------------------------------------------------
(* Statuses                                                                  *)

\* What a step does to the status of a transfer: it creates the row, or one
\* task saves what it has come to.
LEMMA StatusStep ==
    ASSUME TransferTypeOK, CallOK, [TransferNext]_transferVars,
           NEW t \in Txns, status'[t] # status[t]
    PROVE  \/ status[t] = "absent" /\ status'[t] = "initiated"
           \/ status'[t] \in {"validating", "processing", "failed"}
           \/ /\ status'[t] = "completed"
              /\ \E p \in Procs : SettleAnswered(p) /\ Accepted(call[p]) /\ job[p] = t
<1>1. ASSUME NEW u \in Txns, Create(u) \/ CreateUnqueued(u)
      PROVE  status[t] = "absent" /\ status'[t] = "initiated"
  BY <1>1 DEF Create, CreateUnqueued, TransferTypeOK
<1>2. ASSUME NEW p \in Procs, NEW s,
             Save(p, s, "idle") \/ Save(p, s, "reserve") \/ Save(p, s, "settle")
             \/ Save(p, s, "notify")
      PROVE  status'[t] = s /\ job[p] = t
  BY <1>2 DEF Save, TransferTypeOK
<1>3. ASSUME NEW p \in Procs, Validate(p) \/ CallBlocked(p) \/ CallLost(p) \/ ReserveAnswered(p)
      PROVE  status'[t] \in {"validating", "processing", "failed"}
  <2>1. \/ Save(p, "validating", "reserve")
        \/ Save(p, "processing", "settle")
        \/ Save(p, "failed", "idle")
    BY <1>3 DEF Validate, CallBlocked, CallLost, OnNoAnswer, ReserveAnswered
  <2>2. QED
    BY <1>2, <2>1
<1>4. ASSUME NEW p \in Procs, SettleAnswered(p)
      PROVE  \/ status'[t] = "failed"
             \/ status'[t] = "completed" /\ Accepted(call[p]) /\ job[p] = t
  BY <1>2, <1>4 DEF SettleAnswered, Success
<1>5. CASE \/ Retry
           \/ NextMonth
           \/ UNCHANGED transferVars
           \/ \E p \in Procs : \E u \in Txns : Take(p, u)
           \/ \E p \in Procs : Notify(p) \/ WorkerLost(p)
           \/ \E p \in Procs : \E w \in Workers : CallReserve(p, w) \/ CallSettle(p, w)
           \/ \E w \in Workers : WalletServes(w) \/ RespondToNobody(w) \/ WalletCrash(w)
  BY <1>5 DEF Retry, NextMonth, transferVars, Take, Notify, WorkerLost, CallReserve,
     CallSettle, WalletServes, RespondToNobody, WalletCrash, transferState
<1>6. QED
  BY <1>1, <1>3, <1>4, <1>5 DEF TransferNext, TaskStep

\* A transfer that has begun does not go back to its beginning.
LEMMA BegunStays ==
    ASSUME TransferTypeOK, CallOK, [TransferNext]_transferVars
    PROVE  \A t \in Txns : Begun(t) => Begun(t)'
BY StatusStep DEF Begun

LEMMA NextBegunOK ==
    ASSUME TransferTypeOK, IInv, CallOK, BegunOK, [TransferNext]_transferVars
    PROVE  BegunOK'
<1> USE DEF tasks, messages, history
<1> DEFINE Working(p) == step[p] \notin {"idle", "start"}
           Reserving(w) == pc[w] \in {"reserve", "reserving"}
<1>0. \A p \in Procs : step[p] # "idle" => job[p] \in Txns
  BY DEF CallOK
<1>1. ASSUME NEW p \in Procs, Working(p)'
      PROVE  \/ Working(p) /\ job'[p] = job[p]
             \/ job[p] \in Txns /\ job'[p] = job[p] /\ status'[job[p]] = "validating"
  <2>1. ASSUME NEW q \in Procs, Validate(q)
        PROVE  \/ q # p /\ step'[p] = step[p] /\ job'[p] = job[p]
               \/ q = p /\ job'[p] = job[p] /\ status'[job[p]] = "validating"
    BY <1>0, <1>1, <2>1 DEF Validate, Save, End, Goon, TransferTypeOK
  <2>2. ASSUME NEW q \in Procs, CallBlocked(q) \/ CallLost(q) \/ Notify(q) \/ WorkerLost(q)
        PROVE  q # p /\ step'[p] = step[p] /\ job'[p] = job[p]
    BY <1>1, <2>2 DEF CallBlocked, CallLost, OnNoAnswer, Notify, WorkerLost, Save, End, Goon,
       TransferTypeOK
  <2>3. ASSUME NEW q \in Procs, \/ ReserveAnswered(q) \/ SettleAnswered(q)
                                \/ \E w \in Workers : CallReserve(q, w) \/ CallSettle(q, w)
        PROVE  \/ q # p /\ step'[p] = step[p] /\ job'[p] = job[p]
               \/ q = p /\ Working(p) /\ job'[p] = job[p]
               \/ q = p /\ step[p] = "reserve" /\ job'[p] = job[p]
    BY <1>1, <2>3 DEF ReserveAnswered, SettleAnswered, CallReserve, CallSettle, Save, End, Goon,
       TransferTypeOK
  <2>4. ASSUME NEW q \in Procs, NEW t \in Txns, Take(q, t)
        PROVE  step'[p] = step[p] /\ job'[p] = job[p]
    BY <1>1, <2>4 DEF Take, TransferTypeOK
  <2>5. CASE \/ \E t \in Txns : Create(t) \/ CreateUnqueued(t)
             \/ Retry
             \/ NextMonth
             \/ UNCHANGED transferVars
             \/ \E w \in Workers : WalletServes(w) \/ RespondToNobody(w) \/ WalletCrash(w)
    BY <1>1, <2>5 DEF Create, CreateUnqueued, Retry, NextMonth, transferVars, WalletServes,
       RespondToNobody, WalletCrash, transferState
  <2>6. QED
    BY <1>0, <1>1, <2>1, <2>2, <2>3, <2>4, <2>5 DEF TransferNext, TaskStep, Validate
<1>2. ASSUME NEW w \in Workers, Reserving(w)'
      PROVE  \/ Reserving(w) /\ txn'[w] = txn[w]
             \/ \E p \in Procs : step[p] = "reserve" /\ txn'[w] = job[p]
  <2>1. ASSUME NEW p \in Procs, NEW v \in Workers, CallReserve(p, v)
        PROVE  \/ v # w /\ pc'[w] = pc[w] /\ txn'[w] = txn[w]
               \/ v = w /\ step[p] = "reserve" /\ txn'[w] = job[p]
    BY <2>1 DEF CallReserve, ReserveRequest, Goto, TransferTypeOK, TypeOK
  <2>2. ASSUME NEW p \in Procs, NEW v \in Workers, CallSettle(p, v)
        PROVE  v # w /\ pc'[w] = pc[w] /\ txn'[w] = txn[w]
    BY <1>2, <2>2 DEF CallSettle, SettleRequest, Goto, TransferTypeOK, TypeOK
  <2>3. ASSUME NEW v \in Workers, Respond(v) \/ Crash(v)
        PROVE  v # w /\ pc'[w] = pc[w] /\ txn'[w] = txn[w]
    BY <1>2, <2>3 DEF Respond, Crash, Reset, TransferTypeOK, TypeOK
  <2>4. ASSUME NEW v \in Workers, WalletServes(v)
        PROVE  Reserving(w) /\ txn'[w] = txn[w]
    BY <1>2, <2>4, ServeEffect DEF WalletServes, TransferTypeOK
  <2>5. CASE UNCHANGED vars
    BY <1>2, <2>5 DEF vars
  <2>6. QED
    BY <1>2, <2>1, <2>2, <2>3, <2>4, <2>5
    DEF TransferNext, TaskStep, Create, CreateUnqueued, Retry, NextMonth, Take, Validate,
        CallBlocked, CallLost, Notify, WorkerLost, ReserveAnswered, SettleAnswered,
        RespondToNobody, WalletCrash, transferVars
<1>3. ASSUME NEW p \in Procs, Working(p)' PROVE Begun(job[p])'
  BY <1>0, <1>1, <1>3, BegunStays DEF BegunOK, Begun
<1>4. ASSUME NEW w \in Workers, Reserving(w)' PROVE Begun(txn[w])'
  BY <1>0, <1>2, <1>4, BegunStays DEF BegunOK, Begun, IInv, RequestOK
<1>5. QED
  BY <1>3, <1>4 DEF BegunOK, Begun

\* A transfer is completed by a task that has read "ok", and what it was told
\* stays true.
LEMMA NextCompletedIsDebited ==
    ASSUME TransferTypeOK, IInv, CallOK, ReplyOK, CompletedIsDebited,
           [TransferNext]_transferVars
    PROVE  CompletedIsDebited'
<1>1. \A t \in Txns : CommittedOf(t) # {} => CommittedOf(t)' # {}
  BY WalletStep, CommittedStays DEF IInv
<1>2. ASSUME NEW p \in Procs, SettleAnswered(p), Accepted(call[p])
      PROVE  CommittedOf(job[p]) # {}
  BY <1>2, TransferAssumption DEF SettleAnswered, Accepted, ReplyOK
<1>3. SUFFICES ASSUME NEW t \in Txns, status'[t] = "completed"
               PROVE  CommittedOf(t)' # {}
  BY DEF CompletedIsDebited, CommittedOf, BookingsOf
<1>4. status[t] = "completed" \/ \E p \in Procs : SettleAnswered(p) /\ Accepted(call[p]) /\ job[p] = t
  BY <1>3, StatusStep
<1>5. QED
  BY <1>1, <1>2, <1>4 DEF CompletedIsDebited

\* A booking is opened for a transfer that has begun.
LEMMA NextInitiatedIsUntouched ==
    ASSUME TransferTypeOK, IInv, CallOK, BegunOK, InitiatedIsUntouched,
           [TransferNext]_transferVars
    PROVE  InitiatedIsUntouched'
<1>1. TypeOK /\ RequestOK /\ [Next]_vars
  BY WalletStep DEF IInv
<1>2. SUFFICES ASSUME NEW t \in Txns, NEW b \in Bookings, booking'[b].txn = t
               PROVE  Begun(t)'
  BY DEF InitiatedIsUntouched, BookingsOf, Begun
<1>3. CASE booking[b].txn = t
  BY <1>3, BegunStays DEF InitiatedIsUntouched, BookingsOf, Begun
<1>4. CASE booking[b].txn # t
  <2>1. booking'[b] # booking[b]
    BY <1>2, <1>4
  <2>2. booking'[b] # [txn |-> booking[b].txn, state |-> "committed"]
    BY <1>2, <1>4
  <2>3. PICK w \in Workers : pc[w] = "reserving" /\ booking'[b] = [txn |-> txn[w], state |-> "open"]
    BY <1>1, <2>1, <2>2, BookingStep
  <2>4. t = txn[w]
    BY <1>2, <2>3
  <2>5. QED
    BY <2>3, <2>4, BegunStays DEF BegunOK, Begun
<1>5. QED
  BY <1>3, <1>4

-----------------------------------------------------------------------------
(* Counting the runs of a transfer                                           *)

LEMMA FewerNext ==
    ASSUME NEW A, IsFiniteSet(A), NEW B \in SUBSET A
    PROVE  /\ IsFiniteSet(B)
           /\ Cardinality(A) \in Nat /\ Cardinality(B) \in Nat
           /\ Cardinality(B) <= Cardinality(A)
           /\ \A x \in A : x \notin B => Cardinality(B) <= Cardinality(A) - 1
<1>1. IsFiniteSet(B) /\ Cardinality(B) <= Cardinality(A)
  BY FS_Subset
<1>2. Cardinality(A) \in Nat /\ Cardinality(B) \in Nat
  BY <1>1, FS_CardinalityType
<1>3. ASSUME NEW x \in A, x \notin B
      PROVE  Cardinality(B) <= Cardinality(A) - 1
  <2>1. IsFiniteSet(A \ {x}) /\ Cardinality(A \ {x}) = Cardinality(A) - 1
    BY <1>3, FS_RemoveElement
  <2>2. B \in SUBSET (A \ {x})
    BY <1>3
  <2>3. QED
    BY <2>1, <2>2, FS_Subset
<1>4. QED
  BY <1>1, <1>2, <1>3

LEMMA OneMore ==
    ASSUME NEW A, IsFiniteSet(A), NEW x, NEW B \in SUBSET (A \cup {x})
    PROVE  /\ IsFiniteSet(B)
           /\ Cardinality(A) \in Nat /\ Cardinality(B) \in Nat
           /\ Cardinality(B) <= Cardinality(A) + 1
<1>1. /\ IsFiniteSet(A \cup {x})
      /\ Cardinality(A \cup {x}) = Cardinality(A) \/ Cardinality(A \cup {x}) = Cardinality(A) + 1
  BY FS_AddElement
<1>2. IsFiniteSet(B) /\ Cardinality(B) <= Cardinality(A \cup {x})
  BY <1>1, FS_Subset
<1>3. Cardinality(A) \in Nat /\ Cardinality(B) \in Nat
  BY <1>2, FS_CardinalityType
<1>4. QED
  BY <1>1, <1>2, <1>3

\* What a step may do to the claims C, the pending reservations D and the
\* bookings E of one transfer that was run n times: a run is taken, its claim
\* becomes a request, the request becomes a booking, or something is dropped.
Moves(C, C1, D, D1, E, E1, n, n1) ==
    \/ C1 \subseteq C /\ D1 \subseteq D /\ E1 \subseteq E /\ n1 = n
    \/ (\E p : C1 \subseteq C \cup {p}) /\ D1 \subseteq D /\ E1 \subseteq E /\ n1 = n + 1
    \/ (\E p \in C : C1 \subseteq C \ {p}) /\ (\E w : D1 \subseteq D \cup {w})
          /\ E1 \subseteq E /\ n1 = n
    \/ C1 \subseteq C /\ (\E w \in D : D1 \subseteq D \ {w})
          /\ (\E b : E1 \subseteq E \cup {b}) /\ n1 = n

Covered(C, D, E, n) ==
    /\ IsFiniteSet(C) /\ IsFiniteSet(D) /\ IsFiniteSet(E)
    /\ Cardinality(C) + Cardinality(D) + Cardinality(E) <= n

LEMMA MovesCovered ==
    ASSUME NEW C, NEW C1, NEW D, NEW D1, NEW E, NEW E1, NEW n \in Nat, NEW n1 \in Nat,
           Covered(C, D, E, n), Moves(C, C1, D, D1, E, E1, n, n1)
    PROVE  Covered(C1, D1, E1, n1)
<1>0. IsFiniteSet(C) /\ IsFiniteSet(D) /\ IsFiniteSet(E)
  BY DEF Covered
<1>1. CASE C1 \subseteq C /\ D1 \subseteq D /\ E1 \subseteq E /\ n1 = n
  <2>1. IsFiniteSet(C1) /\ {Cardinality(C), Cardinality(C1)} \subseteq Nat
        /\ Cardinality(C1) <= Cardinality(C)
    BY <1>0, <1>1, FewerNext
  <2>2. IsFiniteSet(D1) /\ {Cardinality(D), Cardinality(D1)} \subseteq Nat
        /\ Cardinality(D1) <= Cardinality(D)
    BY <1>0, <1>1, FewerNext
  <2>3. IsFiniteSet(E1) /\ {Cardinality(E), Cardinality(E1)} \subseteq Nat
        /\ Cardinality(E1) <= Cardinality(E)
    BY <1>0, <1>1, FewerNext
  <2>4. QED
    BY <1>1, <2>1, <2>2, <2>3 DEF Covered
<1>2. CASE (\E p : C1 \subseteq C \cup {p}) /\ D1 \subseteq D /\ E1 \subseteq E /\ n1 = n + 1
  <2>1. IsFiniteSet(C1) /\ {Cardinality(C), Cardinality(C1)} \subseteq Nat
        /\ Cardinality(C1) <= Cardinality(C) + 1
    BY <1>0, <1>2, OneMore
  <2>2. IsFiniteSet(D1) /\ {Cardinality(D), Cardinality(D1)} \subseteq Nat
        /\ Cardinality(D1) <= Cardinality(D)
    BY <1>0, <1>2, FewerNext
  <2>3. IsFiniteSet(E1) /\ {Cardinality(E), Cardinality(E1)} \subseteq Nat
        /\ Cardinality(E1) <= Cardinality(E)
    BY <1>0, <1>2, FewerNext
  <2>4. QED
    BY <1>2, <2>1, <2>2, <2>3 DEF Covered
<1>3. CASE /\ \E p \in C : C1 \subseteq C \ {p}
           /\ \E w : D1 \subseteq D \cup {w}
           /\ E1 \subseteq E /\ n1 = n
  <2>1. C1 \subseteq C /\ \E p \in C : p \notin C1
    BY <1>3
  <2>2. IsFiniteSet(C1) /\ {Cardinality(C), Cardinality(C1)} \subseteq Nat
        /\ Cardinality(C1) <= Cardinality(C) - 1
    BY <1>0, <2>1, FewerNext
  <2>3. IsFiniteSet(D1) /\ {Cardinality(D), Cardinality(D1)} \subseteq Nat
        /\ Cardinality(D1) <= Cardinality(D) + 1
    BY <1>0, <1>3, OneMore
  <2>4. IsFiniteSet(E1) /\ {Cardinality(E), Cardinality(E1)} \subseteq Nat
        /\ Cardinality(E1) <= Cardinality(E)
    BY <1>0, <1>3, FewerNext
  <2>5. QED
    BY <1>3, <2>2, <2>3, <2>4 DEF Covered
<1>4. CASE /\ C1 \subseteq C
           /\ \E w \in D : D1 \subseteq D \ {w}
           /\ \E b : E1 \subseteq E \cup {b}
           /\ n1 = n
  <2>1. D1 \subseteq D /\ \E w \in D : w \notin D1
    BY <1>4
  <2>2. IsFiniteSet(C1) /\ {Cardinality(C), Cardinality(C1)} \subseteq Nat
        /\ Cardinality(C1) <= Cardinality(C)
    BY <1>0, <1>4, FewerNext
  <2>3. IsFiniteSet(D1) /\ {Cardinality(D), Cardinality(D1)} \subseteq Nat
        /\ Cardinality(D1) <= Cardinality(D) - 1
    BY <1>0, <2>1, FewerNext
  <2>4. IsFiniteSet(E1) /\ {Cardinality(E), Cardinality(E1)} \subseteq Nat
        /\ Cardinality(E1) <= Cardinality(E) + 1
    BY <1>0, <1>4, OneMore
  <2>5. QED
    BY <1>4, <2>2, <2>3, <2>4 DEF Covered
<1>5. QED
  BY <1>1, <1>2, <1>3, <1>4 DEF Moves

LEMMA NextRunsCover ==
    ASSUME TransferTypeOK, IInv, CallOK, RunsCover, [TransferNext]_transferVars
    PROVE  RunsCover'
<1> USE DEF tasks, messages, history
<1>0. /\ TypeOK /\ RequestOK /\ TransferTypeOK' /\ NoTxn \notin Txns
      /\ \A p \in Procs : step[p] # "idle" => job[p] \in Txns
  BY NextTransferTypeOK, WalletAssumption DEF IInv, CallOK, TransferTypeOK
<1> DEFINE Step(t) == Moves(Claims(t), Claims(t)', Pending(t), Pending(t)',
                            BookingsOf(t), BookingsOf(t)', runs[t], runs'[t])
<1>a. ASSUME NEW t \in Txns, Step(t)
      PROVE  Covered(Claims(t)', Pending(t)', BookingsOf(t)', runs'[t])
  <2>1. runs[t] \in Nat /\ runs'[t] \in Nat
    BY <1>0 DEF TransferTypeOK
  <2>2. Covered(Claims(t), Pending(t), BookingsOf(t), runs[t])
    BY DEF RunsCover, Covered
  <2>3. QED
    BY <1>a, <2>1, <2>2, MovesCovered
<1>b. SUFFICES ASSUME NEW t \in Txns PROVE Step(t)
  BY <1>a DEF RunsCover, Covered
<1> DEFINE CSame == Claims(t)' \subseteq Claims(t) /\ runs'[t] = runs[t]
           DSame == Pending(t)' \subseteq Pending(t)
           ESame == BookingsOf(t)' \subseteq BookingsOf(t)
<1>1. ASSUME CSame, DSame, ESame
      PROVE  Step(t)
  BY <1>1 DEF Moves
<1>2. ASSUME UNCHANGED vars PROVE DSame /\ ESame
  BY <1>2 DEF vars, Pending, BookingsOf
<1>3. CASE \/ \E u \in Txns : Create(u) \/ CreateUnqueued(u)
           \/ Retry
           \/ NextMonth
           \/ UNCHANGED transferVars
  <2>1. UNCHANGED <<step, job, runs, vars>>
    BY <1>3 DEF Create, CreateUnqueued, Enqueue, Retry, NextMonth, transferVars
  <2>2. CSame
    BY <2>1 DEF Claims
  <2>3. QED
    BY <1>1, <1>2, <2>1, <2>2
<1>4. ASSUME NEW p \in Procs, NEW u \in Txns, Take(p, u)
      PROVE  Step(t)
  <2>1. /\ step[p] = "idle" /\ UNCHANGED vars
        /\ runs' = [runs EXCEPT ![u] = @ + 1]
        /\ \A q \in Procs : q # p => step'[q] = step[q] /\ job'[q] = job[q]
        /\ job'[p] = u \/ step'[p] = "idle"
    BY <1>4 DEF Take, TransferTypeOK
  <2>2. DSame /\ ESame
    BY <1>2, <2>1
  <2>3. CASE u = t
    <3>1. runs'[t] = runs[t] + 1
      BY <2>1, <2>3 DEF TransferTypeOK
    <3>2. Claims(t)' \subseteq Claims(t) \cup {p}
      BY <2>1 DEF Claims
    <3>3. QED
      BY <2>2, <3>1, <3>2 DEF Moves
  <2>4. CASE u # t
    <3>1. CSame
      BY <2>1, <2>4 DEF Claims, TransferTypeOK
    <3>2. QED
      BY <1>1, <2>2, <3>1
  <2>5. QED
    BY <2>3, <2>4
<1>5. ASSUME NEW p \in Procs, Local(p)
      PROVE  CSame /\ DSame /\ ESame
  <2>1. /\ UNCHANGED <<vars, runs>>
        /\ \A q \in Procs : q # p => step'[q] = step[q] /\ job'[q] = job[q]
        /\ \/ job'[p] = NoTxn
           \/ job'[p] = job[p] /\ step[p] = "start"
    BY <1>5 DEF Local, Validate, CallBlocked, CallLost, OnNoAnswer, Notify, WorkerLost, Save,
       End, Goon, TransferTypeOK
  <2>2. CSame
    BY <1>0, <2>1 DEF Claims
  <2>3. QED
    BY <1>2, <2>1, <2>2
<1>6. ASSUME NEW p \in Procs, NEW w \in Workers, CallReserve(p, w)
      PROVE  Step(t)
  <2>1. /\ step[p] = "reserve" /\ pc[w] = "idle"
        /\ step' = [step EXCEPT ![p] = "awaitReserve"]
        /\ pc' = [pc EXCEPT ![w] = "reserve"]
        /\ txn' = [txn EXCEPT ![w] = job[p]]
        /\ UNCHANGED <<job, runs, booking>>
    BY <1>6 DEF CallReserve, ReserveRequest, Goto, rows
  <2>2. ESame
    BY <2>1 DEF BookingsOf
  <2>3. Claims(t)' \subseteq Claims(t) \ {p}
    BY <2>1 DEF Claims, TransferTypeOK
  <2>4. Pending(t)' \subseteq Pending(t) \cup {w}
    BY <1>0, <2>1 DEF Pending, TypeOK
  <2>5. CASE job[p] = t
    <3>1. p \in Claims(t)
      BY <2>1, <2>5 DEF Claims
    <3>2. QED
      BY <2>1, <2>2, <2>3, <2>4, <3>1 DEF Moves
  <2>6. CASE job[p] # t
    <3>1. DSame
      BY <1>0, <2>1, <2>6 DEF Pending, TypeOK
    <3>2. QED
      BY <1>1, <2>1, <2>2, <2>3, <3>1
  <2>7. QED
    BY <2>5, <2>6
<1>7. ASSUME NEW p \in Procs, NEW w \in Workers, CallSettle(p, w)
      PROVE  CSame /\ DSame /\ ESame
  <2>1. /\ step' = [step EXCEPT ![p] = "awaitSettle"]
        /\ pc' = [pc EXCEPT ![w] = "settle"]
        /\ txn' = [txn EXCEPT ![w] = job[p]]
        /\ UNCHANGED <<job, runs, booking>>
    BY <1>7 DEF CallSettle, SettleRequest, Goto, rows
  <2>2. CSame
    BY <2>1 DEF Claims, TransferTypeOK
  <2>3. DSame
    BY <1>0, <2>1 DEF Pending, TypeOK
  <2>4. QED
    BY <2>1, <2>2, <2>3 DEF BookingsOf
<1>8. ASSUME NEW w \in Workers, Respond(w) \/ Crash(w)
      PROVE  DSame /\ ESame
  <2>1. /\ pc' = [pc EXCEPT ![w] = "idle"]
        /\ txn' = [txn EXCEPT ![w] = NoTxn]
        /\ UNCHANGED booking
    BY <1>8 DEF Respond, Crash, Reset, rows
  <2>2. QED
    BY <1>0, <2>1 DEF Pending, BookingsOf, TypeOK
<1>9. ASSUME NEW p \in Procs, ReserveAnswered(p) \/ SettleAnswered(p)
      PROVE  CSame /\ DSame /\ ESame
  <2>1. /\ UNCHANGED runs
        /\ \A q \in Procs : q # p => step'[q] = step[q] /\ job'[q] = job[q]
        /\ step'[p] \notin {"start", "reserve"}
    BY <1>9 DEF ReserveAnswered, SettleAnswered, Success, Save, End, Goon, TransferTypeOK
  <2>2. CSame
    BY <2>1 DEF Claims
  <2>3. \E w \in Workers : Respond(w)
    BY <1>9 DEF ReserveAnswered, SettleAnswered
  <2>4. QED
    BY <1>8, <2>2, <2>3
<1>10. ASSUME NEW w \in Workers, RespondToNobody(w) \/ WalletCrash(w)
       PROVE  CSame /\ DSame /\ ESame
  <2>1. UNCHANGED <<step, job, runs>>
    BY <1>10 DEF RespondToNobody, WalletCrash, transferState
  <2>2. CSame
    BY <2>1 DEF Claims
  <2>3. QED
    BY <1>8, <1>10, <2>2 DEF RespondToNobody, WalletCrash
<1>11. ASSUME NEW w \in Workers, WalletServes(w)
       PROVE  Step(t)
  <2>1. Serve(w) /\ UNCHANGED <<step, job, runs>>
    BY <1>11 DEF WalletServes, transferState
  <2>2. CSame
    BY <2>1 DEF Claims
  <2>3. DSame
    BY <1>0, <2>1, ServeEffect DEF Pending
  <2>4. ASSUME NEW b \in Bookings, booking'[b] # booking[b], booking'[b].txn # booking[b].txn
        PROVE  ReserveCommit(w) /\ b = held[w] /\ booking'[b].txn = txn[w]
    <3>1. ReserveCommit(w) \/ SettleCommit(w)
      BY <2>1, <2>4 DEF Serve, ReserveMissing, ReserveLock, ReserveRefuse, SettleFind,
         SettleMissing, SettleLock, SettleReject, SettleRead, rows
    <3>2. CASE SettleCommit(w)
      BY <1>0, <2>4, <3>2 DEF SettleCommit, TypeOK, BookingRow
    <3>3. CASE ReserveCommit(w)
      BY <1>0, <2>4, <3>3 DEF ReserveCommit, TypeOK
    <3>4. QED
      BY <3>1, <3>2, <3>3
  <2>5. CASE ReserveCommit(w) /\ txn[w] = t
    <3>1. pc[w] = "reserving" /\ pc' = [pc EXCEPT ![w] = "done"]
      BY <2>5 DEF ReserveCommit, Answer
    <3>2. w \in Pending(t) /\ Pending(t)' \subseteq Pending(t) \ {w}
      BY <1>0, <2>3, <2>5, <3>1 DEF Pending, TypeOK
    <3>3. BookingsOf(t)' \subseteq BookingsOf(t) \cup {held[w]}
      BY <2>4 DEF BookingsOf
    <3>4. QED
      BY <2>2, <3>2, <3>3 DEF Moves
  <2>6. CASE ~(ReserveCommit(w) /\ txn[w] = t)
    <3>1. ESame
      BY <2>4, <2>6 DEF BookingsOf
    <3>2. QED
      BY <1>1, <2>2, <2>3, <3>1
  <2>7. QED
    BY <2>5, <2>6
<1>12. QED
  BY <1>1, <1>3, <1>4, <1>5, <1>6, <1>7, <1>9, <1>10, <1>11
  DEF TransferNext, TaskStep, Local

-----------------------------------------------------------------------------
(* The inductive invariant                                                   *)

LEMMA InitTransferInv == TransferInit => TransferInv
<1> SUFFICES ASSUME TransferInit PROVE TransferInv
  OBVIOUS
<1>1. TransferTypeOK /\ IInv
  BY InitTransferTypeOK, InitIInv DEF TransferInit
<1>2. CallOK /\ ReplyOK /\ BegunOK /\ CompletedIsDebited
  BY TransferAssumption DEF TransferInit, Init, CallOK, ReplyOK, BegunOK, CompletedIsDebited
<1>3. \A t \in Txns : Claims(t) = {} /\ Pending(t) = {} /\ BookingsOf(t) = {} /\ runs[t] = 0
  BY WalletAssumption DEF TransferInit, Init, Claims, Pending, BookingsOf
<1>4. RunsCover
  BY <1>3, FS_EmptySet DEF RunsCover
<1>5. InitiatedIsUntouched
  BY <1>3 DEF InitiatedIsUntouched
<1>6. QED
  BY <1>1, <1>2, <1>4, <1>5 DEF TransferInv

LEMMA NextTransferInv == TransferInv /\ [TransferNext]_transferVars => TransferInv'
BY NextTransferTypeOK, NextCallOK, NextReplyOK, NextBegunOK, NextRunsCover,
   NextCompletedIsDebited, NextInitiatedIsUntouched DEF TransferInv

LEMMA TransferInvariant == TransferSpec => []TransferInv
BY InitTransferInv, NextTransferInv, PTL DEF TransferSpec

-----------------------------------------------------------------------------
(* Transfers that were queued once                                           *)

\* What a step does to one process: nothing (though its connection may break),
\* the end of its task, a new task, or the next step of its task.
LEMMA ProcStep ==
    ASSUME TransferTypeOK, [TransferNext]_transferVars, NEW p \in Procs
    PROVE  \/ /\ step'[p] = step[p] /\ job'[p] = job[p]
              /\ call'[p] = call[p] \/ call'[p] = NoWorker
           \/ step'[p] = "idle" /\ job'[p] = NoTxn
           \/ step[p] = "idle" /\ step'[p] = "start" /\ \E t \in Txns : Take(p, t) /\ job'[p] = t
           \/ /\ job'[p] = job[p]
              /\ \/ step[p] = "start" /\ step'[p] = "reserve"
                 \/ step[p] = "reserve" /\ step'[p] = "awaitReserve"
                 \/ step[p] = "awaitReserve" /\ step'[p] = "settle"
                 \/ step[p] = "settle" /\ step'[p] = "awaitSettle"
                 \/ step[p] = "awaitSettle" /\ step'[p] = "notify"
<1> USE DEF tasks, messages, history, TransferTypeOK
<1>1. CASE \/ \E t \in Txns : Create(t) \/ CreateUnqueued(t)
           \/ Retry
           \/ NextMonth
           \/ UNCHANGED transferVars
  BY <1>1 DEF Create, CreateUnqueued, Retry, NextMonth, transferVars
<1>2. ASSUME NEW q \in Procs, NEW t \in Txns, Take(q, t)
      PROVE  \/ step'[p] = step[p] /\ job'[p] = job[p] /\ call'[p] = call[p]
             \/ p = q /\ step[p] = "idle" /\ step'[p] = "start" /\ job'[p] = t
  BY <1>2 DEF Take
<1>3. ASSUME NEW q \in Procs,
             \/ CallBlocked(q) \/ CallLost(q) \/ Notify(q) \/ WorkerLost(q)
      PROVE  \/ step'[p] = step[p] /\ job'[p] = job[p] /\ call'[p] = call[p]
             \/ step'[p] = "idle" /\ job'[p] = NoTxn
  BY <1>3 DEF CallBlocked, CallLost, OnNoAnswer, Notify, WorkerLost, Save, End, Goon
<1>4. ASSUME NEW q \in Procs, Validate(q) \/ ReserveAnswered(q) \/ SettleAnswered(q)
      PROVE  \/ step'[p] = step[p] /\ job'[p] = job[p] /\ call'[p] = call[p]
             \/ step'[p] = "idle" /\ job'[p] = NoTxn
             \/ /\ job'[p] = job[p]
                /\ \/ step[p] = "start" /\ step'[p] = "reserve"
                   \/ step[p] = "awaitReserve" /\ step'[p] = "settle"
                   \/ step[p] = "awaitSettle" /\ step'[p] = "notify"
  BY <1>4 DEF Validate, ReserveAnswered, SettleAnswered, Save, End, Goon
<1>5. ASSUME NEW q \in Procs, NEW w \in Workers, CallReserve(q, w) \/ CallSettle(q, w)
      PROVE  \/ step'[p] = step[p] /\ job'[p] = job[p] /\ call'[p] = call[p]
             \/ /\ job'[p] = job[p]
                /\ \/ step[p] = "reserve" /\ step'[p] = "awaitReserve"
                   \/ step[p] = "settle" /\ step'[p] = "awaitSettle"
  BY <1>5 DEF CallReserve, CallSettle
<1>6. ASSUME NEW w \in Workers, WalletServes(w) \/ RespondToNobody(w) \/ WalletCrash(w)
      PROVE  /\ step'[p] = step[p] /\ job'[p] = job[p]
             /\ call'[p] = call[p] \/ call'[p] = NoWorker
  BY <1>6 DEF WalletServes, RespondToNobody, WalletCrash, transferState
<1>7. QED
  BY <1>1, <1>2, <1>3, <1>4, <1>5, <1>6 DEF TransferNext, TaskStep

\* What a step does to the status and to the messages of one transfer: its row
\* is created, with a message or without; a message is taken, or queued by the
\* retry of a transfer that is "processing"; or a process that works for the
\* transfer saves a status, which is the only step that may overwrite one.
LEMMA MessageStep ==
    ASSUME TransferTypeOK, CallOK, [TransferNext]_transferVars, NEW t \in Txns
    PROVE  \/ UNCHANGED <<status[t], queue[t], enqueued[t], runs[t], overwritten[t]>>
           \/ /\ status[t] = "absent" /\ status'[t] = "initiated" /\ runs'[t] = runs[t]
              /\ overwritten'[t] = overwritten[t]
              /\ \/ queue'[t] = queue[t] + 1 /\ enqueued'[t] = enqueued[t] + 1
                 \/ queue'[t] = queue[t] /\ enqueued'[t] = enqueued[t]
           \/ /\ status'[t] = status[t] /\ enqueued'[t] = enqueued[t]
              /\ queue[t] > 0 /\ queue'[t] = queue[t] - 1 /\ runs'[t] = runs[t] + 1
              /\ overwritten'[t] = overwritten[t]
           \/ /\ status[t] = "processing" /\ status'[t] = status[t] /\ runs'[t] = runs[t]
              /\ queue'[t] = queue[t] + 1 /\ enqueued'[t] = enqueued[t] + 1
              /\ overwritten'[t] = overwritten[t]
           \/ /\ UNCHANGED <<queue[t], enqueued[t], runs[t]>>
              /\ overwritten'[t] = overwritten[t] + (IF status[t] \in Final THEN 1 ELSE 0)
              /\ \E p \in Procs :
                    /\ job[p] = t /\ step[p] \notin {"idle", "notify"}
                    /\ \/ step'[p] = "reserve" /\ status'[t] = "validating"
                       \/ step'[p] = "settle" /\ status'[t] = "processing"
                       \/ step'[p] = "notify" /\ status'[t] = "completed"
                       \/ step'[p] = "idle" /\ status'[t] = "failed"
<1> USE DEF tasks, messages, history, TransferTypeOK
<1>0. \A p \in Procs : step[p] # "idle" => job[p] \in Txns
  BY DEF CallOK
<1>1. ASSUME NEW u \in Txns, Create(u) \/ CreateUnqueued(u)
      PROVE  \/ UNCHANGED <<status[t], queue[t], enqueued[t], runs[t], overwritten[t]>>
             \/ /\ status[t] = "absent" /\ status'[t] = "initiated" /\ runs'[t] = runs[t]
                /\ overwritten'[t] = overwritten[t]
                /\ \/ queue'[t] = queue[t] + 1 /\ enqueued'[t] = enqueued[t] + 1
                   \/ queue'[t] = queue[t] /\ enqueued'[t] = enqueued[t]
  BY <1>1 DEF Create, CreateUnqueued, Enqueue
<1>2. CASE Retry
  <2> DEFINE S == {u \in Txns : Stuck(u) /\ enqueued[u] < MaxEnqueued[u]}
  <2>1. /\ queue'[t] = queue[t] + (IF t \in S THEN 1 ELSE 0)
        /\ enqueued'[t] = enqueued[t] + (IF t \in S THEN 1 ELSE 0)
        /\ runs'[t] = runs[t] /\ status'[t] = status[t]
        /\ overwritten'[t] = overwritten[t]
    BY <1>2 DEF Retry, Enqueue
  <2>2. t \in S => status[t] = "processing"
    BY DEF Stuck
  <2>3. QED
    BY <2>1, <2>2
<1>3. ASSUME NEW p \in Procs, NEW u \in Txns, Take(p, u)
      PROVE  \/ UNCHANGED <<status[t], queue[t], enqueued[t], runs[t], overwritten[t]>>
             \/ /\ status'[t] = status[t] /\ enqueued'[t] = enqueued[t]
                /\ queue[t] > 0 /\ queue'[t] = queue[t] - 1 /\ runs'[t] = runs[t] + 1
                /\ overwritten'[t] = overwritten[t]
  BY <1>3 DEF Take
<1>4. ASSUME NEW p \in Procs, step[p] \notin {"idle", "notify"}, UNCHANGED messages,
             \/ Save(p, "validating", "reserve")
             \/ Save(p, "processing", "settle")
             \/ Save(p, "completed", "notify")
             \/ Save(p, "failed", "idle")
      PROVE  \/ UNCHANGED <<status[t], queue[t], enqueued[t], runs[t], overwritten[t]>>
             \/ /\ UNCHANGED <<queue[t], enqueued[t], runs[t]>>
                /\ overwritten'[t] = overwritten[t] + (IF status[t] \in Final THEN 1 ELSE 0)
                /\ job[p] = t /\ step[p] \notin {"idle", "notify"}
                /\ \/ step'[p] = "reserve" /\ status'[t] = "validating"
                   \/ step'[p] = "settle" /\ status'[t] = "processing"
                   \/ step'[p] = "notify" /\ status'[t] = "completed"
                   \/ step'[p] = "idle" /\ status'[t] = "failed"
  BY <1>0, <1>4 DEF Save, End, Goon
<1>5. ASSUME NEW p \in Procs,
             Validate(p) \/ CallBlocked(p) \/ CallLost(p) \/ ReserveAnswered(p) \/ SettleAnswered(p)
      PROVE  /\ step[p] \notin {"idle", "notify"}
             /\ UNCHANGED messages
             /\ \/ Save(p, "validating", "reserve")
                \/ Save(p, "processing", "settle")
                \/ Save(p, "completed", "notify")
                \/ Save(p, "failed", "idle")
  BY <1>5 DEF Validate, CallBlocked, CallLost, OnNoAnswer, ReserveAnswered, SettleAnswered,
     Success
<1>6. CASE \/ NextMonth
           \/ UNCHANGED transferVars
           \/ \E p \in Procs : Notify(p) \/ WorkerLost(p)
           \/ \E p \in Procs : \E w \in Workers : CallReserve(p, w) \/ CallSettle(p, w)
           \/ \E w \in Workers : WalletServes(w) \/ RespondToNobody(w) \/ WalletCrash(w)
  BY <1>6 DEF NextMonth, transferVars, Notify, WorkerLost, CallReserve, CallSettle,
     WalletServes, RespondToNobody, WalletCrash, transferState
<1>7. QED
  BY <1>1, <1>2, <1>3, <1>4, <1>5, <1>6 DEF TransferNext, TaskStep

LEMMA NextMessagesOK ==
    ASSUME TransferTypeOK, CallOK, MessagesOK, [TransferNext]_transferVars
    PROVE  MessagesOK'
<1> USE DEF TransferTypeOK
<1>1. ASSUME NEW t \in Txns
      PROVE  /\ queue'[t] + runs'[t] = enqueued'[t]
             /\ status'[t] = "absent" => enqueued'[t] = 0
             /\ Begun(t)' => runs'[t] > 0
             /\ runs'[t] >= runs[t]
  <2>1. /\ queue[t] + runs[t] = enqueued[t]
        /\ status[t] = "absent" => enqueued[t] = 0
        /\ Begun(t) => runs[t] > 0
        /\ queue[t] \in Nat /\ runs[t] \in Nat /\ enqueued[t] \in Nat
    BY DEF MessagesOK
  <2>2. \A p \in Procs : job[p] = t /\ step[p] # "idle" => runs[t] > 0
    BY DEF MessagesOK
  <2>3. QED
    BY <2>1, <2>2, MessageStep DEF Begun
<1>2. ASSUME NEW p \in Procs
      PROVE  IF step'[p] = "idle" THEN job'[p] = NoTxn ELSE runs'[job'[p]] > 0
  <2>1. IF step[p] = "idle" THEN job[p] = NoTxn ELSE job[p] \in Txns /\ runs[job[p]] > 0
    BY DEF MessagesOK, CallOK
  <2>2. ASSUME NEW t \in Txns, Take(p, t) PROVE runs'[t] > 0
    BY <2>2 DEF Take
  <2>3. \A t \in Txns : runs[t] > 0 => runs'[t] > 0
    BY <1>1, NextTaskTypeOK DEF TaskTypeOK
  <2>4. QED
    BY <2>1, <2>2, <2>3, ProcStep
<1>3. QED
  BY <1>1, <1>2 DEF MessagesOK, Begun

\* Before its task is taken a transfer has no process.
LEMMA NotTaken ==
    ASSUME TransferTypeOK, CallOK, MessagesOK, NEW t \in Txns, runs[t] = 0
    PROVE  ~Begun(t) /\ \A p \in Procs : job[p] # t
BY WalletAssumption DEF TransferTypeOK, CallOK, MessagesOK

LEMMA NextOnceOK ==
    ASSUME TransferTypeOK, CallOK, MessagesOK, OnceOK, [TransferNext]_transferVars
    PROVE  OnceOK'
<1> USE DEF TransferTypeOK
<1>1. SUFFICES ASSUME NEW t \in Txns, enqueued'[t] = 1
               PROVE  /\ \A p, q \in Procs : job'[p] = t /\ job'[q] = t => p = q
                      /\ status'[t] \in Final => \A p \in Procs : job'[p] = t => step'[p] = "notify"
  BY DEF OnceOK
<1>2. /\ queue[t] + runs[t] = enqueued[t]
      /\ queue[t] \in Nat /\ runs[t] \in Nat /\ enqueued[t] \in Nat
      /\ status[t] = "absent" => enqueued[t] = 0
      /\ Begun(t) => runs[t] > 0
  BY DEF MessagesOK
<1>3. ASSUME NEW p \in Procs, job'[p] = t, job[p] # t
      PROVE  step[p] = "idle" /\ Take(p, t)
  BY <1>3, ProcStep, WalletAssumption
<1>4. ASSUME NEW p \in Procs, Take(p, t)
      PROVE  /\ enqueued[t] = 1 /\ runs[t] = 0 /\ status'[t] = status[t]
             /\ \A q \in Procs \ {p} : job'[q] = job[q]
  <2>1. /\ queue[t] > 0 /\ UNCHANGED <<enqueued, status>>
        /\ \A q \in Procs \ {p} : job'[q] = job[q]
    BY <1>4 DEF Take
  <2>2. QED
    BY <1>1, <1>2, <2>1
<1>5. CASE runs[t] = 0
  <2>1. ~Begun(t) /\ \A p \in Procs : job[p] # t
    BY <1>5, NotTaken
  <2>2. \A p, q \in Procs : job'[p] = t /\ job'[q] = t => p = q
    BY <1>3, <1>4, <2>1
  <2>3. status'[t] \notin Final
    BY <2>1, MessageStep DEF Begun, Final
  <2>4. QED
    BY <2>2, <2>3
<1>6. CASE runs[t] # 0
  <2>1. enqueued[t] = 1
    BY <1>1, <1>2, <1>6, MessageStep
  <2>2. \A p \in Procs : job'[p] = t => job[p] = t
    BY <1>3, <1>4, <1>6
  <2>3. \A p, q \in Procs : job[p] = t /\ job[q] = t => p = q
    BY <2>1 DEF OnceOK
  <2>4. ASSUME NEW p \in Procs, job'[p] = t, status'[t] \in Final
        PROVE  step'[p] = "notify"
    <3>1. job[p] = t
      BY <2>2, <2>4
    <3>2. step'[p] # "idle"
      BY <2>4, <3>1, ProcStep, WalletAssumption DEF MessagesOK
    <3>3. CASE status'[t] = status[t]
      <4>1. step[p] = "notify"
        BY <2>1, <2>4, <3>1, <3>3 DEF OnceOK
      <4>2. QED
        BY <2>4, <3>1, <3>2, <4>1, ProcStep
    <3>4. CASE status'[t] # status[t]
      <4>1. PICK q \in Procs : /\ job[q] = t
                               /\ step'[q] = "notify" \/ step'[q] = "idle"
        BY <2>4, <3>4, MessageStep DEF Final
      <4>2. q = p
        BY <2>3, <3>1, <4>1
      <4>3. QED
        BY <3>2, <4>1, <4>2
    <3>5. QED
      BY <3>3, <3>4
  <2>5. QED
    BY <2>2, <2>3, <2>4
<1>7. QED
  BY <1>5, <1>6

\* A request thread starts to settle a transfer when a process calls it.
LEMMA SettlingStep ==
    ASSUME TransferTypeOK, IInv, CallOK, [TransferNext]_transferVars,
           NEW t \in Txns, NEW w \in Settling(t)'
    PROVE  \/ w \in Settling(t)
           \/ \E p \in Procs : /\ step[p] = "settle" /\ step'[p] = "awaitSettle"
                               /\ job[p] = t /\ call'[p] = w
<1> DEFINE Works(v) == pc[v] \in {"settle", "found", "settling", "updating"}
<1> USE DEF TransferTypeOK, TypeOK
<1>0. w \in Workers /\ Works(w)' /\ txn'[w] = t /\ NoTxn \notin Txns
  BY WalletAssumption DEF Settling
<1>1. ASSUME NEW p \in Procs, NEW v \in Workers, CallSettle(p, v)
      PROVE  \/ v # w /\ pc'[w] = pc[w] /\ txn'[w] = txn[w]
             \/ /\ step[p] = "settle" /\ step'[p] = "awaitSettle"
                /\ job[p] = t /\ call'[p] = w
  BY <1>0, <1>1 DEF CallSettle, SettleRequest, Goto
<1>2. ASSUME NEW p \in Procs, NEW v \in Workers, CallReserve(p, v)
      PROVE  v # w /\ pc'[w] = pc[w] /\ txn'[w] = txn[w]
  BY <1>0, <1>2 DEF CallReserve, ReserveRequest, Goto
<1>3. ASSUME NEW v \in Workers, Respond(v) \/ Crash(v)
      PROVE  pc'[w] = pc[w] /\ txn'[w] = txn[w]
  BY <1>0, <1>3 DEF Respond, Crash, Reset
<1>4. ASSUME NEW v \in Workers, Serve(v)
      PROVE  Works(w) /\ txn'[w] = txn[w]
  <2>1. CASE v = w
    BY <1>0, <1>4, <2>1 DEF Serve, ReserveMissing, ReserveLock, ReserveRefuse, ReserveCommit,
       SettleFind, SettleMissing, SettleLock, SettleReject, SettleRead, SettleCommit,
       Goto, Answer
  <2>2. CASE v # w
    BY <1>0, <1>4, <2>2, ServeEffect
  <2>3. QED
    BY <2>1, <2>2
<1>5. CASE UNCHANGED vars
  BY <1>0, <1>5 DEF vars, Settling
<1>6. QED
  BY <1>0, <1>1, <1>2, <1>3, <1>4, <1>5
  DEF TransferNext, TaskStep, Create, CreateUnqueued, Retry, NextMonth, Take, Validate,
      CallBlocked, CallLost, Notify, WorkerLost, ReserveAnswered, SettleAnswered,
      WalletServes, RespondToNobody, WalletCrash, transferVars, Settling

\* A transfer is paid by a request thread that settles it, and that says so.
LEMMA PaidStep ==
    ASSUME TypeOK, RequestOK, [Next]_vars, NEW t \in Txns,
           CommittedOf(t) = {}, CommittedOf(t)' # {}
    PROVE  \E w \in Settling(t) : reply'[w] = "ok"
<1>1. PICK b \in Bookings : booking'[b].txn = t /\ booking'[b].state = "committed"
  BY DEF CommittedOf, BookingsOf
<1>2. booking'[b] # booking[b]
  BY <1>1 DEF CommittedOf, BookingsOf
<1>3. \E w \in Workers : ReserveCommit(w) \/ SettleCommit(w)
  BY <1>2 DEF Next, Serve, Arrive, Respond, Crash, Reset, Expire, ExpiryPass, ExpiryAbort,
     ReserveRequest, SettleRequest, ReserveMissing, ReserveLock, ReserveRefuse,
     SettleFind, SettleMissing, SettleLock, SettleReject, SettleRead, rows, vars
<1>4. ASSUME NEW w \in Workers, ReserveCommit(w) PROVE FALSE
  BY <1>1, <1>2, <1>4 DEF ReserveCommit, TypeOK
<1>5. ASSUME NEW w \in Workers, SettleCommit(w)
      PROVE  w \in Settling(t) /\ reply'[w] = "ok"
  <2>1. /\ pc[w] = "updating" /\ held[w] \in Bookings
        /\ booking[held[w]].txn = txn[w]
        /\ booking' = [booking EXCEPT ![held[w]].state = "committed"]
        /\ reply' = [reply EXCEPT ![w] = "ok"]
    BY <1>5 DEF SettleCommit, Answer, RequestOK
  <2>2. held[w] = b /\ booking'[b].txn = booking[b].txn
    BY <1>2, <2>1 DEF TypeOK, BookingRow
  <2>3. QED
    BY <1>1, <2>1, <2>2 DEF Settling, TypeOK
<1>6. QED
  BY <1>3, <1>4, <1>5

\* The answer to a settle call is not taken back while its process waits.
LEMMA AnswerStays ==
    ASSUME TransferTypeOK, CallOK, ReplyOK, [TransferNext]_transferVars, NEW p \in Procs,
           step[p] = "awaitSettle", step'[p] = "awaitSettle",
           call'[p] # NoWorker, reply[call[p]] = "ok"
    PROVE  reply'[call'[p]] = "ok"
<1> USE DEF TransferTypeOK, TypeOK
<1>1. call'[p] = call[p] /\ call[p] \in Workers /\ pc[call[p]] = "done"
  BY ProcStep DEF ReplyOK
<1>2. ASSUME NEW v \in Workers, v # call[p] \/ pc[v] # "done",
             Respond(v) \/ Crash(v) \/ Serve(v) \/ Arrive(v)
      PROVE  reply'[call[p]] = reply[call[p]]
  <2>1. v # call[p]
    BY <1>1, <1>2
  <2>2. CASE Respond(v) \/ Crash(v)
    BY <1>1, <2>1, <2>2 DEF Respond, Crash, Reset
  <2>3. CASE Serve(v)
    BY <1>1, <2>1, <2>3, ServeEffect
  <2>4. CASE Arrive(v)
    BY <2>4 DEF Arrive, ReserveRequest, SettleRequest
  <2>5. QED
    BY <1>2, <2>2, <2>3, <2>4
<1>3. ASSUME NEW q \in Procs, ReserveAnswered(q) \/ SettleAnswered(q)
      PROVE  call[q] \in Workers /\ Respond(call[q]) /\ call[q] # call[p]
  <2>1. call[q] \in Workers /\ Respond(call[q])
    BY <1>3 DEF ReserveAnswered, SettleAnswered
  <2>2. q # p
    BY <1>3 DEF ReserveAnswered, SettleAnswered, Save, End, Goon
  <2>3. QED
    BY <1>1, <2>1, <2>2, TransferAssumption DEF CallOK
<1>4. ASSUME NEW q \in Procs, NEW v \in Workers, CallReserve(q, v) \/ CallSettle(q, v)
      PROVE  Arrive(v) /\ pc[v] # "done"
  BY <1>4 DEF CallReserve, CallSettle, Arrive, CallOK, ReserveRequest, SettleRequest
<1>5. ASSUME NEW v \in Workers, RespondToNobody(v) \/ WalletCrash(v)
      PROVE  v # call[p] /\ (Respond(v) \/ Crash(v))
  BY <1>1, <1>5, TransferAssumption DEF RespondToNobody, WalletCrash
<1>6. ASSUME NEW v \in Workers, WalletServes(v)
      PROVE  Serve(v) /\ pc[v] # "done"
  BY <1>6 DEF WalletServes, Serve, ReserveMissing, ReserveLock, ReserveRefuse, ReserveCommit,
     SettleFind, SettleMissing, SettleLock, SettleReject, SettleRead, SettleCommit
<1>7. CASE UNCHANGED vars
  BY <1>1, <1>7 DEF vars
<1>8. QED
  BY <1>1, <1>2, <1>3, <1>4, <1>5, <1>6, <1>7
  DEF TransferNext, TaskStep, Create, CreateUnqueued, Retry, NextMonth, Take, Validate,
      CallBlocked, CallLost, Notify, WorkerLost, transferVars

\* A status becomes "failed" when a call is blocked, refused or without answer.
LEMMA FailedStep ==
    ASSUME TransferTypeOK, CallOK, [TransferNext]_transferVars, NEW t \in Txns,
           status[t] # "failed", status'[t] = "failed", t \notin unanswered'
    PROVE  \E p \in Procs :
              /\ job[p] = t /\ step'[p] = "idle"
              /\ \/ step[p] \in {"reserve", "awaitReserve", "settle"}
                 \/ /\ step[p] = "awaitSettle" /\ call[p] \in Workers
                    /\ pc[call[p]] = "done" /\ reply[call[p]] # "ok"
<1> USE DEF TransferTypeOK
<1>0. \A p \in Procs : step[p] # "idle" => job[p] \in Txns
  BY DEF CallOK
<1>1. ASSUME NEW p \in Procs, Save(p, "failed", "idle")
      PROVE  job[p] = t /\ step'[p] = "idle"
  BY <1>1 DEF Save, End
<1>2. ASSUME NEW p \in Procs, NEW s, NEW to, Save(p, s, to), s # "failed"
      PROVE  FALSE
  BY <1>2 DEF Save
<1>3. ASSUME NEW p \in Procs, CallBlocked(p)
      PROVE  /\ job[p] = t /\ step'[p] = "idle"
             /\ step[p] \in {"reserve", "awaitReserve", "settle"}
  BY <1>1, <1>3 DEF CallBlocked
<1>4. ASSUME NEW p \in Procs, ReserveAnswered(p)
      PROVE  /\ job[p] = t /\ step'[p] = "idle"
             /\ step[p] \in {"reserve", "awaitReserve", "settle"}
  BY <1>1, <1>2, <1>4 DEF ReserveAnswered
<1>5. ASSUME NEW p \in Procs, SettleAnswered(p)
      PROVE  /\ job[p] = t /\ step'[p] = "idle"
             /\ step[p] = "awaitSettle" /\ call[p] \in Workers
             /\ pc[call[p]] = "done" /\ reply[call[p]] # "ok"
  BY <1>1, <1>2, <1>5 DEF SettleAnswered, Success, Respond, Accepted
<1>6. ASSUME NEW p \in Procs, CallLost(p)
      PROVE  FALSE
  BY <1>1, <1>6 DEF CallLost, OnNoAnswer
<1>7. ASSUME NEW p \in Procs, Validate(p)
      PROVE  FALSE
  BY <1>2, <1>7 DEF Validate
<1>8. ASSUME NEW u \in Txns, Create(u) \/ CreateUnqueued(u)
      PROVE  FALSE
  BY <1>8 DEF Create, CreateUnqueued
<1>9. CASE \/ Retry
           \/ NextMonth
           \/ UNCHANGED transferVars
           \/ \E p \in Procs : \E u \in Txns : Take(p, u)
           \/ \E p \in Procs : Notify(p) \/ WorkerLost(p)
           \/ \E p \in Procs : \E w \in Workers : CallReserve(p, w) \/ CallSettle(p, w)
           \/ \E w \in Workers : WalletServes(w) \/ RespondToNobody(w) \/ WalletCrash(w)
  BY <1>9 DEF Retry, NextMonth, transferVars, Take, Notify, WorkerLost, CallReserve,
     CallSettle, WalletServes, RespondToNobody, WalletCrash, transferState
<1>10. QED
  BY <1>3, <1>4, <1>5, <1>6, <1>7, <1>8, <1>9 DEF TransferNext, TaskStep

LEMMA UnansweredGrows ==
    ASSUME [TransferNext]_transferVars
    PROVE  unanswered \subseteq unanswered'
BY DEF TransferNext, TaskStep, Create, CreateUnqueued, Retry, NextMonth, Take, Validate,
   CallReserve, CallSettle, ReserveAnswered, SettleAnswered, CallLost, CallBlocked, Notify,
   WorkerLost, WalletServes, RespondToNobody, WalletCrash, transferState, transferVars, history

\* Nothing is paid for an unpaid transfer before a process asks for it.
LEMMA UnpaidStays ==
    ASSUME TransferTypeOK, IInv, CallOK, [TransferNext]_transferVars,
           NEW t \in Txns, Unpaid(t),
           \A p \in Procs : job[p] = t => ~(step[p] = "settle" /\ step'[p] = "awaitSettle")
    PROVE  Unpaid(t)'
<1>1. TypeOK /\ RequestOK /\ [Next]_vars
  BY WalletStep DEF IInv
<1>2. Settling(t)' = {}
  BY SettlingStep DEF Unpaid
<1>3. CommittedOf(t)' = {}
  BY <1>1, PaidStep DEF Unpaid
<1>4. QED
  BY <1>2, <1>3 DEF Unpaid, CommittedOf, BookingsOf, Settling

LEMMA NextSettlingBegun ==
    ASSUME TransferTypeOK, IInv, CallOK, BegunOK, SettlementKnown, [TransferNext]_transferVars
    PROVE  \A t \in Txns : Settling(t)' # {} => Begun(t)'
<1> SUFFICES ASSUME NEW t \in Txns, Settling(t)' # {} PROVE Begun(t)'
  OBVIOUS
<1>1. PICK w : w \in Settling(t)'
  OBVIOUS
<1>2. Begun(t)
  BY <1>1, SettlingStep DEF SettlementKnown, BegunOK
<1>3. QED
  BY <1>2, BegunStays

\* A transfer whose task is about to be taken for the only time is unpaid.
LEMMA NotTakenUnpaid ==
    ASSUME TransferTypeOK, CallOK, MessagesOK, InitiatedIsUntouched, SettlementKnown,
           NEW t \in Txns, runs[t] = 0
    PROVE  Unpaid(t)
<1>1. ~Begun(t)
  BY NotTaken
<1>2. Settling(t) = {}
  BY <1>1 DEF SettlementKnown
<1>3. BookingsOf(t) = {}
  BY <1>1 DEF InitiatedIsUntouched, Begun
<1>4. QED
  BY <1>2, <1>3 DEF Unpaid, CommittedOf

LEMMA NextSettlementKnown ==
    ASSUME TransferInv, MessagesOK, OnceOK, SettlementKnown, [TransferNext]_transferVars
    PROVE  SettlementKnown'
<1> USE DEF TransferInv
<1>1. SUFFICES ASSUME NEW t \in Txns, enqueued'[t] = 1, t \notin unanswered'
               PROVE  /\ status'[t] = "failed" => Unpaid(t)'
                      /\ \A p \in Procs : job'[p] = t =>
                            /\ step'[p] \in {"start", "reserve", "awaitReserve", "settle"}
                                  => Unpaid(t)'
                            /\ step'[p] = "awaitSettle" /\ call'[p] # NoWorker =>
                                  /\ Settling(t)' \subseteq {call'[p]}
                                  /\ reply'[call'[p]] # "ok" => CommittedOf(t)' = {}
  BY NextSettlingBegun DEF SettlementKnown, Unpaid, CommittedOf, BookingsOf, Settling, Begun
<1>2. TypeOK /\ RequestOK /\ [Next]_vars /\ NoTxn \notin Txns
  BY WalletStep, WalletAssumption DEF IInv
<1>3. /\ queue[t] + runs[t] = enqueued[t]
      /\ queue[t] \in Nat /\ runs[t] \in Nat /\ enqueued[t] \in Nat
      /\ status[t] = "absent" => enqueued[t] = 0
      /\ Begun(t) => runs[t] > 0
  BY DEF MessagesOK, TransferTypeOK
<1>4. CASE runs[t] = 0
  <2>1. ~Begun(t) /\ \A p \in Procs : job[p] # t
    BY <1>4, NotTaken
  <2>2. Unpaid(t)'
    BY <1>4, <2>1, NotTakenUnpaid, UnpaidStays
  <2>3. ASSUME NEW p \in Procs, job'[p] = t PROVE step'[p] # "awaitSettle"
    BY <1>2, <2>1, <2>3, ProcStep
  <2>4. QED
    BY <2>2, <2>3
<1>5. CASE runs[t] # 0
  <2>1. /\ enqueued[t] = 1
        /\ ~(queue[t] > 0)
    BY <1>1, <1>3, <1>5, MessageStep DEF TransferTypeOK
  <2>2. t \notin unanswered
    BY <1>1, UnansweredGrows
  <2>3. \A p, q \in Procs : job[p] = t /\ job[q] = t => p = q
    BY <2>1 DEF OnceOK
  <2>4. ASSUME NEW p \in Procs, job'[p] = t
        PROVE  job[p] = t
    <3>1. ~Take(p, t)
      BY <2>1 DEF Take
    <3>2. QED
      BY <1>2, <2>4, <3>1, ProcStep
  <2>5. ASSUME NEW p \in Procs, job[p] = t,
               step[p] # "settle" \/ step'[p] # "awaitSettle", Unpaid(t)
        PROVE  Unpaid(t)'
    <3>1. \A q \in Procs : job[q] = t => q = p
      BY <2>3, <2>5
    <3>2. QED
      BY <2>5, <3>1, UnpaidStays
  <2>6. ASSUME status'[t] = "failed" PROVE Unpaid(t)'
    <3>1. CASE status[t] = "failed"
      <4>1. Unpaid(t)
        BY <2>1, <2>2, <3>1 DEF SettlementKnown
      <4>2. \A p \in Procs : job[p] = t => step[p] = "notify"
        BY <2>1, <3>1 DEF OnceOK, Final
      <4>3. QED
        BY <4>1, <4>2, UnpaidStays
    <3>2. CASE status[t] # "failed"
      <4>1. PICK p \in Procs :
               /\ job[p] = t /\ step'[p] = "idle"
               /\ \/ step[p] \in {"reserve", "awaitReserve", "settle"}
                  \/ /\ step[p] = "awaitSettle" /\ call[p] \in Workers
                     /\ pc[call[p]] = "done" /\ reply[call[p]] # "ok"
        BY <1>1, <2>6, <3>2, FailedStep
      <4>2. Unpaid(t)
        BY <2>1, <2>2, <4>1, TransferAssumption DEF SettlementKnown, Unpaid, Settling
      <4>3. QED
        BY <2>5, <4>1, <4>2
    <3>3. QED
      BY <3>1, <3>2
  <2>7. ASSUME NEW p \in Procs, job'[p] = t,
               step'[p] \in {"start", "reserve", "awaitReserve", "settle"}
        PROVE  Unpaid(t)'
    <3>1. job[p] = t
      BY <2>4, <2>7
    <3>2. step[p] \in {"start", "reserve", "awaitReserve", "settle"}
      <4>1. step[p] # "idle"
        BY <1>2, <3>1 DEF MessagesOK
      <4>2. QED
        BY <1>2, <2>7, <4>1, ProcStep
    <3>3. Unpaid(t)
      BY <2>1, <2>2, <3>1, <3>2 DEF SettlementKnown
    <3>4. QED
      BY <2>5, <2>7, <3>1, <3>3
  <2>8. ASSUME NEW p \in Procs, job'[p] = t, step'[p] = "awaitSettle", call'[p] # NoWorker
        PROVE  /\ Settling(t)' \subseteq {call'[p]}
               /\ reply'[call'[p]] # "ok" => CommittedOf(t)' = {}
    <3>1. job[p] = t /\ \A q \in Procs : job[q] = t => q = p
      BY <2>3, <2>4, <2>8
    <3>2. \/ step[p] = "settle"
          \/ step[p] = "awaitSettle" /\ call'[p] = call[p]
      BY <1>2, <2>8, ProcStep
    <3>3. CASE step[p] = "settle"
      <4>1. Unpaid(t)
        BY <2>1, <2>2, <3>1, <3>3 DEF SettlementKnown
      <4>2. Settling(t)' \subseteq {call'[p]}
        BY <3>1, <4>1, SettlingStep DEF Unpaid
      <4>3. CommittedOf(t)' = {}
        BY <1>2, <4>1, PaidStep DEF Unpaid
      <4>4. QED
        BY <4>2, <4>3
    <3>4. CASE step[p] = "awaitSettle" /\ call'[p] = call[p]
      <4>1. /\ Settling(t) \subseteq {call[p]}
            /\ reply[call[p]] # "ok" => CommittedOf(t) = {}
        BY <2>1, <2>2, <2>8, <3>1, <3>4 DEF SettlementKnown
      <4>2. Settling(t)' \subseteq {call'[p]}
        BY <3>1, <3>4, <4>1, SettlingStep
      <4>3. ASSUME reply'[call'[p]] # "ok" PROVE CommittedOf(t)' = {}
        <5>1. reply[call[p]] # "ok"
          BY <2>8, <3>4, <4>3, AnswerStays
        <5>2. CommittedOf(t) = {}
          BY <4>1, <5>1
        <5>3. QED
          BY <1>2, <3>4, <4>1, <4>3, <5>2, PaidStep
      <4>4. QED
        BY <4>2, <4>3
    <3>5. QED
      BY <3>2, <3>3, <3>4
  <2>9. QED
    BY <2>6, <2>7, <2>8
<1>6. QED
  BY <1>4, <1>5

LEMMA InitOnceInv == TransferInit => OnceInv
<1> SUFFICES ASSUME TransferInit PROVE OnceInv
  OBVIOUS
<1>1. TransferInv
  BY InitTransferInv
<1>2. MessagesOK /\ OnceOK
  BY DEF TransferInit, MessagesOK, OnceOK, Begun
<1>3. \A t \in Txns : Settling(t) = {}
  BY DEF TransferInit, Init, Settling
<1>4. SettlementKnown
  BY <1>3 DEF TransferInit, SettlementKnown
<1>5. QED
  BY <1>1, <1>2, <1>4 DEF OnceInv

LEMMA NextOnceInv == OnceInv /\ [TransferNext]_transferVars => OnceInv'
<1> SUFFICES ASSUME OnceInv, [TransferNext]_transferVars PROVE OnceInv'
  OBVIOUS
<1>1. TransferInv' /\ MessagesOK'
  BY NextTransferInv, NextMessagesOK DEF OnceInv, TransferInv
<1>2. OnceOK'
  BY NextOnceOK DEF OnceInv, TransferInv
<1>3. SettlementKnown'
  BY NextSettlementKnown DEF OnceInv
<1>4. QED
  BY <1>1, <1>2, <1>3 DEF OnceInv

LEMMA OnceInvariant == TransferSpec => []OnceInv
BY InitOnceInv, NextOnceInv, PTL DEF TransferSpec

-----------------------------------------------------------------------------
(* Final statuses that are overwritten                                       *)

\* A run becomes a saver as it is taken, one at a time.
LEMMA SaversStep ==
    ASSUME TransferTypeOK, CallOK, [TransferNext]_transferVars, NEW t \in Txns
    PROVE  \/ Savers(t)' \subseteq Savers(t)
           \/ runs'[t] = runs[t] + 1 /\ \E p \in Procs : Savers(t)' \subseteq Savers(t) \cup {p}
<1>1. ASSUME NEW p \in Procs, p \in Savers(t)', p \notin Savers(t)
      PROVE  Take(p, t)
  <2>1. job'[p] = t /\ step'[p] \notin {"idle", "notify"}
    BY <1>1 DEF Savers
  <2>2. job[p] # t \/ step[p] \in {"idle", "notify"}
    BY <1>1 DEF Savers
  <2>3. QED
    BY <2>1, <2>2, ProcStep, WalletAssumption
<1>2. ASSUME NEW p \in Procs, Take(p, t)
      PROVE  runs'[t] = runs[t] + 1 /\ Savers(t)' \subseteq Savers(t) \cup {p}
  <2>1. /\ runs'[t] = runs[t] + 1
        /\ \A q \in Procs \ {p} : step'[q] = step[q] /\ job'[q] = job[q]
    BY <1>2 DEF Take, TransferTypeOK
  <2>2. QED
    BY <2>1 DEF Savers
<1>3. QED
  BY <1>1, <1>2 DEF Savers

LEMMA InitOverwrites == TransferInit => OverwritesCovered /\ OverwritesTakeRuns
<1> SUFFICES ASSUME TransferInit PROVE OverwritesCovered /\ OverwritesTakeRuns
  OBVIOUS
<1>1. \A t \in Txns : Savers(t) = {} /\ overwritten[t] = 0 /\ runs[t] = 0 /\ status[t] = "absent"
  BY DEF TransferInit, Savers
<1>2. OverwritesCovered
  BY <1>1, FS_EmptySet DEF OverwritesCovered, Final
<1>3. QED
  BY <1>1, <1>2 DEF OverwritesTakeRuns

LEMMA NextOverwrites ==
    TransferInv /\ OverwritesCovered /\ OverwritesTakeRuns /\ [TransferNext]_transferVars
        => OverwritesCovered' /\ OverwritesTakeRuns'
<1> SUFFICES ASSUME TransferInv, OverwritesCovered, OverwritesTakeRuns,
                    [TransferNext]_transferVars, NEW t \in Txns
             PROVE  /\ IsFiniteSet(Savers(t)')
                    /\ Cardinality(Savers(t)') + overwritten'[t]
                          + (IF status'[t] \in Final THEN 1 ELSE 0) <= runs'[t]
                    /\ overwritten'[t] > 0 => overwritten'[t] < runs'[t]
  BY DEF OverwritesCovered, OverwritesTakeRuns, Final
<1>0. TransferTypeOK /\ CallOK
  BY DEF TransferInv
<1>1. /\ IsFiniteSet(Savers(t))
      /\ Cardinality(Savers(t)) \in Nat /\ runs[t] \in Nat /\ overwritten[t] \in Nat
      /\ Cardinality(Savers(t)) + overwritten[t] + (IF status[t] \in Final THEN 1 ELSE 0)
            <= runs[t]
      /\ overwritten[t] > 0 => overwritten[t] < runs[t]
  BY <1>0, FS_CardinalityType DEF OverwritesCovered, OverwritesTakeRuns, TransferTypeOK
<1>2. CASE \E p \in Procs : /\ runs'[t] = runs[t] + 1
                            /\ Savers(t)' \subseteq Savers(t) \cup {p}
  <2>1. /\ IsFiniteSet(Savers(t)') /\ Cardinality(Savers(t)') \in Nat
        /\ Cardinality(Savers(t)') <= Cardinality(Savers(t)) + 1
    BY <1>1, <1>2, OneMore
  <2>2. overwritten'[t] = overwritten[t] /\ status'[t] = status[t]
    BY <1>0, <1>1, <1>2, MessageStep
  <2>3. QED
    BY <1>1, <1>2, <2>1, <2>2
<1>3. CASE Savers(t)' \subseteq Savers(t)
  <2>1. /\ IsFiniteSet(Savers(t)') /\ Cardinality(Savers(t)') \in Nat
        /\ Cardinality(Savers(t)') <= Cardinality(Savers(t))
        /\ \A p \in Savers(t) :
              p \notin Savers(t)' => Cardinality(Savers(t)') <= Cardinality(Savers(t)) - 1
    BY <1>1, <1>3, FewerNext
  <2>2. CASE /\ overwritten'[t] = overwritten[t]
             /\ runs'[t] \in {runs[t], runs[t] + 1}
             /\ status'[t] = status[t] \/ status'[t] = "initiated"
    BY <1>1, <2>1, <2>2 DEF Final
  <2>3. CASE /\ runs'[t] = runs[t]
             /\ overwritten'[t] = overwritten[t] + (IF status[t] \in Final THEN 1 ELSE 0)
             /\ \E p \in Procs :
                   /\ job[p] = t /\ step[p] \notin {"idle", "notify"}
                   /\ \/ status'[t] \notin Final
                      \/ step'[p] \in {"idle", "notify"}
    <3>1. PICK p \in Savers(t) : status'[t] \notin Final \/ p \notin Savers(t)'
      BY <2>3 DEF Savers
    <3>2. Cardinality(Savers(t)) >= 1
      BY <1>1, <3>1, FS_EmptySet
    <3>3. CASE status'[t] \notin Final
      BY <1>1, <2>1, <2>3, <3>2, <3>3
    <3>4. CASE p \notin Savers(t)'
      BY <1>1, <2>1, <2>3, <3>1, <3>2, <3>4
    <3>5. QED
      BY <3>1, <3>3, <3>4
  <2>4. QED
    BY <1>0, <2>2, <2>3, MessageStep DEF Final
<1>4. QED
  BY <1>0, <1>2, <1>3, SaversStep

-----------------------------------------------------------------------------
(* Theorems                                                                  *)

\* Rows, messages, tasks and requests are well typed at all times, and a task
\* that is busy has a transfer.
THEOREM TransferTypeCorrect == TransferSpec => []TransferTypeOK
<1>1. TransferInv => TransferTypeOK
  BY DEF TransferInv
<1>2. QED
  BY <1>1, TransferInvariant, PTL

\* Under the tasks of transaction_service the wallet service behaves as its own
\* specification says, with whatever is retried, cut off or abandoned: every
\* theorem about the wallet holds of the composition.
THEOREM TransferRefinesWallet == TransferSpec => Spec
<1>1. TransferInit => Init
  BY DEF TransferInit
<1>2. TransferInv /\ [TransferNext]_transferVars => [Next]_vars
  BY WalletStep DEF TransferInv
<1>3. QED
  BY <1>1, <1>2, TransferInvariant, PTL DEF TransferSpec, Spec

\* ... the one that holds while no copy of a wallet row is saved over another
\* request's among them: then tasks, retries and request threads together are
\* the ledger.
THEOREM TransferImplementsLedger ==
    TransferSpec /\ []CopiesAlone => ImplementsLedger
BY TransferRefinesWallet, AloneImplementsLedger, PTL

\* A transfer that is recorded as completed has been paid, for any number of
\* retries, processes and months, whatever was lost or answered late.
THEOREM CompletedTransfersArePaid == TransferSpec => []CompletedIsDebited
<1>1. TransferInv => CompletedIsDebited
  BY DEF TransferInv
<1>2. QED
  BY <1>1, TransferInvariant, PTL

\* A transfer whose row still says "initiated" has no booking.
THEOREM NothingBeforeValidation == TransferSpec => []InitiatedIsUntouched
<1>1. TransferInv => InitiatedIsUntouched
  BY DEF TransferInv
<1>2. QED
  BY <1>1, TransferInvariant, PTL

\* A transfer has at most as many bookings as its task was taken: one delivery
\* of the task reserves at most once, however its call ends.
THEOREM OneBookingPerRun == TransferSpec => []BookedOncePerRun
<1>1. TransferInv => BookedOncePerRun
  <2>1. SUFFICES ASSUME TransferInv, NEW t \in Txns
                 PROVE  Cardinality(BookingsOf(t)) <= runs[t]
    BY DEF BookedOncePerRun
  <2>2. /\ Cardinality(Claims(t)) \in Nat
        /\ Cardinality(Pending(t)) \in Nat
        /\ Cardinality(BookingsOf(t)) \in Nat
        /\ Cardinality(Claims(t)) + Cardinality(Pending(t)) + Cardinality(BookingsOf(t)) <= runs[t]
    BY <2>1, FS_CardinalityType DEF TransferInv, RunsCover
  <2>3. runs[t] \in Nat
    BY <2>1 DEF TransferInv, TransferTypeOK
  <2>4. QED
    BY <2>2, <2>3
<1>2. QED
  BY <1>1, TransferInvariant, PTL

\* A transfer whose task was queued once is paid at most once, however often its
\* call is cut off, answered late or left to a request thread: to pay it twice
\* takes the second queueing of retry_failed_transactions.
THEOREM QueuedOncePaidOnce ==
    TransferSpec => [](\A t \in Txns : enqueued[t] <= 1
                                          => Cardinality(CommittedOf(t)) <= 1)
<1>1. OnceInv /\ BookedOncePerRun
        => \A t \in Txns : enqueued[t] <= 1 => Cardinality(CommittedOf(t)) <= 1
  <2>1. SUFFICES ASSUME OnceInv, BookedOncePerRun, NEW t \in Txns, enqueued[t] <= 1
                 PROVE  Cardinality(CommittedOf(t)) <= 1
    OBVIOUS
  <2>2. /\ queue[t] + runs[t] = enqueued[t]
        /\ queue[t] \in Nat /\ runs[t] \in Nat /\ enqueued[t] \in Nat
    BY <2>1 DEF OnceInv, MessagesOK, TransferInv, TransferTypeOK
  <2>3. IsFiniteSet(BookingsOf(t)) /\ Cardinality(BookingsOf(t)) \in Nat
    BY <2>1, FS_CardinalityType DEF OnceInv, TransferInv, RunsCover
  <2>4. /\ Cardinality(CommittedOf(t)) <= Cardinality(BookingsOf(t))
        /\ Cardinality(CommittedOf(t)) \in Nat /\ Cardinality(BookingsOf(t)) \in Nat
    <3>1. CommittedOf(t) \in SUBSET BookingsOf(t)
      BY DEF CommittedOf
    <3>2. QED
      BY <2>3, <3>1, FS_Subset, FS_CardinalityType
  <2>5. Cardinality(BookingsOf(t)) <= runs[t]
    BY <2>1 DEF BookedOncePerRun
  <2>6. QED
    BY <2>1, <2>2, <2>4, <2>5
<1>2. QED
  BY <1>1, OnceInvariant, OneBookingPerRun, PTL

\* A transfer that failed although it was debited had a call without an answer
\* or was queued again: a plain refusal never costs money, whatever request
\* threads are still at work and whichever processes die.
THEOREM FailureIsExplained == TransferSpec => []FailedDebitIsExplained
<1>1. OnceInv => FailedDebitIsExplained
  <2>1. SUFFICES ASSUME OnceInv, NEW t \in Txns, status[t] = "failed", CommittedOf(t) # {},
                        t \notin unanswered
                 PROVE  enqueued[t] > 1
    BY DEF FailedDebitIsExplained
  <2>2. enqueued[t] # 1
    BY <2>1 DEF OnceInv, SettlementKnown, Unpaid
  <2>3. /\ runs[t] > 0
        /\ queue[t] + runs[t] = enqueued[t]
        /\ queue[t] \in Nat /\ runs[t] \in Nat /\ enqueued[t] \in Nat
    BY <2>1 DEF OnceInv, MessagesOK, TransferInv, TransferTypeOK, Begun
  <2>4. QED
    BY <2>2, <2>3
<1>2. QED
  BY <1>1, OnceInvariant, PTL

\* A final status is overwritten less often than the task of the transfer has
\* run, for any number of retries, processes and months, however their runs
\* overlap and wherever they die: every loss of a final status is paid for by a
\* run beyond the one whose status it was (OverwritesTakeRuns).
THEOREM OverwritesAreRuns == TransferSpec => []OverwritesTakeRuns
BY TransferInvariant, InitOverwrites, NextOverwrites, PTL DEF TransferSpec
=============================================================================
