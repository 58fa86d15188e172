--------------------------- MODULE ExchangeProofs ---------------------------
(***************************************************************************)
(* Proofs about what the system exchanges with the outside: the requests   *)
(* of clients, for every set of processes, clients and keys, and any       *)
(* number of months; the webhooks to merchants, for any number of messages *)
(* and endpoints, and any limit of attempts; and the exchange rates, for   *)
(* every set of readers, writers and admin forms, and any number of rates. *)
(***************************************************************************)
EXTENDS Requests, Notifications, RateCache, FiniteSetTheorems, TLAPS

Transfers == [id : Nat, key : Keys, month : Nat]

-----------------------------------------------------------------------------
(* Requests: type correctness                                                *)

LEMMA DefaultsTyped == AnyProcess \in Processes /\ NoRequest \in Requested
<1>1. AnyProcess \in Processes
  BY RequestsAssumption DEF AnyProcess
<1>2. PICK k \in Keys : TRUE
  BY RequestsAssumption
<1>3. [key |-> k, kind |-> "p2p"] \in Requested
  BY DEF Requested, Kinds
<1>4. NoRequest \in Requested
  BY <1>3 DEF NoRequest
<1>5. QED
  BY <1>1, <1>4

ServingOK ==
    /\ client \in [Clients -> ClientSteps]
    /\ server \in [Clients -> Processes]
    /\ request \in [Clients -> Requested]
    /\ own \in [Clients -> Nat]

LEMMA DoneTyped ==
  ASSUME RequestsTypeOK, NEW c \in Clients, Done(c)
  PROVE  ServingOK'
<1>1. "idle" \in ClientSteps
  BY DEF ClientSteps
<1>2. QED
  BY <1>1, DefaultsTyped DEF Done, RequestsTypeOK, ServingOK

LEMMA RequestsInitTyped == RequestsInit => RequestsTypeOK
BY DefaultsTyped DEF RequestsInit, RequestsTypeOK, ClientSteps

LEMMA RequestsNextTyped ==
  ASSUME RequestsTypeOK, IsFiniteSet(transfers), [RequestsNext]_requestVars
  PROVE  RequestsTypeOK'
<1> USE DEF RequestsTypeOK
<1>a. /\ "checked" \in ClientSteps /\ "queueing" \in ClientSteps
      /\ "charging" \in ClientSteps /\ "answering" \in ClientSteps
      /\ "idle" \in ClientSteps
  BY DEF ClientSteps
<1>1. ASSUME NEW c \in Clients, NEW p \in Processes, NEW q \in Requested,
             Receive(c, p, q)
      PROVE  RequestsTypeOK'
  BY <1>1, <1>a DEF Receive, On
<1>2. ASSUME NEW c \in Clients, NEW p \in Processes, NEW q \in Requested,
             Replay(c, p, q)
      PROVE  RequestsTypeOK'
  <2>1. q.key \in Keys /\ responses[p][q.key] \in Nat
    BY DEF Requested
  <2>2. QED
    BY <1>2, <2>1 DEF Replay, serving
<1>3. ASSUME NEW c \in Clients, CreateTransfer(c) PROVE RequestsTypeOK'
  <2>1. request[c].key \in Keys /\ Cardinality(transfers) + 1 \in Nat
    BY FS_CardinalityType DEF Requested
  <2>2. QED
    BY <1>3, <1>a, <2>1 DEF CreateTransfer, On
<1>4. ASSUME NEW c \in Clients, RefuseKey(c) \/ RequestFails(c) PROVE RequestsTypeOK'
  <2>1. ServingOK'
    BY <1>4, DoneTyped DEF RefuseKey, RequestFails
  <2>2. QED
    BY <1>4, <2>1 DEF RefuseKey, RequestFails, ServingOK
<1>5. ASSUME NEW c \in Clients, QueueTask(c) PROVE RequestsTypeOK'
  BY <1>5, <1>a DEF QueueTask, On
<1>6. ASSUME NEW c \in Clients, ChargeFee(c) PROVE RequestsTypeOK'
  BY <1>6, <1>a DEF ChargeFee, On
<1>7. ASSUME NEW c \in Clients, Respond(c) PROVE RequestsTypeOK'
  <2>1. ServingOK'
    BY <1>7, DoneTyped DEF Respond
  <2>2. request[c].key \in Keys /\ own[c] \in Nat /\ server[c] \in Processes
    BY DEF Requested
  <2>3. responses' \in [Processes -> [Keys -> Nat]]
    BY <1>7, <2>2 DEF Respond
  <2>4. answers' \subseteq [key : Keys, id : Nat]
    BY <1>7, <2>2 DEF Respond
  <2>5. QED
    BY <1>7, <2>1, <2>3, <2>4 DEF Respond, ServingOK
<1>8. ASSUME NEW p \in Processes, RestartProcess(p) PROVE RequestsTypeOK'
  <2>1. client' \in [Clients -> ClientSteps]
    BY <1>8, <1>a DEF RestartProcess
  <2>2. server' \in [Clients -> Processes]
    BY <1>8, DefaultsTyped DEF RestartProcess
  <2>3. request' \in [Clients -> Requested]
    BY <1>8, DefaultsTyped DEF RestartProcess
  <2>4. own' \in [Clients -> Nat]
    BY <1>8 DEF RestartProcess
  <2>5. responses' \in [Processes -> [Keys -> Nat]]
    BY <1>8 DEF RestartProcess
  <2>6. QED
    BY <1>8, <2>1, <2>2, <2>3, <2>4, <2>5 DEF RestartProcess
<1>9. ASSUME NEW p \in Processes, NEW k \in Keys, ForgetResponse(p, k)
      PROVE  RequestsTypeOK'
  BY <1>9 DEF ForgetResponse, serving
<1>10. CASE NextPeriod
  BY <1>10 DEF NextPeriod, serving
<1>11. CASE UNCHANGED requestVars
  BY <1>11 DEF requestVars, serving
<1>12. QED
  BY <1>1, <1>2, <1>3, <1>4, <1>5, <1>6, <1>7, <1>8, <1>9, <1>10, <1>11
     DEF RequestsNext

-----------------------------------------------------------------------------
(* Requests: the inductive invariant                                         *)

\* The rows are numbered, and a key is in a month's table once.
RowsOK ==
    /\ IsFiniteSet(transfers)
    /\ \A t \in transfers : t.id \in 1..Cardinality(transfers)
    /\ \A t, u \in transfers :
          t.id = u.id \/ (t.key = u.key /\ t.month = u.month) => t = u

\* What a request has done by now of what its answer is to promise.
OwnOK(c) ==
    /\ client[c] \in {"queueing", "charging", "answering"} =>
          \E t \in transfers : t.id = own[c] /\ t.key = request[c].key
    /\ client[c] \in {"charging", "answering"} => own[c] \in tasks
    /\ client[c] = "answering" => own[c] \in charged

\* A cached response has been given, and an answer kept its promise.
AnswersOK ==
    /\ \A p \in Processes, k \in Keys :
          responses[p][k] # 0 => [key |-> k, id |-> responses[p][k]] \in answers
    /\ \A a \in answers :
          /\ \E t \in transfers : t.id = a.id /\ t.key = a.key
          /\ a.id \in charged \cap tasks

RequestsInv ==
    /\ RequestsTypeOK
    /\ RowsOK
    /\ \A c \in Clients : OwnOK(c)
    /\ AnswersOK

LEMMA RequestsInitInv == RequestsInit => RequestsInv
<1>1. SUFFICES ASSUME RequestsInit PROVE RequestsInv
  OBVIOUS
<1>2. RowsOK
  BY <1>1, FS_EmptySet DEF RequestsInit, RowsOK
<1>3. \A c \in Clients : OwnOK(c)
  BY <1>1 DEF RequestsInit, OwnOK
<1>4. AnswersOK
  BY <1>1 DEF RequestsInit, AnswersOK
<1>5. QED
  BY <1>1, <1>2, <1>3, <1>4, RequestsInitTyped DEF RequestsInv

\* What a request has done is not undone by anybody.
LEMMA OthersKeep ==
  ASSUME RequestsInv, NEW c \in Clients,
         transfers \subseteq transfers', tasks \subseteq tasks', charged \subseteq charged',
         \/ client'[c] = client[c] /\ own'[c] = own[c] /\ request'[c] = request[c]
         \/ client'[c] \in {"idle", "checked"}
  PROVE  OwnOK(c)'
BY DEF RequestsInv, OwnOK

LEMMA AnswersKeep ==
  ASSUME RequestsInv,
         transfers \subseteq transfers', tasks \subseteq tasks', charged \subseteq charged',
         answers' = answers,
         \A p \in Processes, k \in Keys : responses'[p][k] \in {0, responses[p][k]}
  PROVE  AnswersOK'
<1>1. \A p \in Processes, k \in Keys :
          responses'[p][k] # 0 => [key |-> k, id |-> responses'[p][k]] \in answers'
  BY DEF RequestsInv, AnswersOK
<1>2. ASSUME NEW a \in answers'
      PROVE  /\ \E t \in transfers' : t.id = a.id /\ t.key = a.key
             /\ a.id \in charged' \cap tasks'
  BY DEF RequestsInv, AnswersOK
<1>3. QED
  BY <1>1, <1>2 DEF AnswersOK

LEMMA RowsKeep ==
  ASSUME RequestsInv, transfers' = transfers
  PROVE  RowsOK'
BY DEF RequestsInv, RowsOK

\* A request that ends, and one that goes on with the same transfer.
LEMMA DoneKeeps ==
  ASSUME RequestsInv, NEW c \in Clients, Done(c),
         transfers' = transfers, tasks' = tasks, charged' = charged
  PROVE  \A b \in Clients : OwnOK(b)'
<1>1. ASSUME NEW b \in Clients
      PROVE  \/ client'[b] = client[b] /\ own'[b] = own[b] /\ request'[b] = request[b]
             \/ client'[b] = "idle"
  BY DEF Done, RequestsInv, RequestsTypeOK
<1>2. QED
  BY <1>1, OthersKeep

LEMMA CreateKeeps ==
  ASSUME RequestsInv, NEW c \in Clients, CreateTransfer(c)
  PROVE  RowsOK' /\ (\A b \in Clients : OwnOK(b)') /\ AnswersOK'
<1> DEFINE new == [id |-> Cardinality(transfers) + 1, key |-> request[c].key,
                   month |-> period]
<1>1. /\ client[c] = "checked" /\ Unused(request[c].key)
      /\ transfers' = transfers \cup {new}
      /\ own' = [own EXCEPT ![c] = new.id]
      /\ client' = [client EXCEPT ![c] = "queueing"]
      /\ UNCHANGED <<period, charged, tasks, responses, server, request, answers>>
  BY DEF CreateTransfer, On
<1>2. /\ IsFiniteSet(transfers) /\ Cardinality(transfers) \in Nat
      /\ \A t \in transfers : t.id \in 1..Cardinality(transfers)
  BY FS_CardinalityType DEF RequestsInv, RowsOK
<1>3. new \notin transfers
  BY <1>2
<1>4. IsFiniteSet(transfers') /\ Cardinality(transfers') = Cardinality(transfers) + 1
  BY <1>1, <1>2, <1>3, FS_AddElement
<1>5. \A t \in transfers' : t.id \in 1..Cardinality(transfers')
  BY <1>1, <1>2, <1>4
<1>6. \A t, u \in transfers' :
          t.id = u.id \/ (t.key = u.key /\ t.month = u.month) => t = u
  <2>1. \A t \in transfers : t.id # new.id
    BY <1>2
  <2>2. \A t \in transfers : ~(t.key = new.key /\ t.month = new.month)
    BY <1>1 DEF Unused
  <2>3. \A t, u \in transfers :
            t.id = u.id \/ (t.key = u.key /\ t.month = u.month) => t = u
    BY DEF RequestsInv, RowsOK
  <2> HIDE DEF new
  <2>4. QED
    BY <1>1, <2>1, <2>2, <2>3
<1>7. RowsOK'
  BY <1>4, <1>5, <1>6 DEF RowsOK
<1>8. \A b \in Clients : OwnOK(b)'
  <2>1. /\ client'[c] = "queueing" /\ own'[c] = new.id
        /\ request'[c].key = new.key /\ new \in transfers'
    BY <1>1 DEF RequestsInv, RequestsTypeOK
  <2>2. OwnOK(c)'
    <3> HIDE DEF new
    <3>1. QED
      BY <2>1 DEF OwnOK
  <2>3. ASSUME NEW b \in Clients, b # c PROVE OwnOK(b)'
    <3>1. client'[b] = client[b] /\ own'[b] = own[b] /\ request'[b] = request[b]
      BY <1>1, <2>3 DEF RequestsInv, RequestsTypeOK
    <3>2. QED
      BY <1>1, <3>1, OthersKeep
  <2>4. QED
    BY <2>2, <2>3
<1>9. AnswersOK'
  BY <1>1, AnswersKeep
<1>10. QED
  BY <1>7, <1>8, <1>9

LEMMA RespondKeeps ==
  ASSUME RequestsInv, NEW c \in Clients, Respond(c)
  PROVE  AnswersOK'
<1> DEFINE k == request[c].key
           new == [key |-> k, id |-> own[c]]
<1>1. /\ client[c] = "answering" /\ answers' = answers \cup {new}
      /\ transfers' = transfers /\ charged' = charged /\ tasks' = tasks
      /\ responses' \in {responses, [responses EXCEPT ![server[c]][k] = own[c]]}
  BY DEF Respond
<1>2. /\ k \in Keys /\ server[c] \in Processes
      /\ responses \in [Processes -> [Keys -> Nat]]
  BY DEF RequestsInv, RequestsTypeOK, Requested
<1>3. /\ \E t \in transfers : t.id = own[c] /\ t.key = k
      /\ own[c] \in charged \cap tasks
  BY <1>1 DEF RequestsInv, OwnOK
<1>4. ASSUME NEW p \in Processes, NEW j \in Keys, responses'[p][j] # 0
      PROVE  [key |-> j, id |-> responses'[p][j]] \in answers'
  <2>1. responses'[p][j] = responses[p][j] \/ (j = k /\ responses'[p][j] = own[c])
    BY <1>1, <1>2
  <2>2. CASE responses'[p][j] = responses[p][j]
    BY <1>1, <1>4, <2>2 DEF RequestsInv, AnswersOK
  <2>3. CASE j = k /\ responses'[p][j] = own[c]
    BY <1>1, <2>3
  <2>4. QED
    BY <2>1, <2>2, <2>3
<1>5. ASSUME NEW a \in answers'
      PROVE  /\ \E t \in transfers' : t.id = a.id /\ t.key = a.key
             /\ a.id \in charged' \cap tasks'
  BY <1>1, <1>3 DEF RequestsInv, AnswersOK
<1>6. QED
  BY <1>4, <1>5 DEF AnswersOK

LEMMA RequestsNextInv == RequestsInv /\ [RequestsNext]_requestVars => RequestsInv'
<1> SUFFICES ASSUME RequestsInv, [RequestsNext]_requestVars PROVE RequestsInv'
  OBVIOUS
<1> DEFINE Goal == RowsOK' /\ (\A b \in Clients : OwnOK(b)') /\ AnswersOK'
<1>a. RequestsTypeOK'
  BY RequestsNextTyped DEF RequestsInv, RowsOK
<1>b. RequestsTypeOK
  BY DEF RequestsInv
<1>1. ASSUME NEW c \in Clients, NEW p \in Processes, NEW q \in Requested,
             Receive(c, p, q)
      PROVE  Goal
  <2>1. UNCHANGED <<transfers, charged, tasks, responses, own, answers>>
    BY <1>1 DEF Receive
  <2>2. ASSUME NEW b \in Clients
        PROVE  \/ client'[b] = client[b] /\ own'[b] = own[b] /\ request'[b] = request[b]
               \/ client'[b] = "checked"
    BY <1>1, <1>b DEF Receive, On, RequestsTypeOK
  <2>3. QED
    BY <2>1, <2>2, RowsKeep, OthersKeep, AnswersKeep
<1>2. ASSUME NEW c \in Clients, NEW p \in Processes, NEW q \in Requested,
             Replay(c, p, q)
      PROVE  Goal
  <2>1. /\ transfers' = transfers /\ charged' = charged /\ tasks' = tasks
        /\ client' = client /\ own' = own /\ request' = request
        /\ responses' = responses
    BY <1>2 DEF Replay, serving
  <2>2. answers' = answers
    <3>1. q.key \in Keys /\ responses[p][q.key] # 0
      BY <1>2 DEF Replay, Duplicate, Requested
    <3>2. [key |-> q.key, id |-> responses[p][q.key]] \in answers
      BY <3>1 DEF RequestsInv, AnswersOK
    <3>3. QED
      BY <1>2, <3>2 DEF Replay
  <2>3. QED
    BY <2>1, <2>2, RowsKeep, OthersKeep, AnswersKeep
<1>3. ASSUME NEW c \in Clients, CreateTransfer(c) PROVE Goal
  BY <1>3, CreateKeeps
<1>4. ASSUME NEW c \in Clients, RefuseKey(c) \/ RequestFails(c) PROVE Goal
  BY <1>4, DoneKeeps, RowsKeep, AnswersKeep DEF RefuseKey, RequestFails
<1>5. ASSUME NEW c \in Clients, QueueTask(c) PROVE Goal
  <2>1. /\ client[c] = "queueing" /\ client' = [client EXCEPT ![c] = "charging"]
        /\ tasks' = tasks \cup {own[c]}
        /\ UNCHANGED <<transfers, charged, responses, request, own, answers>>
    BY <1>5 DEF QueueTask, On
  <2>2. OwnOK(c)'
    BY <2>1, <1>b DEF RequestsInv, OwnOK, RequestsTypeOK
  <2>3. ASSUME NEW b \in Clients, b # c PROVE OwnOK(b)'
    BY <2>1, <2>3, <1>b, OthersKeep DEF RequestsTypeOK
  <2>4. QED
    BY <2>1, <2>2, <2>3, RowsKeep, AnswersKeep
<1>6. ASSUME NEW c \in Clients, ChargeFee(c) PROVE Goal
  <2>1. /\ client[c] = "charging" /\ client' = [client EXCEPT ![c] = "answering"]
        /\ charged' = charged \cup {own[c]}
        /\ UNCHANGED <<transfers, tasks, responses, request, own, answers>>
    BY <1>6 DEF ChargeFee, On
  <2>2. OwnOK(c)'
    BY <2>1, <1>b DEF RequestsInv, OwnOK, RequestsTypeOK
  <2>3. ASSUME NEW b \in Clients, b # c PROVE OwnOK(b)'
    BY <2>1, <2>3, <1>b, OthersKeep DEF RequestsTypeOK
  <2>4. QED
    BY <2>1, <2>2, <2>3, RowsKeep, AnswersKeep
<1>7. ASSUME NEW c \in Clients, Respond(c) PROVE Goal
  BY <1>7, DoneKeeps, RowsKeep, RespondKeeps DEF Respond
<1>8. ASSUME NEW p \in Processes, RestartProcess(p) PROVE Goal
  <2>1. UNCHANGED <<transfers, charged, tasks, answers>>
    BY <1>8 DEF RestartProcess
  <2>2. \A q \in Processes, k \in Keys : responses'[q][k] \in {0, responses[q][k]}
    BY <1>8, <1>b DEF RestartProcess, RequestsTypeOK
  <2>3. ASSUME NEW b \in Clients
        PROVE  \/ client'[b] = client[b] /\ own'[b] = own[b] /\ request'[b] = request[b]
               \/ client'[b] = "idle"
    BY <1>8 DEF RestartProcess
  <2>4. QED
    BY <2>1, <2>2, <2>3, RowsKeep, OthersKeep, AnswersKeep
<1>9. ASSUME NEW p \in Processes, NEW k \in Keys, ForgetResponse(p, k) PROVE Goal
  <2>1. /\ transfers' = transfers /\ charged' = charged /\ tasks' = tasks
        /\ client' = client /\ own' = own /\ request' = request
        /\ answers' = answers
    BY <1>9 DEF ForgetResponse, serving
  <2>2. \A q \in Processes, j \in Keys : responses'[q][j] \in {0, responses[q][j]}
    BY <1>9, <1>b DEF ForgetResponse, RequestsTypeOK
  <2>3. QED
    BY <2>1, <2>2, RowsKeep, OthersKeep, AnswersKeep
<1>10. ASSUME NextPeriod \/ UNCHANGED requestVars PROVE Goal
  <2>1. /\ transfers' = transfers /\ charged' = charged /\ tasks' = tasks
        /\ client' = client /\ own' = own /\ request' = request
        /\ answers' = answers /\ responses' = responses
    BY <1>10 DEF NextPeriod, requestVars, serving
  <2>2. RowsOK' /\ \A b \in Clients : OwnOK(b)'
    BY <2>1, RowsKeep, OthersKeep
  <2>3. AnswersOK'
    BY <2>1, AnswersKeep
  <2>4. QED
    BY <2>2, <2>3
<1> HIDE DEF Goal
<1>11. Goal
  BY <1>1, <1>2, <1>3, <1>4, <1>5, <1>6, <1>7, <1>8, <1>9, <1>10 DEF RequestsNext
<1>12. QED
  BY <1>a, <1>11 DEF RequestsInv, Goal

LEMMA RequestsInvariant == RequestsSpec => []RequestsInv
BY RequestsInitInv, RequestsNextInv, PTL DEF RequestsSpec

-----------------------------------------------------------------------------
(* Requests: theorems                                                        *)

\* Rows, caches and requests are well typed at all times: the number a request
\* takes along is always one of a row or none.
THEOREM RequestsTypeCorrect == RequestsSpec => []RequestsTypeOK
<1>1. RequestsInv => RequestsTypeOK
  BY DEF RequestsInv
<1>2. QED
  BY <1>1, RequestsInvariant, PTL

\* However requests with one Idempotency-Key race, in however many processes
\* with caches of their own, and whenever these restart or forget: all answers
\* of a month name one transfer, which has its fee and its task.
THEOREM AnswersNameOneTransfer == RequestsSpec => []AnswersAgree
<1>1. RequestsInv => AnswersAgree
  BY DEF RequestsInv, RowsOK, AnswersOK, AnswersAgree
<1>2. QED
  BY <1>1, RequestsInvariant, PTL

-----------------------------------------------------------------------------
(* Notifications: the inductive invariant                                    *)

\* Of one delivery: it is posted by its job at most once, never due for a
\* retry, and not stored before its job is there.
DeliveryOK(d) ==
    /\ job[d] \in {"none", "made", "queued", "posting"} => posts[d] = 0
    /\ posts[d] <= 1
    /\ outcome[d] = "accepted" => d \in accepted
    /\ Stored(d) => ~delivery[d].due
    /\ Stored(d) /\ delivery[d].status = "sent" => d \in accepted
    /\ Stored(d) /\ delivery[d].status = "pending" =>
          job[d] \in {"made", "queued", "posting", "saving", "lost"}
    /\ job[d] = "made" => trigger[d[1]] \in {"running", "lost"}

\* Of one message: what it is still to create is not there yet.
TriggerOK(m) ==
    /\ \A e \in targets[m] : job[<<m, e>>] = "none"
    /\ trigger[m] \in {"none", "queued"} =>
          \A e \in Endpoints : job[<<m, e>>] = "none"

HookInv ==
    /\ NotificationsTypeOK
    /\ \A d \in Deliveries : DeliveryOK(d)
    /\ \A m \in Messages : TriggerOK(m)

LEMMA PairsOf ==
    /\ \A m \in Messages, e \in Endpoints :
          <<m, e>> \in Deliveries /\ <<m, e>>[1] = m /\ <<m, e>>[2] = e
    /\ \A d \in Deliveries : d[1] \in Messages /\ d[2] \in Endpoints /\ d = <<d[1], d[2]>>
BY DEF Deliveries

LEMMA HookInitInv == NotificationsInit => HookInv
<1>1. SUFFICES ASSUME NotificationsInit PROVE HookInv
  OBVIOUS
<1>2. NotificationsTypeOK
  BY <1>1 DEF NotificationsInit, NotificationsTypeOK, JobSteps, Outcomes
<1>3. \A d \in Deliveries : DeliveryOK(d)
  BY <1>1, PairsOf DEF NotificationsInit, DeliveryOK, Stored
<1>4. \A m \in Messages : TriggerOK(m)
  BY <1>1, PairsOf DEF NotificationsInit, TriggerOK
<1>5. QED
  BY <1>2, <1>3, <1>4 DEF HookInv

\* Nothing is ever due: the retry pass finds no row.
LEMMA NothingDue == HookInv => Due = {}
BY DEF HookInv, DeliveryOK, Due

LEMMA RetryIdles ==
  ASSUME HookInv, RetryPass
  PROVE  UNCHANGED hookVars
<1>1. Due = {}
  BY NothingDue
<1>2. delivery' = delivery
  BY <1>1 DEF RetryPass, HookInv, NotificationsTypeOK
<1>3. posts' = posts
  BY <1>1 DEF RetryPass, Tried, HookInv, NotificationsTypeOK
<1>4. accepted' = accepted
  BY <1>1 DEF RetryPass
<1>5. QED
  BY <1>2, <1>3, <1>4 DEF RetryPass, hookVars, triggering, jobs, record

\* The deliveries of a step that concerns one job.
LEMMA OthersStay ==
  ASSUME HookInv, NEW d \in Deliveries, NEW to \in JobSteps, JobGoes(d, to)
  PROVE  /\ job' \in [Deliveries -> JobSteps]
         /\ job'[d] = to
         /\ \A b \in Deliveries : b # d => job'[b] = job[b]
BY DEF HookInv, NotificationsTypeOK, JobGoes

\* A job that is there already goes on without its message.
LEMMA TriggersStay ==
  ASSUME HookInv, NEW d \in Deliveries, job[d] # "none",
         \A b \in Deliveries : b # d => job'[b] = job[b],
         trigger' = trigger, targets' = targets
  PROVE  \A m \in Messages : TriggerOK(m)'
<1>1. ASSUME NEW m \in Messages, NEW e \in Endpoints, job[<<m, e>>] = "none"
      PROVE  job'[<<m, e>>] = "none"
  BY <1>1, PairsOf
<1>2. \A m \in Messages : targets[m] \subseteq Endpoints
  BY DEF HookInv, NotificationsTypeOK
<1>3. QED
  BY <1>1, <1>2 DEF HookInv, TriggerOK

\* A delivery that the step does not concern.
LEMMA DeliveryStays ==
  ASSUME HookInv, NEW b \in Deliveries,
         job'[b] = job[b], posts'[b] = posts[b], outcome'[b] = outcome[b],
         delivery'[b] \in {delivery[b], NoRow}, accepted \subseteq accepted',
         job[b] = "made" => trigger'[b[1]] \in {"running", "lost"}
  PROVE  DeliveryOK(b)'
BY DEF HookInv, DeliveryOK, Stored, NoRow

-----------------------------------------------------------------------------
(* Notifications: the steps                                                  *)

\* The task that makes deliveries.
LEMMA TriggerSteps ==
  ASSUME HookInv, NEW m \in Messages,
         SendTrigger(m) \/ StartTrigger(m) \/ EndTrigger(m) \/ LoseTrigger(m)
  PROVE  HookInv'
<1>1. /\ UNCHANGED <<endpoint, delivery, job, outcome, posts, accepted>>
      /\ \A n \in Messages : n # m => trigger'[n] = trigger[n] /\ targets'[n] = targets[n]
  BY DEF SendTrigger, StartTrigger, EndTrigger, LoseTrigger, HookInv,
         NotificationsTypeOK, jobs, record
<1>2. NotificationsTypeOK'
  BY DEF SendTrigger, StartTrigger, EndTrigger, LoseTrigger, HookInv,
         NotificationsTypeOK, jobs, record
<1>3. ASSUME NEW d \in Deliveries PROVE DeliveryOK(d)'
  <2>1. job[d] = "made" => trigger'[d[1]] \in {"running", "lost"}
    <3>1. SUFFICES ASSUME job[d] = "made", d[1] = m
                   PROVE  trigger'[m] \in {"running", "lost"}
      BY <1>1, PairsOf DEF HookInv, DeliveryOK
    <3>2. trigger[m] \in {"running", "lost"}
      BY <3>1 DEF HookInv, DeliveryOK
    <3>3. ~EndTrigger(m)
      BY <3>1, PairsOf DEF EndTrigger
    <3>4. LoseTrigger(m)
      BY <3>2, <3>3 DEF SendTrigger, StartTrigger
    <3>5. QED
      BY <3>4 DEF LoseTrigger, HookInv, NotificationsTypeOK
  <2>2. QED
    BY <1>1, <2>1, DeliveryStays
<1>4. ASSUME NEW n \in Messages PROVE TriggerOK(n)'
  <2>1. CASE n # m
    BY <1>1, <2>1 DEF HookInv, TriggerOK
  <2>2. CASE n = m
    <3>1. CASE SendTrigger(m) \/ EndTrigger(m) \/ LoseTrigger(m)
      BY <1>1, <2>2, <3>1 DEF SendTrigger, EndTrigger, LoseTrigger, HookInv, TriggerOK,
                              NotificationsTypeOK
    <3>2. CASE StartTrigger(m)
      BY <1>1, <2>2, <3>2 DEF StartTrigger, HookInv, TriggerOK, NotificationsTypeOK
    <3>3. QED
      BY <3>1, <3>2
  <2>3. QED
    BY <2>1, <2>2
<1>5. QED
  BY <1>2, <1>3, <1>4 DEF HookInv

LEMMA CreateStep ==
  ASSUME HookInv, NEW m \in Messages, NEW e \in Endpoints, CreateDelivery(m, e)
  PROVE  HookInv'
<1> DEFINE d == <<m, e>>
           row == [status |-> "pending", attempts |-> 0, due |-> FALSE]
<1>1. /\ d \in Deliveries /\ d[1] = m /\ row \in Row /\ "made" \in JobSteps
  BY PairsOf DEF Row, HookStatus, JobSteps
<1>2. /\ trigger[m] = "running" /\ e \in targets[m]
      /\ delivery' = [delivery EXCEPT ![d] = row]
      /\ targets' = [targets EXCEPT ![m] = targets[m] \ {e}]
      /\ JobGoes(d, "made")
      /\ UNCHANGED <<endpoint, trigger, outcome, posts, accepted>>
  BY DEF CreateDelivery, record
<1>3. job[d] = "none"
  BY <1>2 DEF HookInv, TriggerOK
<1> HIDE DEF d
<1>4. /\ job' \in [Deliveries -> JobSteps] /\ job'[d] = "made"
      /\ \A b \in Deliveries : b # d => job'[b] = job[b]
  BY <1>1, <1>2, OthersStay
<1>5. NotificationsTypeOK'
  BY <1>1, <1>2, <1>4 DEF HookInv, NotificationsTypeOK
<1>6. ASSUME NEW b \in Deliveries PROVE DeliveryOK(b)'
  <2>1. CASE b = d
    <3>1. /\ posts[d] = 0 /\ (outcome[d] = "accepted" => d \in accepted)
          /\ delivery'[d] = row
      BY <1>1, <1>2, <1>3 DEF HookInv, DeliveryOK, NotificationsTypeOK
    <3>2. row.status = "pending" /\ row.due = FALSE
      OBVIOUS
    <3> HIDE DEF row
    <3>3. QED
      BY <1>1, <1>2, <1>4, <2>1, <3>1, <3>2 DEF DeliveryOK
  <2>2. CASE b # d
    <3>1. delivery'[b] = delivery[b]
      BY <1>2, <2>2 DEF HookInv, NotificationsTypeOK
    <3>2. QED
      BY <1>2, <1>4, <2>2, <3>1, DeliveryStays DEF HookInv, DeliveryOK
  <2>3. QED
    BY <2>1, <2>2
<1>7. ASSUME NEW n \in Messages PROVE TriggerOK(n)'
  <2>1. \A f \in Endpoints : <<n, f>> # d => job'[<<n, f>>] = job[<<n, f>>]
    BY <1>4, PairsOf
  <2>2. targets[n] \subseteq Endpoints
    BY DEF HookInv, NotificationsTypeOK
  <2>3. CASE n # m
    <3>1. \A f \in Endpoints : <<n, f>> # d
      BY <2>3 DEF d
    <3>2. targets'[n] = targets[n]
      BY <1>2, <2>3 DEF HookInv, NotificationsTypeOK
    <3>3. QED
      BY <1>2, <2>1, <2>2, <3>1, <3>2 DEF HookInv, TriggerOK
  <2>4. CASE n = m
    <3>1. \A f \in Endpoints \ {e} : <<n, f>> # d
      BY <2>4 DEF d
    <3>2. targets'[n] = targets[n] \ {e}
      BY <1>2, <2>4 DEF HookInv, NotificationsTypeOK
    <3>3. \A f \in targets'[n] : job'[<<n, f>>] = "none"
      BY <2>1, <2>2, <3>1, <3>2 DEF HookInv, TriggerOK
    <3>4. QED
      BY <1>2, <2>4, <3>3 DEF TriggerOK
  <2>5. QED
    BY <2>3, <2>4
<1>8. QED
  BY <1>5, <1>6, <1>7 DEF HookInv

\* A step of one job that leaves its own delivery as the invariant wants it.
LEMMA JobStep ==
  ASSUME HookInv, NEW d \in Deliveries, NEW to \in JobSteps, JobGoes(d, to),
         job[d] # "none", UNCHANGED <<endpoint, trigger, targets>>,
         delivery' \in [Deliveries -> Row \cup {NoRow}],
         outcome' \in [Deliveries -> Outcomes],
         posts' \in [Deliveries -> Nat],
         accepted \subseteq accepted', accepted' \subseteq Deliveries,
         \A b \in Deliveries : b # d => /\ delivery'[b] = delivery[b]
                                       /\ outcome'[b] = outcome[b]
                                       /\ posts'[b] = posts[b],
         DeliveryOK(d)'
  PROVE  HookInv'
<1>1. /\ job' \in [Deliveries -> JobSteps]
      /\ \A b \in Deliveries : b # d => job'[b] = job[b]
  BY OthersStay
<1>2. NotificationsTypeOK'
  BY <1>1 DEF HookInv, NotificationsTypeOK
<1>3. ASSUME NEW b \in Deliveries, b # d PROVE DeliveryOK(b)'
  BY <1>1, <1>3, DeliveryStays DEF HookInv, DeliveryOK
<1>4. \A m \in Messages : TriggerOK(m)'
  BY <1>1, TriggersStay
<1>5. QED
  BY <1>2, <1>3, <1>4 DEF HookInv

LEMMA QueueStep ==
  ASSUME HookInv, NEW d \in Deliveries,
         QueueDispatch(d) \/ StartJob(d) \/ LoseJob(d)
  PROVE  HookInv'
<1>1. PICK to \in JobSteps :
        /\ JobGoes(d, to)
        /\ \/ to = "queued" /\ job[d] = "made"
           \/ to = "posting" /\ job[d] = "queued"
           \/ to = "done" /\ job[d] = "queued" /\ ~Stored(d)
           \/ to = "lost" /\ job[d] \in {"queued", "posting", "saving"}
  BY DEF QueueDispatch, StartJob, LoseJob, JobSteps
<1>2. /\ UNCHANGED <<endpoint, trigger, targets, delivery, posts, accepted>>
      /\ outcome' \in {outcome, [outcome EXCEPT ![d] = "none"]}
  BY DEF QueueDispatch, StartJob, LoseJob, triggering, record
<1>3. /\ outcome' \in [Deliveries -> Outcomes]
      /\ outcome'[d] = "accepted" => outcome[d] = "accepted"
      /\ \A b \in Deliveries : b # d => outcome'[b] = outcome[b]
  BY <1>2 DEF HookInv, NotificationsTypeOK, Outcomes
<1>4. job'[d] = to
  BY <1>1, OthersStay
<1>5. DeliveryOK(d)'
  BY <1>1, <1>2, <1>3, <1>4 DEF HookInv, DeliveryOK, Stored, NoRow
<1>6. QED
  BY <1>1, <1>2, <1>3, <1>5, JobStep DEF HookInv, NotificationsTypeOK

LEMMA PostStep ==
  ASSUME HookInv, NEW d \in Deliveries, NEW answer \in Outcomes \ {"none"},
         NEW reached \in BOOLEAN, Post(d, answer, reached)
  PROVE  HookInv'
<1>1. /\ job[d] = "posting" /\ JobGoes(d, "saving") /\ "saving" \in JobSteps
      /\ posts' = [posts EXCEPT ![d] = posts[d] + 1]
      /\ outcome' = [outcome EXCEPT ![d] = answer]
      /\ accepted' = IF reached THEN accepted \cup {d} ELSE accepted
      /\ answer = "accepted" => reached
      /\ UNCHANGED <<endpoint, trigger, targets, delivery>>
  BY DEF Post, triggering, JobSteps
<1>2. posts[d] = 0
  BY <1>1 DEF HookInv, DeliveryOK
<1>3. /\ posts' \in [Deliveries -> Nat] /\ posts'[d] = 1
      /\ outcome' \in [Deliveries -> Outcomes] /\ outcome'[d] = answer
      /\ \A b \in Deliveries : b # d => posts'[b] = posts[b] /\ outcome'[b] = outcome[b]
  BY <1>1, <1>2 DEF HookInv, NotificationsTypeOK
<1>4. /\ accepted \subseteq accepted' /\ accepted' \subseteq Deliveries
      /\ answer = "accepted" => d \in accepted'
  BY <1>1 DEF HookInv, NotificationsTypeOK
<1>5. job'[d] = "saving"
  BY <1>1, OthersStay
<1>6. DeliveryOK(d)'
  BY <1>1, <1>3, <1>4, <1>5 DEF HookInv, DeliveryOK, Stored, NoRow
<1>7. QED
  BY <1>1, <1>3, <1>4, <1>6, JobStep DEF HookInv, NotificationsTypeOK

LEMMA SaveStep ==
  ASSUME HookInv, NEW d \in Deliveries, SaveJob(d)
  PROVE  HookInv'
<1>1. /\ job[d] = "saving" /\ JobGoes(d, "done") /\ "done" \in JobSteps
      /\ delivery' = IF Stored(d) THEN [delivery EXCEPT ![d] = Judged(d)] ELSE delivery
      /\ outcome' = [outcome EXCEPT ![d] = "none"]
      /\ UNCHANGED <<endpoint, trigger, targets, posts, accepted>>
  BY DEF SaveJob, triggering, record, JobSteps
<1>2. job'[d] = "done"
  BY <1>1, OthersStay
<1>3. /\ outcome' \in [Deliveries -> Outcomes] /\ outcome'[d] = "none"
      /\ \A b \in Deliveries : b # d => outcome'[b] = outcome[b]
  BY <1>1 DEF HookInv, NotificationsTypeOK, Outcomes
<1>4. ASSUME Stored(d)
      PROVE  /\ Judged(d) \in Row
             /\ Judged(d).due = delivery[d].due
             /\ Judged(d).status \in {"sent", "failed"}
             /\ Judged(d).status = "sent" => outcome[d] = "accepted"
  <2>1. delivery[d] \in Row
    BY <1>4 DEF Stored, HookInv, NotificationsTypeOK
  <2>2. QED
    BY <2>1 DEF Judged, Row, HookStatus
<1>5. /\ delivery' \in [Deliveries -> Row \cup {NoRow}]
      /\ delivery'[d] = IF Stored(d) THEN Judged(d) ELSE NoRow
      /\ \A b \in Deliveries : b # d => delivery'[b] = delivery[b]
  BY <1>1, <1>4 DEF HookInv, NotificationsTypeOK, Stored
<1>6. DeliveryOK(d)'
  <2>1. CASE ~Stored(d)
    BY <1>1, <1>2, <1>3, <1>5, <2>1 DEF HookInv, DeliveryOK, Stored, NoRow
  <2>2. CASE Stored(d)
    BY <1>1, <1>2, <1>3, <1>4, <1>5, <2>2 DEF HookInv, DeliveryOK
  <2>3. QED
    BY <2>1, <2>2
<1>7. QED
  BY <1>1, <1>3, <1>5, <1>6, JobStep DEF HookInv, NotificationsTypeOK

\* Rows that go, and endpoints that change, concern no job.
LEMMA RowsGo ==
  ASSUME HookInv,
         endpoint' \in [Endpoints -> {"active", "inactive", "deleted"}],
         UNCHANGED <<trigger, targets, job, outcome, posts, accepted>>,
         delivery' \in [Deliveries -> Row \cup {NoRow}],
         \A d \in Deliveries : delivery'[d] \in {delivery[d], NoRow}
  PROVE  HookInv'
<1>1. NotificationsTypeOK'
  BY DEF HookInv, NotificationsTypeOK
<1>2. \A d \in Deliveries : DeliveryOK(d)'
  BY DeliveryStays DEF HookInv, DeliveryOK
<1>3. \A m \in Messages : TriggerOK(m)'
  BY DEF HookInv, TriggerOK
<1>4. QED
  BY <1>1, <1>2, <1>3 DEF HookInv

LEMMA HookNextInv == HookInv /\ [NotificationsNext]_hookVars => HookInv'
<1> SUFFICES ASSUME HookInv, [NotificationsNext]_hookVars PROVE HookInv'
  OBVIOUS
<1>a. NotificationsTypeOK
  BY DEF HookInv
<1>1. ASSUME NEW m \in Messages,
             SendTrigger(m) \/ StartTrigger(m) \/ EndTrigger(m) \/ LoseTrigger(m)
      PROVE  HookInv'
  BY <1>1, TriggerSteps
<1>2. ASSUME NEW m \in Messages, NEW e \in Endpoints, CreateDelivery(m, e)
      PROVE  HookInv'
  BY <1>2, CreateStep
<1>3. ASSUME NEW d \in Deliveries, QueueDispatch(d) \/ StartJob(d) \/ LoseJob(d)
      PROVE  HookInv'
  BY <1>3, QueueStep
<1>4. ASSUME NEW d \in Deliveries,
             \E answer \in Outcomes \ {"none"}, reached \in BOOLEAN : Post(d, answer, reached)
      PROVE  HookInv'
  BY <1>4, PostStep
<1>5. ASSUME NEW d \in Deliveries, SaveJob(d) PROVE HookInv'
  BY <1>5, SaveStep
<1>6. ASSUME NEW d \in Deliveries, CleanUp(d) PROVE HookInv'
  <2>1. /\ delivery' \in [Deliveries -> Row \cup {NoRow}]
        /\ \A b \in Deliveries : delivery'[b] \in {delivery[b], NoRow}
    BY <1>6, <1>a DEF CleanUp, NotificationsTypeOK
  <2>2. QED
    BY <1>6, <1>a, <2>1, RowsGo
       DEF CleanUp, NotificationsTypeOK, triggering, jobs, record
<1>7. ASSUME NEW e \in Endpoints, ToggleEndpoint(e) PROVE HookInv'
  BY <1>7, <1>a, RowsGo
     DEF ToggleEndpoint, NotificationsTypeOK, triggering, jobs, record
<1>8. ASSUME NEW e \in Endpoints, DeleteEndpoint(e) PROVE HookInv'
  <2>1. /\ delivery' \in [Deliveries -> Row \cup {NoRow}]
        /\ \A b \in Deliveries : delivery'[b] \in {delivery[b], NoRow}
    BY <1>8, <1>a DEF DeleteEndpoint, NotificationsTypeOK
  <2>2. QED
    BY <1>8, <1>a, <2>1, RowsGo
       DEF DeleteEndpoint, NotificationsTypeOK, triggering, jobs, record
<1>9. CASE RetryPass \/ UNCHANGED hookVars
  <2>1. UNCHANGED hookVars
    BY <1>9, RetryIdles
  <2>2. QED
    BY <2>1, <1>a, RowsGo DEF hookVars, NotificationsTypeOK, triggering, jobs, record
<1>10. QED
  BY <1>1, <1>2, <1>3, <1>4, <1>5, <1>6, <1>7, <1>8, <1>9 DEF NotificationsNext

LEMMA HookInvariant == NotificationsSpec => []HookInv
BY HookInitInv, HookNextInv, PTL DEF NotificationsSpec

-----------------------------------------------------------------------------
(* Notifications: theorems                                                   *)

\* Deliveries, jobs and messages are well typed at all times.
THEOREM HookTypeCorrect == NotificationsSpec => []NotificationsTypeOK
<1>1. HookInv => NotificationsTypeOK
  BY DEF HookInv
<1>2. QED
  BY <1>1, HookInvariant, PTL

\* Whatever workers die and endpoints go: no delivery is posted twice, "sent"
\* was accepted, and one that stays "pending" was lost by a worker or broker.
THEOREM DeliveriesTell == NotificationsSpec => []DeliveriesAreTrue
<1>1. HookInv => DeliveriesAreTrue
  BY DEF HookInv, DeliveryOK, DeliveriesAreTrue
<1>2. QED
  BY <1>1, HookInvariant, PTL

\* retry_failed_webhooks never finds a row: a pass changes nothing at all, for
\* every limit of attempts.
THEOREM RetryFindsNothing == NotificationsSpec => [][~RetryPass]_hookVars
<1>1. HookInv /\ [NotificationsNext]_hookVars => [~RetryPass]_hookVars
  BY RetryIdles
<1>2. QED
  BY <1>1, HookInvariant, PTL DEF NotificationsSpec

-----------------------------------------------------------------------------
(* Rates: the newest rate                                                    *)

\* A set of numbers with a bound has a largest element: of the intervals from
\* its elements to the bound one is minimal.
LEMMA LargestNumber ==
    ASSUME NEW n \in Nat, NEW S \in SUBSET (0..n), S # {}
    PROVE  \E k \in S : \A m \in S : k >= m
<1> DEFINE From == {k..n : k \in S}
<1>1. From \subseteq FiniteSubsetsOf(0..n)
  <2> SUFFICES ASSUME NEW k \in S PROVE k..n \in FiniteSubsetsOf(0..n)
    OBVIOUS
  <2>1. IsFiniteSet(k..n)
    BY FS_Interval
  <2>2. QED
    BY <2>1 DEF FiniteSubsetsOf
<1>2. PICK i \in From : \A j \in From : <<j, i>> \notin StrictSubsetOrdering(0..n)
  <2>1. IsWellFoundedOn(StrictSubsetOrdering(0..n), FiniteSubsetsOf(0..n))
    BY FS_StrictSubsetOrderingWellFounded
  <2>2. From # {}
    OBVIOUS
  <2> HIDE DEF From
  <2>3. QED
    BY <1>1, <2>1, <2>2, WFMin
<1>3. PICK k \in S : i = k..n
  OBVIOUS
<1>4. ASSUME NEW m \in S, k < m
      PROVE  FALSE
  <2>1. m..n \subseteq k..n /\ k \in k..n /\ k \notin m..n
    BY <1>4
  <2>2. <<m..n, k..n>> \in StrictSubsetOrdering(0..n)
    BY <2>1 DEF StrictSubsetOrdering
  <2>3. QED
    BY <1>2, <1>3, <2>2
<1>5. QED
  BY <1>4

LEMMA MaxIsLargest ==
    ASSUME NEW n \in Nat, NEW S \in SUBSET (0..n), S # {}
    PROVE  Max(S) \in S /\ \A m \in S : Max(S) >= m
BY LargestNumber DEF Max

\* Of the rates in effect there is a newest one.
LEMMA CurrentIsNewest ==
    ASSUME RateCacheTypeOK, Effective # {}
    PROVE  Current \in Effective /\ \A p \in Effective : p.from <= Current.from
<1> DEFINE Froms == {q.from : q \in Effective}
<1>1. Froms \in SUBSET (0..stamped) /\ Froms # {} /\ stamped \in Nat
  <2>1. stamped \in Nat /\ \A q \in Effective : q.from \in 0..stamped
    BY DEF RateCacheTypeOK, Effective, Rate
  <2>2. Froms # {}
    OBVIOUS
  <2> HIDE DEF Effective
  <2>3. QED
    BY <2>1, <2>2
<1>2. PICK k \in Froms : \A m \in Froms : k >= m
  <2> HIDE DEF Froms
  <2>1. QED
    BY <1>1, LargestNumber
<1>3. PICK q \in Effective : q.from = k
  BY <1>2
<1>4. \A p \in Effective : p.from <= q.from
  BY <1>2, <1>3
<1>5. QED
  BY <1>3, <1>4 DEF Current

\* Rows that come and go take floor down to one that is there, or leave it.
LEMMA SunkHolds ==
    ASSUME NEW rows \in SUBSET Rate, floor \in Nat
    PROVE  /\ Sunk(rows) \in Nat /\ Sunk(rows) <= floor
           /\ \/ \E q \in rows : q.from = Sunk(rows)
              \/ \A q \in rows : q.from > Sunk(rows)
<1> DEFINE older == {q.from : q \in {p \in rows : p.from < floor}}
<1>1. \A q \in rows : q.from \in Nat
  BY DEF Rate
<1>2. CASE older = {} \/ \E q \in rows : q.from = floor
  <2>1. Sunk(rows) = floor
    BY <1>2 DEF Sunk
  <2>2. (\E q \in rows : q.from = floor) \/ (\A q \in rows : q.from > floor)
    <3>1. CASE older = {}
      <4>1. \A q \in rows : ~(q.from < floor)
        BY <3>1
      <4>2. QED
        BY <1>1, <4>1
    <3>2. QED
      BY <1>2, <3>1
  <2>3. QED
    BY <2>1, <2>2
<1>3. CASE older # {} /\ ~(\E q \in rows : q.from = floor)
  <2>1. Sunk(rows) = Max(older)
    BY <1>3 DEF Sunk
  <2>2. older \in SUBSET (0..floor)
    BY <1>1
  <2>3. Max(older) \in older
    <3> HIDE DEF older
    <3>1. QED
      BY <1>3, <2>2, MaxIsLargest
  <2>4. PICK q \in rows : q.from = Max(older)
    BY <2>3
  <2>5. Max(older) \in Nat /\ Max(older) <= floor
    BY <2>2, <2>3
  <2>6. QED
    BY <2>1, <2>4, <2>5
<1>4. QED
  BY <1>2, <1>3

-----------------------------------------------------------------------------
(* Rates: the inductive invariant                                            *)

LEMMA RateInitInv == RateCacheInit => RateInv
BY RateCacheAssumption
DEF RateCacheInit, RateInv, RateCacheTypeOK, ReaderSteps, WriterSteps, FloorHolds,
    RateNeverFallsBack

\* Whatever is done to the rows, readers and Redis keep to the new floor.
LEMMA StoreKeeps ==
    ASSUME RateInv, NEW rows \in SUBSET Rate, Store(rows),
           UNCHANGED <<cached, stamped, reading, stamp>>,
           writer' \in [Writers -> WriterSteps],
           pending' \in [Editors -> Rate \cup {NoRate}],
           \A w \in Writers : writer'[w] # "idle" => writer[w] # "idle"
    PROVE  RateInv'
<1>1. rates' = rows /\ floor' = Sunk(rows) /\ floor \in Nat
  BY DEF Store, RateInv, RateCacheTypeOK
<1>2. floor' \in Nat /\ floor' <= floor /\ FloorHolds'
  BY <1>1, SunkHolds DEF FloorHolds
<1>3. /\ cached.from \in Nat
      /\ \A r \in Readers : newest[r].from \in Nat
  BY DEF RateInv, RateCacheTypeOK, Rate, NoRate
<1>4. RateCacheTypeOK'
  BY <1>1, <1>2 DEF RateInv, RateCacheTypeOK, reading
<1>5. QED
  BY <1>1, <1>2, <1>3, <1>4 DEF RateInv, RateNeverFallsBack, reading, RateCacheTypeOK

\* A key that goes, a clock that ticks and a reader that returns change nothing.
LEMMA LittleKeeps ==
    ASSUME RateInv, RateCacheTypeOK',
           UNCHANGED <<rates, floor>>,
           stamped' >= stamped,
           \A w \in Writers : writer'[w] # "idle" => stamp'[w] \in 1..stamped',
           \A r \in Readers : reader'[r] = "filling" =>
               reader[r] = "filling" /\ newest'[r] = newest[r],
           \/ cached' \in {cached, NoRate}
           \/ \E r \in Readers : reader[r] = "filling" /\ cached' = newest[r]
    PROVE  RateInv'
<1>1. FloorHolds' /\ floor' <= stamped'
  BY DEF RateInv, RateCacheTypeOK, FloorHolds
<1>2. RateNeverFallsBack'
  BY DEF RateInv, RateNeverFallsBack
<1>3. QED
  BY <1>1, <1>2 DEF RateInv

LEMMA RateNextInv == RateInv /\ [RateCacheNext]_rateVars => RateInv'
<1> SUFFICES ASSUME RateInv, [RateCacheNext]_rateVars PROVE RateInv'
  OBVIOUS
<1>a. /\ RateCacheTypeOK
      /\ \A w \in Writers : writer[w] # "idle" => stamp[w] \in 1..stamped
  BY DEF RateInv
<1>1. ASSUME NEW r \in Readers, GetCached(r) \/ CacheRate(r) \/ ReaderEnds(r)
      PROVE  RateInv'
  <2>1. RateCacheTypeOK'
    BY <1>1, <1>a
    DEF GetCached, CacheRate, ReaderEnds, RateCacheTypeOK, ReaderSteps, writing
  <2>2. QED
    BY <1>1, <1>a, <2>1, LittleKeeps
    DEF GetCached, CacheRate, ReaderEnds, RateCacheTypeOK, writing
<1>2. ASSUME NEW r \in Readers, ReadNewest(r)
      PROVE  RateInv'
  <2>1. /\ Effective # {}
        /\ reader' = [reader EXCEPT ![r] = "filling"]
        /\ newest' = [newest EXCEPT ![r] = Current]
        /\ UNCHANGED <<rates, cached, stamped, writer, stamp, pending, floor>>
    BY <1>2 DEF ReadNewest, writing
  <2>2. Current \in Effective /\ \A p \in Effective : p.from <= Current.from
    BY <1>a, <2>1, CurrentIsNewest
  <2>3. Current \in Rate /\ Current.from >= floor
    <3>1. CASE \E q \in rates : q.from = floor
      BY <2>2, <3>1 DEF Effective, RateInv, RateCacheTypeOK
    <3>2. CASE \A q \in rates : q.from > floor
      BY <1>a, <2>2, <3>2 DEF Effective, RateCacheTypeOK, Rate
    <3>3. QED
      BY <1>a, <2>2, <3>1, <3>2 DEF Effective, RateInv, FloorHolds, RateCacheTypeOK
  <2> HIDE DEF Current
  <2>4. RateCacheTypeOK'
    BY <1>a, <2>1, <2>3 DEF RateCacheTypeOK, ReaderSteps
  <2>5. QED
    BY <1>a, <2>1, <2>3, <2>4
    DEF RateInv, RateCacheTypeOK, FloorHolds, RateNeverFallsBack
<1>3. ASSUME NEW w \in Writers,
             UpdateRate(w) \/ FetchRates(w) \/ QuoteArrives(w) \/ WriterEnds(w)
      PROVE  RateInv'
  <2>1. /\ UNCHANGED <<rates, cached, reader, newest, pending, floor>>
        /\ \/ \E next \in {"asking", "inserting"} :
                 /\ stamped' = stamped + 1
                 /\ stamp' = [stamp EXCEPT ![w] = stamped + 1]
                 /\ writer' = [writer EXCEPT ![w] = next]
           \/ /\ writer[w] = "asking"
              /\ writer' = [writer EXCEPT ![w] = "inserting"]
              /\ UNCHANGED <<stamp, stamped>>
           \/ /\ writer' = [writer EXCEPT ![w] = "idle"]
              /\ stamp' = [stamp EXCEPT ![w] = 0]
              /\ UNCHANGED stamped
    BY <1>3 DEF UpdateRate, FetchRates, TakeStamp, QuoteArrives, WriterEnds, reading
  <2>2. RateCacheTypeOK'
    BY <1>a, <2>1 DEF RateCacheTypeOK, WriterSteps
  <2>3. /\ stamped' >= stamped
        /\ \A v \in Writers : writer'[v] # "idle" => stamp'[v] \in 1..stamped'
    BY <1>a, <2>1 DEF RateCacheTypeOK
  <2>4. QED
    BY <2>1, <2>2, <2>3, LittleKeeps
<1>4. ASSUME NEW w \in Writers, NEW f \in Figures, InsertRate(w, f)
      PROVE  RateInv'
  <2> DEFINE rows == rates \cup {[from |-> stamp[w], figure |-> f]}
  <2>1. /\ Store(rows)
        /\ writer[w] = "inserting"
        /\ writer' = [writer EXCEPT ![w] = "clearing"]
        /\ UNCHANGED <<cached, stamped, reading, stamp, pending>>
    BY <1>4 DEF InsertRate
  <2>2. rows \in SUBSET Rate
    BY <1>a, <2>1 DEF RateCacheTypeOK, Rate
  <2>3. /\ writer' \in [Writers -> WriterSteps]
        /\ pending' \in [Editors -> Rate \cup {NoRate}]
        /\ \A v \in Writers : writer'[v] # "idle" => writer[v] # "idle"
    BY <1>a, <2>1 DEF RateCacheTypeOK, WriterSteps
  <2> HIDE DEF rows
  <2>4. QED
    BY <2>1, <2>2, <2>3, StoreKeeps
<1>5. ASSUME NEW w \in Writers, ClearCached(w)
      PROVE  RateInv'
  <2>1. /\ stamp[w] \in 1..stamped
        /\ cached' = NoRate
        /\ floor' = IF Landed(w) THEN Max({floor, stamp[w]}) ELSE floor
        /\ writer' = [writer EXCEPT ![w] = "idle"]
        /\ stamp' = [stamp EXCEPT ![w] = 0]
        /\ UNCHANGED <<rates, stamped, reader, newest, pending>>
    BY <1>5, <1>a DEF ClearCached, reading
  <2>2. floor' = floor \/ (floor' = stamp[w] /\ Landed(w))
    <3>1. Max({floor, stamp[w]}) \in {floor, stamp[w]}
      <4>1. {floor, stamp[w]} \in SUBSET (0..stamped) /\ stamped \in Nat
        BY <2>1 DEF RateInv, RateCacheTypeOK
      <4>2. QED
        BY <4>1, MaxIsLargest
    <3>2. QED
      BY <2>1, <3>1
  <2>3. FloorHolds' /\ floor' \in Nat /\ floor' <= stamped'
    <3>1. CASE floor' = floor
      BY <2>1, <3>1 DEF RateInv, RateCacheTypeOK, FloorHolds
    <3>2. CASE floor' = stamp[w] /\ Landed(w)
      <4>1. stamp[w] \in Nat /\ stamp[w] <= stamped
        BY <2>1, <1>a DEF RateCacheTypeOK
      <4>2. \E q \in rates' : q.from = floor'
        BY <2>1, <3>2 DEF Landed
      <4>3. QED
        BY <2>1, <3>2, <4>1, <4>2 DEF FloorHolds
    <3>3. QED
      BY <2>2, <3>1, <3>2
  <2>4. \A r \in Readers : reader'[r] = "filling" => newest'[r].from >= floor'
    BY <2>1, <2>2 DEF RateInv, Landed
  <2>5. RateCacheTypeOK'
    BY <1>a, <2>1, <2>3 DEF RateCacheTypeOK, WriterSteps
  <2>6. \A v \in Writers : writer'[v] # "idle" => stamp'[v] \in 1..stamped'
    BY <1>a, <2>1 DEF RateCacheTypeOK
  <2>7. QED
    BY <2>1, <2>3, <2>4, <2>5, <2>6 DEF RateInv, RateNeverFallsBack
<1>6. ASSUME NEW e \in Editors, NEW row \in Enterable, AddRate(e, row)
      PROVE  RateInv'
  <2>1. row \in Rate
    BY RateCacheAssumption DEF Enterable, Rate
  <2>2. RateCacheTypeOK'
    BY <1>6, <1>a, <2>1 DEF AddRate, RateCacheTypeOK, reading, writing
  <2>3. QED
    BY <1>6, <1>a, <2>2, LittleKeeps DEF AddRate, RateCacheTypeOK, reading, writing
<1>7. ASSUME NEW e \in Editors, CommitRate(e)
      PROVE  RateInv'
  <2>1. /\ Store(rates \cup {pending[e]})
        /\ UNCHANGED <<cached, stamped, reading, stamp>>
        /\ writer' \in [Writers -> WriterSteps]
        /\ pending' \in [Editors -> Rate \cup {NoRate}]
        /\ \A w \in Writers : writer'[w] # "idle" => writer[w] # "idle"
    BY <1>7, <1>a DEF CommitRate, RateCacheTypeOK, writing
  <2>2. rates \cup {pending[e]} \in SUBSET Rate
    BY <1>7, <1>a DEF CommitRate, RateCacheTypeOK
  <2>3. QED
    BY <2>1, <2>2, StoreKeeps
<1>8. ASSUME NEW e \in Editors, AbandonRate(e)
      PROVE  RateInv'
  <2>1. RateCacheTypeOK'
    BY <1>8, <1>a DEF AbandonRate, RateCacheTypeOK, reading, writing
  <2>2. QED
    BY <1>8, <1>a, <2>1, LittleKeeps DEF AbandonRate, RateCacheTypeOK, reading, writing
<1>9. ASSUME NEW rows \in SUBSET Rate, Store(rows),
             UNCHANGED <<cached, stamped, reading, writing, pending>>
      PROVE  RateInv'
  BY <1>9, <1>a, StoreKeeps DEF RateCacheTypeOK, writing
<1>10. ASSUME NEW old \in rates, RemoveRate(old)
       PROVE  RateInv'
  <2>1. rates \ {old} \in SUBSET Rate
    BY <1>a DEF RateCacheTypeOK
  <2>2. QED
    BY <1>9, <1>10, <2>1 DEF RemoveRate
<1>11. ASSUME NEW old \in rates \cup {NoRate}, NEW new \in Enterable, EditRate(old, new)
       PROVE  RateInv'
  <2>1. (rates \ {old}) \cup {new} \in SUBSET Rate
    BY <1>a, RateCacheAssumption DEF RateCacheTypeOK, Enterable, Rate
  <2>2. QED
    BY <1>9, <1>11, <2>1 DEF EditRate
<1>12. ASSUME NEW limit \in 1..stamped, CleanupRates(limit)
       PROVE  RateInv'
  <2>1. {q \in rates : q.from > limit} \in SUBSET Rate
    BY <1>a DEF RateCacheTypeOK
  <2>2. QED
    BY <1>9, <1>12, <2>1 DEF CleanupRates
<1>13. CASE KeyExpires \/ TimePasses \/ UNCHANGED rateVars
  <2>1. RateCacheTypeOK'
    BY <1>13, <1>a
    DEF KeyExpires, TimePasses, rateVars, RateCacheTypeOK, reading, writing
  <2>2. QED
    BY <1>13, <1>a, <2>1, LittleKeeps
    DEF KeyExpires, TimePasses, rateVars, RateCacheTypeOK, reading, writing
<1>14. QED
  BY <1>1, <1>2, <1>3, <1>4, <1>5, <1>6, <1>7, <1>8, <1>10, <1>11, <1>12, <1>13
  DEF RateCacheNext

LEMMA RateInvariant == RateCacheSpec => []RateInv
BY RateInitInv, RateNextInv, PTL DEF RateCacheSpec

-----------------------------------------------------------------------------
(* Rates: theorems                                                           *)

\* Rates, the key in Redis, and the readers and writers are well typed.
THEOREM RateCacheTypeCorrect == RateCacheSpec => []RateCacheTypeOK
<1>1. RateInv => RateCacheTypeOK
  BY DEF RateInv
<1>2. QED
  BY <1>1, RateInvariant, PTL

\* Served rates fall back only where the rows do, for any number of readers,
\* writers, forms of the admin site and figures, and whatever the clock says:
\* once the key was deleted for a row that was there, with no reader between
\* its query and its setex with an older one, Redis serves no older rate until
\* that row is deleted or moved.
THEOREM ServedRateIsNotOlder == RateCacheSpec => []RateNeverFallsBack
<1>1. RateInv => RateNeverFallsBack
  BY DEF RateInv
<1>2. QED
  BY <1>1, RateInvariant, PTL
=============================================================================
