------------------------------ MODULE Requests ------------------------------
(***************************************************************************)
(* The endpoints p2p and merchant_payment of transaction_service, up to    *)
(* the queued task of the transfer they create: the Idempotency-Key, the   *)
(* cache of responses that each process has for itself (LocMemCache), and  *)
(* the databases of the months, in each of which a key is unique.          *)
(*                                                                         *)
(* initiate_transaction opens its transaction on another database than the *)
(* one it writes to, so every insert is committed by itself.               *)
(***************************************************************************)
EXTENDS Integers, FiniteSets

CONSTANTS
    Processes,   \* processes that serve requests
    Clients,     \* requests at work at a time
    Keys,        \* values of the header Idempotency-Key
    LastPeriod   \* bound: months that are configured, after the first

ASSUME RequestsAssumption ==
    /\ Processes # {}
    /\ Keys # {}
    /\ LastPeriod \in Nat

VARIABLES
    period,      \* the month
    transfers,   \* the Transaction rows of all months
    charged,     \* ids of those with a TransactionFee row
    tasks,       \* ids of those whose task was queued
    responses,   \* per process and key, the id in the cached response, or 0
    client,      \* what each request does next
    server,      \* the process that serves it
    request,     \* its key and its endpoint
    own,         \* the id of the transfer it has created, or 0
    answers      \* the answers so far

serving     == <<client, server, request, own>>
requestVars == <<period, transfers, charged, tasks, responses, serving, answers>>

Kinds       == {"p2p", "merchant"}
Requested   == [key : Keys, kind : Kinds]
ClientSteps == {"idle", "checked", "queueing", "charging", "answering"}

RequestsTypeOK ==
    /\ period \in Nat
    /\ transfers \subseteq [id : Nat, key : Keys, month : Nat]
    /\ charged \subseteq Nat
    /\ tasks \subseteq Nat
    /\ responses \in [Processes -> [Keys -> Nat]]
    /\ client \in [Clients -> ClientSteps]
    /\ server \in [Clients -> Processes]
    /\ request \in [Clients -> Requested]
    /\ own \in [Clients -> Nat]
    /\ answers \subseteq [key : Keys, id : Nat]

NoRequest  == CHOOSE q \in Requested : TRUE
AnyProcess == CHOOSE p \in Processes : TRUE

RequestsInit ==
    /\ period = 0
    /\ transfers = {}
    /\ charged = {}
    /\ tasks = {}
    /\ responses = [p \in Processes |-> [k \in Keys |-> 0]]
    /\ client = [c \in Clients |-> "idle"]
    /\ server = [c \in Clients |-> AnyProcess]
    /\ request = [c \in Clients |-> NoRequest]
    /\ own = [c \in Clients |-> 0]
    /\ answers = {}

\* A request that is over leaves nothing behind.
Done(c) ==
    /\ client' = [client EXCEPT ![c] = "idle"]
    /\ server' = [server EXCEPT ![c] = AnyProcess]
    /\ request' = [request EXCEPT ![c] = NoRequest]
    /\ own' = [own EXCEPT ![c] = 0]

On(c, to) == client' = [client EXCEPT ![c] = to]

-----------------------------------------------------------------------------
\* check_duplicate, which merchant_payment does not call.
Duplicate(p, q) == q.kind = "p2p" /\ responses[p][q.key] # 0

\* A request comes in, and is not one whose answer this process remembers.
Receive(c, p, q) ==
    /\ client[c] = "idle"
    /\ ~Duplicate(p, q)
    /\ On(c, "checked")
    /\ server' = [server EXCEPT ![c] = p]
    /\ request' = [request EXCEPT ![c] = q]
    /\ UNCHANGED <<period, transfers, charged, tasks, responses, own, answers>>

Replay(c, p, q) ==
    /\ client[c] = "idle"
    /\ Duplicate(p, q)
    /\ answers' = answers \cup {[key |-> q.key, id |-> responses[p][q.key]]}
    /\ UNCHANGED <<period, transfers, charged, tasks, responses, serving>>

\* Mutant of Unused: the key is not unique.
UnusedAlways(k) == TRUE

\* The constraint on idempotency_key, in the database of this month.
Unused(k) == ~\E t \in transfers : t.key = k /\ t.month = period

\* initiate_transaction: the insert, in the month it is by now.
CreateTransfer(c) ==
    LET id == Cardinality(transfers) + 1
        k  == request[c].key
    IN  /\ client[c] = "checked"
        /\ Unused(k)
        /\ transfers' = transfers \cup {[id |-> id, key |-> k, month |-> period]}
        /\ own' = [own EXCEPT ![c] = id]
        /\ On(c, "queueing")
        /\ UNCHANGED <<period, charged, tasks, responses, server, request, answers>>

\* The loser of two inserts gets an IntegrityError, which nothing catches.
RefuseKey(c) ==
    /\ client[c] = "checked"
    /\ ~Unused(request[c].key)
    /\ Done(c)
    /\ UNCHANGED <<period, transfers, charged, tasks, responses, answers>>

\* handle_transaction_saved, before the fee is there.
QueueTask(c) ==
    /\ client[c] = "queueing"
    /\ tasks' = tasks \cup {own[c]}
    /\ On(c, "charging")
    /\ UNCHANGED <<period, transfers, charged, responses, server, request, own, answers>>

\* The fee, and for a merchant the metadata, go to the database of the month
\* it is by now, where the foreign key must find the transfer.
ChargeFee(c) ==
    /\ client[c] = "charging"
    /\ \E t \in transfers : t.id = own[c] /\ t.month = period
    /\ charged' = charged \cup {own[c]}
    /\ On(c, "answering")
    /\ UNCHANGED <<period, transfers, tasks, responses, server, request, own, answers>>

\* cache_response, for p2p only, and the answer.
Respond(c) ==
    /\ client[c] = "answering"
    /\ LET k == request[c].key
       IN  /\ responses' = IF request[c].kind = "p2p"
                           THEN [responses EXCEPT ![server[c]][k] = own[c]]
                           ELSE responses
           /\ answers' = answers \cup {[key |-> k, id |-> own[c]]}
    /\ Done(c)
    /\ UNCHANGED <<period, transfers, charged, tasks>>

\* The broker or a database refuses a step: what was inserted stays.
RequestFails(c) ==
    /\ client[c] # "idle"
    /\ Done(c)
    /\ UNCHANGED <<period, transfers, charged, tasks, responses, answers>>

-----------------------------------------------------------------------------
\* A process is restarted: its cache is gone, and what it was serving is over.
RestartProcess(p) ==
    LET lost == {c \in Clients : server[c] = p}
    IN  /\ responses' = [responses EXCEPT ![p] = [k \in Keys |-> 0]]
        /\ client' = [c \in Clients |-> IF c \in lost THEN "idle" ELSE client[c]]
        /\ server' = [c \in Clients |-> IF c \in lost THEN AnyProcess ELSE server[c]]
        /\ request' = [c \in Clients |-> IF c \in lost THEN NoRequest ELSE request[c]]
        /\ own' = [c \in Clients |-> IF c \in lost THEN 0 ELSE own[c]]
        /\ UNCHANGED <<period, transfers, charged, tasks, answers>>

\* A response is kept for a day.
ForgetResponse(p, k) ==
    /\ responses[p][k] # 0
    /\ responses' = [responses EXCEPT ![p][k] = 0]
    /\ UNCHANGED <<period, transfers, charged, tasks, serving, answers>>

NextPeriod ==
    /\ period < LastPeriod
    /\ period' = period + 1
    /\ UNCHANGED <<transfers, charged, tasks, responses, serving, answers>>

RequestsNext ==
    \/ \E c \in Clients :
          \/ \E p \in Processes, q \in Requested : Receive(c, p, q) \/ Replay(c, p, q)
          \/ CreateTransfer(c)
          \/ RefuseKey(c)
          \/ QueueTask(c)
          \/ ChargeFee(c)
          \/ Respond(c)
          \/ RequestFails(c)
    \/ \E p \in Processes : RestartProcess(p) \/ \E k \in Keys : ForgetResponse(p, k)
    \/ NextPeriod

RequestsSpec == RequestsInit /\ [][RequestsNext]_requestVars

-----------------------------------------------------------------------------
(* Properties                                                                *)

\* Whatever races, restarts and forgotten responses do, a key is answered with
\* one transfer per month at most, and every answer names a transfer of its
\* key that has its fee and whose task was queued.
AnswersAgree ==
    /\ \A a \in answers :
          /\ \E t \in transfers : t.id = a.id /\ t.key = a.key
          /\ a.id \in charged \cap tasks
    /\ \A t, u \in transfers :
          t.key = u.key /\ t.month = u.month /\
          {[key |-> t.key, id |-> t.id], [key |-> u.key, id |-> u.id]} \subseteq answers
             => t.id = u.id
=============================================================================
