------------------------------ MODULE Placement ------------------------------
(***************************************************************************)
(* Where the wallet of one user, in one currency, is kept.  create-internal*)
(* goes to the shard that the middleware derives from hash(str(user_id)),  *)
(* which is another one in another process and after a restart; the admin  *)
(* site goes to the shard of the admin.  Payments look a wallet up by id   *)
(* in both shards, the owner's own requests in "default".                  *)
(*                                                                         *)
(* create_wallet opens its transaction on "default", so the wallet is      *)
(* committed before its limit is inserted.                                 *)
(*                                                                         *)
(* Left out: wallets and limits that are deleted on the admin site, and a  *)
(* create-internal whose body is not JSON, from which the middleware takes *)
(* no user, so that its rows go to "default".                              *)
(***************************************************************************)
EXTENDS Integers, FiniteSets

CONSTANTS
    Servers,  \* processes that serve requests
    Callers   \* create-internal requests at work at a time

ASSUME PlacementAssumption == Servers # {}

VARIABLES
    home,      \* the shard of the user, to each process
    rows,      \* the Wallet rows
    limited,   \* ids of those with a WalletLimit row
    call,      \* what each request does next
    at,        \* the process that serves it
    route,     \* the shard the middleware has set for it
    made,      \* the id of the wallet it found or inserted, or 0
    told,      \* the answers so far
    orphaned   \* ids of wallets that were inserted with no limit to follow

calling       == <<call, at, route, made>>
placementVars == <<home, rows, limited, calling, told, orphaned>>

Shards == {"shard_1", "shard_2"}
Calls  == {"idle", "finding", "limiting", "answering"}

PlacementTypeOK ==
    /\ home \in [Servers -> Shards]
    /\ rows \subseteq [id : Nat, db : Shards]
    /\ limited \subseteq Nat
    /\ call \in [Callers -> Calls]
    /\ at \in [Callers -> Servers]
    /\ route \in [Callers -> Shards]
    /\ made \in [Callers -> Nat]
    /\ told \subseteq [route : Shards, id : Nat]
    /\ orphaned \subseteq Nat

AnyServer == CHOOSE s \in Servers : TRUE

PlacementInit ==
    /\ home \in [Servers -> Shards]
    /\ rows = {}
    /\ limited = {}
    /\ call = [c \in Callers |-> "idle"]
    /\ at = [c \in Callers |-> AnyServer]
    /\ route = [c \in Callers |-> "shard_1"]
    /\ made = [c \in Callers |-> 0]
    /\ told = {}
    /\ orphaned = {}

\* Requests that are over leave nothing behind.
Over(C) ==
    /\ call' = [c \in Callers |-> IF c \in C THEN "idle" ELSE call[c]]
    /\ at' = [c \in Callers |-> IF c \in C THEN AnyServer ELSE at[c]]
    /\ route' = [c \in Callers |-> IF c \in C THEN "shard_1" ELSE route[c]]
    /\ made' = [c \in Callers |-> IF c \in C THEN 0 ELSE made[c]]

NewId == Cardinality(rows) + 1

-----------------------------------------------------------------------------
\* What requests ask for: registration sends "PKR" when a user is created.
Asked == {"PKR", "pkr"}

\* The choices of InternalWalletCreateSerializer are lower-case.
Valid(currency) == currency = "pkr"

CreateInternal(c, s, currency) ==
    /\ call[c] = "idle"
    /\ Valid(currency)
    /\ call' = [call EXCEPT ![c] = "finding"]
    /\ at' = [at EXCEPT ![c] = s]
    /\ route' = [route EXCEPT ![c] = home[s]]
    /\ UNCHANGED <<home, rows, limited, made, told, orphaned>>

\* Mutant of In: get_or_create does not find what others inserted.
InNot(db) == {}

\* The wallet of the user in a shard: unique_together holds per database.
In(db) == {r \in rows : r.db = db}

\* get_or_create finds the wallet, at once or after the unique index refused
\* its insert: no limit is created then.
FindWallet(c) ==
    /\ call[c] = "finding"
    /\ \E r \in In(route[c]) : made' = [made EXCEPT ![c] = r.id]
    /\ call' = [call EXCEPT ![c] = "answering"]
    /\ UNCHANGED <<home, rows, limited, at, route, told, orphaned>>

InsertWallet(c) ==
    /\ call[c] = "finding"
    /\ In(route[c]) = {}
    /\ rows' = rows \cup {[id |-> NewId, db |-> route[c]]}
    /\ made' = [made EXCEPT ![c] = NewId]
    /\ call' = [call EXCEPT ![c] = "limiting"]
    /\ UNCHANGED <<home, limited, at, route, told, orphaned>>

\* The limit of a wallet is unique: if an admin was faster this fails.
CreateLimit(c) ==
    /\ call[c] = "limiting"
    /\ made[c] \notin limited
    /\ limited' = limited \cup {made[c]}
    /\ call' = [call EXCEPT ![c] = "answering"]
    /\ UNCHANGED <<home, rows, at, route, made, told, orphaned>>

\* 201, with or without a limit.
AnswerCaller(c) ==
    /\ call[c] = "answering"
    /\ told' = told \cup {[route |-> route[c], id |-> made[c]]}
    /\ Over({c})
    /\ UNCHANGED <<home, rows, limited, orphaned>>

Unfinished(C) == {made[c] : c \in {d \in C : call[d] = "limiting"}}

\* A database refuses a step, or the worker dies.
CallFails(c) ==
    /\ call[c] # "idle"
    /\ orphaned' = orphaned \cup Unfinished({c})
    /\ Over({c})
    /\ UNCHANGED <<home, rows, limited, told>>

\* A process is restarted: its strings hash to other values.
Restart(s, db) ==
    LET lost == {c \in Callers : at[c] = s}
    IN  /\ home' = [home EXCEPT ![s] = db]
        /\ orphaned' = orphaned \cup Unfinished(lost)
        /\ Over(lost)
        /\ UNCHANGED <<rows, limited, told>>

-----------------------------------------------------------------------------
\* The admin adds a wallet, and later its limit, in the shard of the admin.
AddWallet(db) ==
    /\ In(db) = {}
    /\ rows' = rows \cup {[id |-> NewId, db |-> db]}
    /\ orphaned' = orphaned \cup {NewId}
    /\ UNCHANGED <<home, limited, calling, told>>

AddLimit(r) ==
    /\ r.id \notin limited
    /\ limited' = limited \cup {r.id}
    /\ UNCHANGED <<home, rows, calling, told, orphaned>>

PlacementNext ==
    \/ \E c \in Callers :
          \/ \E s \in Servers, currency \in Asked : CreateInternal(c, s, currency)
          \/ FindWallet(c)
          \/ InsertWallet(c)
          \/ CreateLimit(c)
          \/ AnswerCaller(c)
          \/ CallFails(c)
    \/ \E s \in Servers, db \in Shards : Restart(s, db)
    \/ \E db \in Shards : AddWallet(db)
    \/ \E r \in rows : AddLimit(r)

PlacementSpec == PlacementInit /\ [][PlacementNext]_placementVars

-----------------------------------------------------------------------------
(* Properties                                                                *)

\* Requests to create the wallet that race, fail half-way and are repeated are
\* told one wallet, as long as they are sent to one shard; and a wallet has no
\* limit only if its creator is about to insert it, or did not live to.
CreationIsRepeatable ==
    /\ \A t \in told : [id |-> t.id, db |-> t.route] \in rows
    /\ \A t, u \in told : t.route = u.route => t.id = u.id
    /\ \A r \in rows :
          r.id \in limited \cup orphaned \cup Unfinished(Callers)
=============================================================================
