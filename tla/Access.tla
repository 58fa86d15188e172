-------------------------------- MODULE Access --------------------------------
(***************************************************************************)
(* What the services let the bearer of a token do.  identity_service puts  *)
(* three claims about the account into a token at login: its control, its  *)
(* staff flag, and whether its KYC profile is verified.  The six others    *)
(* never ask for the account again: they decide on the claims.  Identity   *)
(* itself reads the row of the account with each request, for its staff    *)
(* flag and to see that it is still active, and decides on the claims too. *)
(*                                                                         *)
(* A refresh (ROTATE_REFRESH_TOKENS) answers with a new pair of tokens and *)
(* the claims of the old one, so that a session that is refreshed in time  *)
(* keeps what its login has found, whatever becomes of the account.  A     *)
(* request changes nothing here: what it does once it is served is in the  *)
(* other modules, and this one says which are served (Serves).  Requests   *)
(* without any token are left out: only views that ask for none, such as   *)
(* the rates, serve them, and they get no more than everybody is shown.    *)
(***************************************************************************)
EXTENDS Integers

CONSTANTS
    Sessions,     \* logins at a time
    AccessLife,   \* ACCESS_TOKEN_LIFETIME (60 minutes in the code)
    RefreshLife,  \* REFRESH_TOKEN_LIFETIME (1 day in the code)
    LastHour      \* bound of the clock

ASSUME AccessAssumption ==
    /\ AccessLife \in Nat \ {0}
    /\ RefreshLife \in Nat
    /\ RefreshLife >= AccessLife
    /\ LastHour \in Nat

VARIABLES
    account,  \* what the rows of the user say now
    hour,     \* the time
    session,  \* the newest pair of tokens of each session
    entered,  \* the account as it was when the session began
    renewed   \* when its tokens were issued

accessVars == <<account, hour, session, entered, renewed>>

Control == {"user", "merchant", "agent", "admin"}
Claims  == [control : Control, staff : BOOLEAN, verified : BOOLEAN]
\* The columns behind the claims, and whether the row is there and active.
Person  == [claims : Claims, active : BOOLEAN]
Tokens  == [claims : Claims, access : Nat, refresh : Nat]

\* The defaults of the columns.
NewAccount == [control |-> "user", staff |-> FALSE, verified |-> FALSE]
\* Both tokens have expired.
NoTokens   == [claims |-> NewAccount, access |-> 0, refresh |-> 0]

AccessTypeOK ==
    /\ account \in Person
    /\ hour \in Nat
    /\ session \in [Sessions -> Tokens]
    /\ entered \in [Sessions -> Claims]
    /\ renewed \in [Sessions -> Nat]

AccessInit ==
    /\ account = [claims |-> NewAccount, active |-> TRUE]
    /\ hour = 0
    /\ session = [s \in Sessions |-> NoTokens]
    /\ entered = [s \in Sessions |-> NewAccount]
    /\ renewed = [s \in Sessions |-> 0]

-----------------------------------------------------------------------------
\* The admin site, an approval, or the expiry of the KYC profile.
ChangeAccount(row) ==
    /\ account' = row
    /\ UNCHANGED <<hour, session, entered, renewed>>

Issued(claims) ==
    [claims |-> claims, access |-> hour + AccessLife, refresh |-> hour + RefreshLife]

\* get_token, after the password of an active account was accepted (see Accounts).
Enter(s) ==
    /\ account.active
    /\ session' = [session EXCEPT ![s] = Issued(account.claims)]
    /\ entered' = [entered EXCEPT ![s] = account.claims]
    /\ renewed' = [renewed EXCEPT ![s] = hour]
    /\ UNCHANGED <<account, hour>>

\* The token_refresh endpoint: the refresh token is valid, and its claims are
\* copied into both of the new ones.  (Some releases of the library ask that the
\* account is still active; which one is installed is not pinned.)
Refresh(s) ==
    /\ hour < session[s].refresh
    /\ session' = [session EXCEPT ![s] = Issued(session[s].claims)]
    /\ renewed' = [renewed EXCEPT ![s] = hour]
    /\ UNCHANGED <<account, hour, entered>>

\* The client forgets its tokens.
LogOut(s) ==
    /\ session' = [session EXCEPT ![s] = NoTokens]
    /\ entered' = [entered EXCEPT ![s] = NewAccount]
    /\ renewed' = [renewed EXCEPT ![s] = 0]
    /\ UNCHANGED <<account, hour>>

NextHour ==
    /\ hour < LastHour
    /\ hour' = hour + 1
    /\ UNCHANGED <<account, session, entered, renewed>>

AccessNext ==
    \/ NextHour
    \/ \E row \in Person : ChangeAccount(row)
    \/ \E s \in Sessions :
          \/ Enter(s)
          \/ Refresh(s)
          \/ LogOut(s)

AccessSpec == AccessInit /\ [][AccessNext]_accessVars

-----------------------------------------------------------------------------
(* Which requests are served                                                 *)

\* What is asked for: rows of a kind are listed, one of them is fetched to be
\* shown, changed or deleted ("open"), one is made, or one is decided on; and
\* whether the bearer of the token owns them.
Objects == {"wallet", "flag", "spending", "transaction", "refund", "statement",
            "endpoint", "event", "rate", "profile", "account"}
Demands == [kind : Objects, act : {"list", "open", "make", "decide"}, own : BOOLEAN]

\* The settings of each service: whose key signs the tokens it accepts, and
\* whether it looks for the row of the account as well.
IdentityDoor     == [key |-> "identity", row |-> TRUE]
WalletDoor       == [key |-> "identity", row |-> FALSE]
TransactionDoor  == [key |-> "identity", row |-> FALSE]
SettlementDoor   == [key |-> "identity", row |-> FALSE]
NotificationDoor == [key |-> "identity", row |-> FALSE]
RecordDoor       == [key |-> "identity", row |-> FALSE]
ForexDoor        == [key |-> "identity", row |-> FALSE]

Door(kind) ==
    CASE kind \in {"wallet", "flag", "spending"} -> WalletDoor
      [] kind \in {"transaction", "refund"}      -> TransactionDoor
      [] kind = "statement"                      -> SettlementDoor
      [] kind = "endpoint"                       -> NotificationDoor
      [] kind = "event"                          -> RecordDoor
      [] kind = "rate"                           -> ForexDoor
      [] OTHER                                   -> IdentityDoor

\* JWTTokenUserAuthentication: signature and expiry, no database.  A token that
\* has expired is refused even by views that ask for no permission.
Alive(s) == hour < session[s].access

\* Identity signs the tokens of every session.
Admits(door) == door.key = "identity" /\ (door.row => account.active)

Super(claims) == claims.control = "admin" \/ claims.staff

\* Mutant of Permitted: everybody with a token is permitted.
PermittedAlways(claims) == TRUE

\* PakRemitPermission.has_permission
Permitted(claims) ==
    \/ Super(claims)
    \/ claims.verified /\ claims.control \in {"user", "merchant", "agent"}

\* PakRemitPermission.has_object_permission, for views that fetch one object.
\* It knows the owner by the attributes wallet, user or user_id: transfers,
\* refunds, statements and webhook endpoints have none of them, and are left to
\* administrators; a staff flag does not help.
MayTouch(claims, r) ==
    claims.control = "admin" \/ (r.kind \in {"wallet", "flag", "profile"} /\ r.own)

\* get_queryset of the views: whether the rows asked for are among theirs.
\* Statements, differences and rates belong to nobody.
WalletRows(claims, own)      == own \/ Super(claims)
FlagRows(claims, own)        == own \/ Super(claims)
SpendingRows(claims, own)    == own \/ claims.control = "admin"
TransactionRows(claims, own) == own
RefundRows(claims, own)      == own \/ claims.control = "admin"
EndpointRows(claims, own)    == own \/ claims.control = "admin"
EventRows(claims, own)       == own \/ claims.control = "admin"
ProfileRows(claims, own)     == own \/ claims.control = "admin" \/ account.claims.staff
SharedRows(own)              == ~own
AccountRows(own)             == own

Shown(claims, r) ==
    CASE r.kind = "wallet"      -> WalletRows(claims, r.own)
      [] r.kind = "flag"        -> FlagRows(claims, r.own)
      [] r.kind = "spending"    -> SpendingRows(claims, r.own)
      [] r.kind = "transaction" -> TransactionRows(claims, r.own)
      [] r.kind = "refund"      -> RefundRows(claims, r.own)
      [] r.kind = "endpoint"    -> EndpointRows(claims, r.own)
      [] r.kind = "event"       -> EventRows(claims, r.own)
      [] r.kind = "profile"     -> ProfileRows(claims, r.own)
      [] r.kind \in {"statement", "rate"} -> SharedRows(r.own)
      [] OTHER                  -> AccountRows(r.own)

\* Lists, the monthly summary and the rates of all pairs.  SpendingViewSet says
\* permission_class, which nothing reads: the default is AllowAny.
Lists(claims, r) ==
    /\ r.kind \notin {"profile", "account", "spending", "rate"} => Permitted(claims)
    /\ r.kind = "profile" => Super(claims)
    /\ Shown(claims, r)

\* One row: get_object of the views, for freeze, settle, resolve and the rest.
\* "convert" fetches no object.
Opens(claims, r) ==
    /\ r.kind \notin {"event", "account"}
    /\ r.kind # "spending" => Permitted(claims)
    /\ r.kind \notin {"spending", "rate"} => MayTouch(claims, r)
    /\ Shown(claims, r)

\* Transfers, requests for a refund, uploads, endpoints, replays; the profile and
\* the password of the bearer need no verified profile.
Makes(claims, r) ==
    /\ r.kind \notin {"wallet", "flag", "spending", "rate"}
    /\ r.own
    /\ r.kind \notin {"profile", "account"} => Permitted(claims)

\* Flags are resolved, refunds approved, rates updated, profiles approved.
\* "resolve" asks for a privileged claim, but is_resolved is a writable field of
\* FraudFlagSerializer as well: whoever opens a flag may write it.
Decides(claims, r) ==
    \/ r.kind = "flag"    /\ Opens(claims, r)
    \/ r.kind = "refund"  /\ Super(claims)
    \/ r.kind = "rate"    /\ claims.control = "admin" /\ Shown(claims, r)
    \/ r.kind = "profile" /\ Super(claims) /\ Shown(claims, r)

Serves(s, r) ==
    LET claims == session[s].claims
    IN  /\ Alive(s)
        /\ Admits(Door(r.kind))
        /\ CASE r.act = "list" -> Lists(claims, r)
             [] r.act = "open" -> Opens(claims, r)
             [] r.act = "make" -> Makes(claims, r)
             [] OTHER          -> Decides(claims, r)

-----------------------------------------------------------------------------
(* Properties                                                                *)

\* What everybody is shown, and what needs no verified profile.
Common(r)  == (r.kind \in {"statement", "rate"} /\ r.act = "list")
              \/ (r.kind = "rate" /\ r.act = "open")
Unasked(r) == r.kind \in {"profile", "account", "spending"}
              \/ (r.kind = "rate" /\ r.act = "list")

\* Over any chain of refreshes, and whatever becomes of the account meanwhile,
\* a request is served only on tokens younger than AccessLife, and, if identity
\* serves it, for an account that is not closed.  Unless the account was
\* privileged when the session began, the request is about the bearer's own rows
\* or about those that everybody is shown, it decides on nothing but a flag of
\* the bearer's wallets, and the account was verified when the session began or
\* the view asks for no verification.
ServedAsEntered ==
    \A s \in Sessions, r \in Demands : Serves(s, r) =>
        /\ hour < renewed[s] + AccessLife
        /\ r.kind \in {"profile", "account"} => account.active
        /\ \/ Super(entered[s])
           \/ /\ r.act = "decide" => r.kind = "flag"
              /\ r.own \/ Common(r)
              /\ entered[s].verified \/ Unasked(r)
=============================================================================
