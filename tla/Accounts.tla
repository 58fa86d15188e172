------------------------------ MODULE Accounts ------------------------------
(***************************************************************************)
(* The accounts of identity_service, for one e-mail address: registration, *)
(* login with its lockout, and the change of the password.                 *)
(*                                                                         *)
(* Only registration runs in a transaction.  Every other request reads the *)
(* row of the user and later saves all of its columns from that copy,      *)
(* whatever was saved meanwhile.                                           *)
(***************************************************************************)
EXTENDS Integers, FiniteSets

CONSTANTS
    Workers,    \* threads and processes that serve requests
    Passwords,  \* passwords users can think of
    Limit,      \* failed logins in a row that lock the account (5 in the code)
    LastMoment  \* bound of the clock

ASSUME AccountsAssumption ==
    /\ IsFiniteSet(Workers)
    /\ Passwords # {}
    /\ Limit \in Nat \ {0}
    /\ LastMoment \in Nat

VARIABLES
    registered,  \* the user and its profile are committed
    user,        \* its row
    clock,       \* in units of the lock's thirty minutes
    step,        \* what each worker does next
    held,        \* the copy of the row a worker holds
    given,       \* the password its request brings
    token,       \* somebody has logged in and holds a token
    wrong,       \* wrong passwords answered in all, counted up to Limit
    misses,      \* ... and since the last lock, success or change
    chosen,      \* the password that was chosen last
    crowded      \* other requests were at work when it was saved

accountsWork  == <<step, held, given>>
accountsGhost == <<wrong, misses, chosen, crowded>>
accountsVars  == <<registered, user, clock, accountsWork, token, accountsGhost>>

User == [failed : Nat, until : Nat, password : Passwords]
Step == {"idle", "registering", "checked", "refused", "accepted", "again",
         "changing"}

AccountsTypeOK ==
    /\ registered \in BOOLEAN
    /\ user \in User
    /\ clock \in Nat
    /\ step \in [Workers -> Step]
    /\ held \in [Workers -> User]
    /\ given \in [Workers -> Passwords]
    /\ token \in BOOLEAN
    /\ wrong \in Nat
    /\ misses \in Nat
    /\ chosen \in Passwords
    /\ crowded \in BOOLEAN

\* The defaults of the columns.  until = 0: acc_locked_until is null.
Fresh(p) == [failed |-> 0, until |-> 0, password |-> p]

\* In the hands of a worker without a request.
Blank == Fresh(CHOOSE p \in Passwords : TRUE)

AccountsInit ==
    /\ registered = FALSE
    /\ clock = 0
    /\ step = [w \in Workers |-> "idle"]
    /\ token = FALSE
    /\ wrong = 0
    /\ misses = 0
    /\ crowded = FALSE
    /\ chosen = Blank.password
    /\ user = Blank
    /\ held = [w \in Workers |-> Blank]
    /\ given = [w \in Workers |-> Blank.password]

\* check_account_lockout
Locked(row) == clock < row.until

\* Worker w goes on to s, with that copy and that password in hand.
Proceed(w, s, row, p) ==
    /\ step' = [step EXCEPT ![w] = s]
    /\ held' = [held EXCEPT ![w] = row]
    /\ given' = [given EXCEPT ![w] = p]

\* A request that is over leaves nothing behind.
Answer(w) == Proceed(w, "idle", Blank, Blank.password)

-----------------------------------------------------------------------------
(* Registration                                                              *)

\* register_user inserts the user.  A second insert of the address waits for
\* the first one's transaction.
Register(w, p) ==
    /\ step[w] = "idle"
    /\ ~registered
    /\ \A v \in Workers : step[v] # "registering"
    /\ Proceed(w, "registering", held[w], p)
    /\ UNCHANGED <<registered, user, clock, token, accountsGhost>>

\* Whatever the wallet service answers to the call made inside the
\* transaction is logged at most; then the profile is inserted and both rows
\* are committed.
CommitUser(w) ==
    /\ step[w] = "registering"
    /\ registered' = TRUE
    /\ user' = Fresh(given[w])
    /\ chosen' = given[w]
    /\ Answer(w)
    /\ UNCHANGED <<clock, token, wrong, misses, crowded>>

-----------------------------------------------------------------------------
(* Login: CustomTokenObtainPairSerializer.validate                           *)

\* The row is read; a locked account refuses at once (and nothing changes).
Login(w, p) ==
    /\ step[w] = "idle"
    /\ registered
    /\ ~Locked(user)
    /\ Proceed(w, "checked", user, p)
    /\ UNCHANGED <<registered, user, clock, token, accountsGhost>>

\* authenticate reads the row again.  The failure is counted in the first
\* copy, the success is saved from the second.
Authenticate(w) ==
    /\ step[w] = "checked"
    /\ IF given[w] = user.password
       THEN Proceed(w, "accepted", user, given[w])
       ELSE Proceed(w, "refused", held[w], given[w])
    /\ UNCHANGED <<registered, user, clock, token, accountsGhost>>

\* Mutant of CountFailure: the lock comes one failure early.
CountFailureEarly(row) ==
    IF row.failed + 2 >= Limit
    THEN [row EXCEPT !.failed = 0, !.until = clock + 1]
    ELSE [row EXCEPT !.failed = row.failed + 1]

\* Mutant of CountFailure: the lock comes one failure late.
CountFailureLate(row) ==
    IF row.failed >= Limit
    THEN [row EXCEPT !.failed = 0, !.until = clock + 1]
    ELSE [row EXCEPT !.failed = row.failed + 1]

\* increment_failed_login
CountFailure(row) ==
    IF row.failed + 1 >= Limit
    THEN [row EXCEPT !.failed = 0, !.until = clock + 1]
    ELSE [row EXCEPT !.failed = row.failed + 1]

SaveFailure(w) ==
    /\ step[w] = "refused"
    /\ user' = CountFailure(held[w])
    /\ wrong' = IF wrong < Limit THEN wrong + 1 ELSE wrong
    /\ misses' = IF Locked(CountFailure(held[w])) THEN 0 ELSE misses + 1
    /\ Answer(w)
    /\ UNCHANGED <<registered, clock, token, chosen, crowded>>

\* reset_failed_login saves only if there is something to reset.
SaveSuccess(w) ==
    /\ step[w] = "accepted"
    /\ user' = IF held[w].failed > 0 THEN [held[w] EXCEPT !.failed = 0] ELSE user
    /\ misses' = 0
    /\ Proceed(w, "again", held[w], given[w])
    /\ UNCHANGED <<registered, clock, token, wrong, chosen, crowded>>

\* super().validate authenticates once more; a password changed meanwhile is
\* refused without being counted.
GetToken(w) ==
    /\ step[w] = "again"
    /\ token' = (token \/ given[w] = user.password)
    /\ Answer(w)
    /\ UNCHANGED <<registered, user, clock, accountsGhost>>

-----------------------------------------------------------------------------
(* The change of the password                                                *)

\* The token's user is read, and the old password is checked against it.
ChangePassword(w, old, new) ==
    /\ step[w] = "idle"
    /\ token
    /\ old = user.password
    /\ Proceed(w, "changing", user, new)
    /\ UNCHANGED <<registered, user, clock, token, accountsGhost>>

\* Mutant of StorePassword: the new password is set, but never saved.
StorePasswordNot(row, p) == user' = row

\* update_password
StorePassword(row, p) == user' = [row EXCEPT !.password = p]

SavePassword(w) ==
    /\ step[w] = "changing"
    /\ StorePassword(held[w], given[w])
    /\ chosen' = given[w]
    /\ misses' = 0
    /\ crowded' = \E v \in Workers \ {w} : step[v] # "idle"
    /\ Answer(w)
    /\ UNCHANGED <<registered, clock, token, wrong>>

-----------------------------------------------------------------------------
\* A worker dies, or the database refuses it: its request is over.
WorkerCrash(w) ==
    /\ step[w] # "idle"
    /\ Answer(w)
    /\ UNCHANGED <<registered, user, clock, token, accountsGhost>>

\* Half an hour goes by.
Tick ==
    /\ clock < LastMoment
    /\ clock' = clock + 1
    /\ UNCHANGED <<registered, user, accountsWork, token, accountsGhost>>

AccountsNext ==
    \/ \E w \in Workers :
          \/ \E p \in Passwords : Register(w, p) \/ Login(w, p)
          \/ \E old, new \in Passwords : ChangePassword(w, old, new)
          \/ CommitUser(w)
          \/ Authenticate(w)
          \/ SaveFailure(w)
          \/ SaveSuccess(w)
          \/ GetToken(w)
          \/ SavePassword(w)
          \/ WorkerCrash(w)
    \/ Tick

AccountsSpec == AccountsInit /\ [][AccountsNext]_accountsVars

-----------------------------------------------------------------------------
(* Properties                                                                *)

\* An account is locked, and a failure counted, only if passwords were wrong:
\* copies saved late never make increment_failed_login count more than was
\* answered.
LockNeedsFailures ==
    /\ user.until > 0 => wrong = Limit
    /\ user.failed <= wrong

\* The ways in which the counts of n requests can stand below a limit: how many
\* of them are at most 0, at most 1, and so on.  There are "n + limit - 1 choose
\* n" of them.
Tallies(n, limit) ==
    {t \in [0..limit-1 -> 0..n] :
        /\ t[limit-1] = n
        /\ \A v \in 1..limit-1 : t[v-1] <= t[v]}

\* Copies saved late undo counts and locks, but only so many: fewer wrong
\* passwords in a row are answered without one that locks the account than there
\* are ways in which the counts of all workers can stand (for one worker, the
\* Limit - 1 of the code).
MissesAreBounded == misses < Cardinality(Tallies(Cardinality(Workers), Limit))

\* A password that was saved while no other request was at work stays until
\* the next one is chosen: no request that begins later brings an old one
\* back.
PasswordStays == ~crowded => user.password = chosen

-----------------------------------------------------------------------------
(* The invariant behind MissesAreBounded                                     *)

\* The count that worker w goes on from: that of the copy it may add a failure
\* to, but no higher than that of the row, which a new request would find.
Known(w) ==
    IF step[w] \in {"checked", "refused"} /\ held[w].failed < user.failed
    THEN held[w].failed
    ELSE user.failed

AtMost(v) == {w \in Workers : Known(w) <= v}

Tally == [v \in 0..Limit-1 |-> Cardinality(AtMost(v))]

\* One tally is under another if more counts are small where they differ first.
Under(t, u) ==
    \E v \in 0..Limit-1 : t[v] > u[v] /\ \A k \in 0..v-1 : t[k] = u[k]

Lower(u) == {t \in Tallies(Cardinality(Workers), Limit) : Under(t, u)}

\* The counts of the row and of all copies are below the limit.
CountsBelow ==
    /\ user.failed < Limit
    /\ \A w \in Workers : held[w].failed < Limit

\* Every miss leaves a tally behind, for good: the next ones are over it.
MissInv ==
    /\ CountsBelow
    /\ ~registered => misses = 0
    /\ misses <= Cardinality(Lower(Tally))
=============================================================================
