--------------------------- MODULE IdentityProofs ---------------------------
(***************************************************************************)
(* Proofs about identity_service: about Accounts for every set of workers  *)
(* and passwords, and every limit and bound of the clock, and about Kyc    *)
(* for every set of handlers and tiers and all bounds.                     *)
(***************************************************************************)
EXTENDS Accounts, Kyc, FiniteSetTheorems, TLAPS

-----------------------------------------------------------------------------
(* Accounts: type correctness                                                *)

LEMMA BlankIsUser == Blank \in User
<1>1. (CHOOSE p \in Passwords : TRUE) \in Passwords
  BY AccountsAssumption
<1>2. QED
  BY <1>1 DEF Blank, Fresh, User

LEMMA ProceedTypeOK ==
  ASSUME AccountsTypeOK, NEW w \in Workers, NEW s \in Step, NEW row \in User,
         NEW p \in Passwords, Proceed(w, s, row, p)
  PROVE  /\ step' \in [Workers -> Step]
         /\ held' \in [Workers -> User]
         /\ given' \in [Workers -> Passwords]
BY DEF AccountsTypeOK, Proceed

LEMMA AnswerTypeOK ==
  ASSUME AccountsTypeOK, NEW w \in Workers, Answer(w)
  PROVE  /\ step' \in [Workers -> Step]
         /\ held' \in [Workers -> User]
         /\ given' \in [Workers -> Passwords]
<1>1. Blank.password \in Passwords /\ "idle" \in Step
  BY BlankIsUser DEF User, Step
<1>2. QED
  BY <1>1, BlankIsUser, ProceedTypeOK DEF Answer

LEMMA CountFailureTypeOK ==
  ASSUME AccountsTypeOK, NEW row \in User
  PROVE  CountFailure(row) \in User
<1>1. /\ row.failed \in Nat /\ row.until \in Nat /\ row.password \in Passwords
      /\ clock \in Nat
  BY DEF AccountsTypeOK, User
<1>2. [row EXCEPT !.failed = 0, !.until = clock + 1] \in User
  <2>1. [row EXCEPT !.failed = 0] \in User
    BY DEF User
  <2>2. \A r \in User : [r EXCEPT !.until = clock + 1] \in User
    BY <1>1 DEF User
  <2>3. QED
    BY <2>1, <2>2
<1>3. [row EXCEPT !.failed = row.failed + 1] \in User
  BY <1>1 DEF User
<1>4. QED
  BY <1>2, <1>3 DEF CountFailure

LEMMA AccountsInitTypeOK == AccountsInit => AccountsTypeOK
<1>1. Blank.password \in Passwords
  BY BlankIsUser DEF User
<1>2. SUFFICES ASSUME AccountsInit PROVE AccountsTypeOK
  OBVIOUS
<1>3. /\ step \in [Workers -> Step]
      /\ held \in [Workers -> User]
      /\ given \in [Workers -> Passwords]
  BY <1>1, <1>2, BlankIsUser DEF AccountsInit, Step
<1>4. /\ user \in User
      /\ clock \in Nat
      /\ wrong \in Nat
      /\ misses \in Nat
      /\ chosen \in Passwords
  BY <1>1, <1>2, BlankIsUser DEF AccountsInit
<1>5. registered \in BOOLEAN /\ token \in BOOLEAN /\ crowded \in BOOLEAN
  BY <1>2 DEF AccountsInit
<1>6. QED
  BY <1>3, <1>4, <1>5 DEF AccountsTypeOK

LEMMA AccountsNextTypeOK ==
  AccountsTypeOK /\ [AccountsNext]_accountsVars => AccountsTypeOK'
<1> SUFFICES ASSUME AccountsTypeOK, [AccountsNext]_accountsVars
             PROVE  AccountsTypeOK'
  OBVIOUS
<1> DEFINE Working ==
      /\ step' \in [Workers -> Step]
      /\ held' \in [Workers -> User]
      /\ given' \in [Workers -> Passwords]
<1>1. ASSUME NEW w \in Workers, NEW p \in Passwords, Register(w, p)
      PROVE  AccountsTypeOK'
  <2>1. held[w] \in User /\ "registering" \in Step
    BY DEF AccountsTypeOK, Step
  <2>2. Working
    BY <1>1, <2>1, ProceedTypeOK DEF Register
  <2>3. QED
    BY <1>1, <2>2 DEF Register, AccountsTypeOK, accountsGhost
<1>2. ASSUME NEW w \in Workers, CommitUser(w) PROVE AccountsTypeOK'
  <2>1. Working
    BY <1>2, AnswerTypeOK DEF CommitUser
  <2>2. user' \in User /\ chosen' \in Passwords
    BY <1>2 DEF CommitUser, Fresh, User, AccountsTypeOK
  <2>3. QED
    BY <1>2, <2>1, <2>2 DEF CommitUser, AccountsTypeOK
<1>3. ASSUME NEW w \in Workers, NEW p \in Passwords, Login(w, p)
      PROVE  AccountsTypeOK'
  <2>1. user \in User /\ "checked" \in Step
    BY DEF AccountsTypeOK, Step
  <2>2. Working
    BY <1>3, <2>1, ProceedTypeOK DEF Login
  <2>3. QED
    BY <1>3, <2>2 DEF Login, AccountsTypeOK, accountsGhost
<1>4. ASSUME NEW w \in Workers, Authenticate(w) PROVE AccountsTypeOK'
  <2>1. /\ user \in User /\ held[w] \in User /\ given[w] \in Passwords
        /\ "accepted" \in Step /\ "refused" \in Step
    BY DEF AccountsTypeOK, Step
  <2>2. Working
    BY <1>4, <2>1, ProceedTypeOK DEF Authenticate
  <2>3. QED
    BY <1>4, <2>2 DEF Authenticate, AccountsTypeOK, accountsGhost
<1>5. ASSUME NEW w \in Workers, SaveFailure(w) PROVE AccountsTypeOK'
  <2>1. Working
    BY <1>5, AnswerTypeOK DEF SaveFailure
  <2>2. user' \in User
    BY <1>5, CountFailureTypeOK DEF SaveFailure, AccountsTypeOK
  <2>3. wrong' \in Nat /\ misses' \in Nat
    BY <1>5 DEF SaveFailure, AccountsTypeOK
  <2>4. QED
    BY <1>5, <2>1, <2>2, <2>3 DEF SaveFailure, AccountsTypeOK
<1>6. ASSUME NEW w \in Workers, SaveSuccess(w) PROVE AccountsTypeOK'
  <2>1. held[w] \in User /\ given[w] \in Passwords /\ "again" \in Step
    BY DEF AccountsTypeOK, Step
  <2>2. Working
    BY <1>6, <2>1, ProceedTypeOK DEF SaveSuccess
  <2>3. user' \in User
    BY <1>6, <2>1 DEF SaveSuccess, AccountsTypeOK, User
  <2>4. QED
    BY <1>6, <2>2, <2>3 DEF SaveSuccess, AccountsTypeOK
<1>7. ASSUME NEW w \in Workers, GetToken(w) PROVE AccountsTypeOK'
  <2>1. Working
    BY <1>7, AnswerTypeOK DEF GetToken
  <2>2. QED
    BY <1>7, <2>1 DEF GetToken, AccountsTypeOK, accountsGhost
<1>8. ASSUME NEW w \in Workers, NEW old \in Passwords, NEW new \in Passwords,
             ChangePassword(w, old, new)
      PROVE  AccountsTypeOK'
  <2>1. user \in User /\ "changing" \in Step
    BY DEF AccountsTypeOK, Step
  <2>2. Working
    BY <1>8, <2>1, ProceedTypeOK DEF ChangePassword
  <2>3. QED
    BY <1>8, <2>2 DEF ChangePassword, AccountsTypeOK, accountsGhost
<1>9. ASSUME NEW w \in Workers, SavePassword(w) PROVE AccountsTypeOK'
  <2>1. Working
    BY <1>9, AnswerTypeOK DEF SavePassword
  <2>2. user' \in User
    BY <1>9 DEF SavePassword, StorePassword, AccountsTypeOK, User
  <2>3. QED
    BY <1>9, <2>1, <2>2 DEF SavePassword, AccountsTypeOK
<1>10. ASSUME NEW w \in Workers, WorkerCrash(w) PROVE AccountsTypeOK'
  <2>1. Working
    BY <1>10, AnswerTypeOK DEF WorkerCrash
  <2>2. QED
    BY <1>10, <2>1 DEF WorkerCrash, AccountsTypeOK, accountsGhost
<1>11. CASE Tick
  BY <1>11 DEF Tick, AccountsTypeOK, accountsWork, accountsGhost
<1>12. CASE UNCHANGED accountsVars
  BY <1>12 DEF accountsVars, accountsWork, accountsGhost, AccountsTypeOK
<1>13. QED
  BY <1>1, <1>2, <1>3, <1>4, <1>5, <1>6, <1>7, <1>8, <1>9, <1>10, <1>11, <1>12
     DEF AccountsNext

\* Every reachable state of the accounts is well typed: the counter and the
\* end of the lock that late copies bring into the row are always numbers, and
\* its password one that somebody chose.
THEOREM AccountsTypeCorrect == AccountsSpec => []AccountsTypeOK
<1>1. QED
  BY AccountsInitTypeOK, AccountsNextTypeOK, PTL DEF AccountsSpec

-----------------------------------------------------------------------------
(* Accounts: the counter and the lock                                        *)

\* What a row may say of failures, be it stored or in the hands of a worker.
Honest(row) == row.failed <= wrong /\ (row.until > 0 => wrong = Limit)

LockInv ==
    /\ wrong <= Limit
    /\ Honest(user)
    /\ \A w \in Workers : Honest(held[w])

LEMMA BlankIsHonest == AccountsTypeOK => Honest(Blank)
BY AccountsAssumption DEF AccountsTypeOK, Honest, Blank, Fresh

LEMMA LockInit == AccountsInit => LockInv
BY AccountsAssumption DEF AccountsInit, LockInv, Honest, Blank, Fresh

\* A worker that takes an honest copy leaves all copies honest.
LEMMA ProceedHonest ==
  ASSUME AccountsTypeOK, LockInv, NEW w \in Workers, NEW s, NEW row, NEW p,
         Honest(row), wrong' = wrong, Proceed(w, s, row, p)
  PROVE  \A v \in Workers : Honest(held[v])'
BY DEF AccountsTypeOK, LockInv, Honest, Proceed

LEMMA LockNext ==
  AccountsTypeOK /\ LockInv /\ [AccountsNext]_accountsVars => LockInv'
<1> SUFFICES ASSUME AccountsTypeOK, LockInv, [AccountsNext]_accountsVars
             PROVE  LockInv'
  OBVIOUS
<1>a. Honest(Blank) /\ Honest(user) /\ \A w \in Workers : Honest(held[w])
  BY BlankIsHonest DEF LockInv
<1>1. ASSUME NEW w \in Workers, NEW p \in Passwords,
             Register(w, p) \/ Login(w, p)
      PROVE  LockInv'
  <2>1. wrong' = wrong /\ user' = user
    BY <1>1 DEF Register, Login, accountsGhost
  <2>2. \A v \in Workers : Honest(held[v])'
    BY <1>1, <1>a, <2>1, ProceedHonest DEF Register, Login
  <2>3. QED
    BY <2>1, <2>2 DEF LockInv, Honest
<1>2. ASSUME NEW w \in Workers, CommitUser(w) PROVE LockInv'
  <2>1. wrong' = wrong /\ user' = Fresh(given[w])
    BY <1>2 DEF CommitUser
  <2>2. \A v \in Workers : Honest(held[v])'
    BY <1>2, <1>a, <2>1, ProceedHonest DEF CommitUser, Answer
  <2>3. QED
    BY <2>1, <2>2 DEF LockInv, Honest, Fresh, AccountsTypeOK
<1>3. ASSUME NEW w \in Workers, Authenticate(w) \/ GetToken(w) \/ WorkerCrash(w)
      PROVE  LockInv'
  <2>1. wrong' = wrong /\ user' = user
    BY <1>3 DEF Authenticate, GetToken, WorkerCrash, accountsGhost
  <2>2. \A v \in Workers : Honest(held[v])'
    BY <1>3, <1>a, <2>1, ProceedHonest
       DEF Authenticate, GetToken, WorkerCrash, Answer
  <2>3. QED
    BY <2>1, <2>2 DEF LockInv, Honest
<1>4. ASSUME NEW w \in Workers, SaveFailure(w) PROVE LockInv'
  <2>1. /\ held[w].failed \in Nat /\ held[w].failed <= wrong
        /\ held[w].until > 0 => wrong = Limit
        /\ wrong \in Nat /\ Limit \in Nat /\ wrong <= Limit
        /\ held[w] \in User
    BY <1>a, AccountsAssumption DEF AccountsTypeOK, LockInv, Honest, User
  <2>2. wrong' = IF wrong < Limit THEN wrong + 1 ELSE wrong
    BY <1>4 DEF SaveFailure
  <2>3. wrong' <= Limit /\ wrong <= wrong' /\ wrong' \in Nat
    BY <2>1, <2>2
  <2>4. Honest(user)'
    <3>1. user' = CountFailure(held[w])
      BY <1>4 DEF SaveFailure
    <3>2. CASE held[w].failed + 1 >= Limit
      <4>1. user'.failed = 0
        BY <2>1, <3>1, <3>2 DEF CountFailure, User
      <4>2. wrong' = Limit
        BY <2>1, <2>2, <3>2
      <4>3. QED
        BY <4>1, <4>2, <2>3 DEF Honest
    <3>3. CASE ~(held[w].failed + 1 >= Limit)
      <4>1. user'.failed = held[w].failed + 1 /\ user'.until = held[w].until
        BY <2>1, <3>1, <3>3 DEF CountFailure, User
      <4>2. held[w].failed + 1 <= wrong'
        BY <2>1, <2>2, <3>3
      <4>3. held[w].until > 0 => wrong' = Limit
        BY <2>1, <2>2
      <4>4. QED
        BY <4>1, <4>2, <4>3 DEF Honest
    <3>4. QED
      BY <3>2, <3>3
  <2>5. ASSUME NEW v \in Workers PROVE Honest(held[v])'
    <3>1. held'[v] = Blank \/ held'[v] = held[v]
      BY <1>4 DEF SaveFailure, Answer, Proceed, AccountsTypeOK
    <3>2. Honest(held'[v])
      BY <3>1, <1>a
    <3>3. held'[v] \in User
      BY <3>1, BlankIsUser DEF AccountsTypeOK
    <3>4. QED
      BY <3>2, <3>3, <2>1, <2>2, <2>3 DEF Honest, User
  <2>6. QED
    BY <2>3, <2>4, <2>5 DEF LockInv
<1>5. ASSUME NEW w \in Workers, SaveSuccess(w) PROVE LockInv'
  <2>1. wrong' = wrong
    BY <1>5 DEF SaveSuccess
  <2>2. \A v \in Workers : Honest(held[v])'
    BY <1>5, <1>a, <2>1, ProceedHonest DEF SaveSuccess
  <2>3. held[w] \in User /\ Honest(held[w])
    BY <1>a DEF AccountsTypeOK
  <2>4. Honest(user)'
    BY <1>5, <1>a, <2>1, <2>3 DEF SaveSuccess, Honest, User, AccountsTypeOK
  <2>5. QED
    BY <2>1, <2>2, <2>4 DEF LockInv
<1>6. ASSUME NEW w \in Workers, NEW old \in Passwords, NEW new \in Passwords,
             ChangePassword(w, old, new)
      PROVE  LockInv'
  <2>1. wrong' = wrong /\ user' = user
    BY <1>6 DEF ChangePassword, accountsGhost
  <2>2. \A v \in Workers : Honest(held[v])'
    BY <1>6, <1>a, <2>1, ProceedHonest DEF ChangePassword
  <2>3. QED
    BY <2>1, <2>2 DEF LockInv, Honest
<1>7. ASSUME NEW w \in Workers, SavePassword(w) PROVE LockInv'
  <2>1. wrong' = wrong
    BY <1>7 DEF SavePassword
  <2>2. \A v \in Workers : Honest(held[v])'
    BY <1>7, <1>a, <2>1, ProceedHonest DEF SavePassword, Answer
  <2>3. held[w] \in User /\ Honest(held[w])
    BY <1>a DEF AccountsTypeOK
  <2>4. Honest(user)'
    BY <1>7, <2>1, <2>3 DEF SavePassword, StorePassword, Honest, User
  <2>5. QED
    BY <2>1, <2>2, <2>4 DEF LockInv
<1>8. CASE Tick \/ UNCHANGED accountsVars
  BY <1>8 DEF Tick, accountsVars, accountsWork, accountsGhost, LockInv, Honest
<1>9. QED
  BY <1>1, <1>2, <1>3, <1>4, <1>5, <1>6, <1>7, <1>8 DEF AccountsNext

\* The lockout never counts more than was answered: whatever copies are saved
\* late, increment_failed_login locks the account, and raises the counter, for
\* passwords that were wrong.
THEOREM LocksAreDeserved == AccountsSpec => []LockNeedsFailures
<1>1. LockInv => LockNeedsFailures
  BY DEF LockInv, Honest, LockNeedsFailures
<1>2. QED
  BY AccountsTypeCorrect, LockInit, LockNext, <1>1, PTL DEF AccountsSpec

-----------------------------------------------------------------------------
(* Accounts: the password                                                    *)

\* Worker w holds a copy of the row that it may still save, or use.
Holding(w) == step[w] \in {"checked", "refused", "accepted", "again", "changing"}

\* While the last change was made by nobody else's leave, no copy anywhere
\* holds another password; and an address is registered once.
PasswordInv ==
    /\ \A w \in Workers : Holding(w) => registered
    /\ \A v, w \in Workers :
          step[v] = "registering" =>
              ~registered /\ (step[w] = "registering" => v = w)
    /\ token => registered
    /\ ~crowded => /\ user.password = chosen
                   /\ \A w \in Workers : Holding(w) => held[w].password = chosen

LEMMA PasswordInit == AccountsInit => PasswordInv
BY DEF AccountsInit, PasswordInv, Holding, Blank

\* A worker that gets an answer, or takes on something else than a
\* registration with a copy that holds the chosen password.
LEMMA ProceedKeepsPassword ==
  ASSUME AccountsTypeOK, PasswordInv, NEW w \in Workers, NEW s \in Step, NEW row,
         NEW p, Proceed(w, s, row, p), registered' = registered, user' = user,
         chosen' = chosen, crowded' = crowded, token' => registered,
         s # "registering",
         s # "idle" => registered /\ (~crowded => row.password = chosen)
  PROVE  PasswordInv'
<1>1. \A v \in Workers : /\ v # w => step'[v] = step[v] /\ held'[v] = held[v]
                         /\ v = w => step'[v] = s /\ held'[v] = row
  BY DEF Proceed, AccountsTypeOK
<1>2. \A v \in Workers : Holding(v)' => registered'
  BY <1>1 DEF PasswordInv, Holding
<1>3. \A v, u \in Workers :
          step'[v] = "registering" =>
              ~registered' /\ (step'[u] = "registering" => v = u)
  BY <1>1 DEF PasswordInv
<1>4. ~crowded' => user'.password = chosen'
  BY DEF PasswordInv
<1>5. ASSUME NEW v \in Workers, Holding(v)', ~crowded'
      PROVE  held'[v].password = chosen'
  <2>1. CASE v = w
    BY <1>1, <1>5, <2>1 DEF Holding
  <2>2. CASE v # w
    BY <1>1, <1>5, <2>2 DEF Holding, PasswordInv
  <2>3. QED
    BY <2>1, <2>2
<1>6. QED
  BY <1>2, <1>3, <1>4, <1>5 DEF PasswordInv

\* A worker that saves its copy with another counter, lock or nothing changed.
LEMMA SaveKeepsPassword ==
  ASSUME AccountsTypeOK, PasswordInv, NEW w \in Workers, Holding(w), NEW s \in Step,
         NEW row, NEW p, Proceed(w, s, row, p), registered' = registered,
         chosen' = chosen, crowded' = crowded, token' = token,
         user'.password \in {user.password, held[w].password},
         s = "idle" \/ (s = "again" /\ row = held[w])
  PROVE  PasswordInv'
<1>1. \A v \in Workers : /\ v # w => step'[v] = step[v] /\ held'[v] = held[v]
                         /\ v = w => step'[v] = s /\ held'[v] = row
  BY DEF Proceed, AccountsTypeOK
<1>2. registered
  BY DEF PasswordInv
<1>3. \A v \in Workers : step'[v] # "registering"
  BY <1>1, <1>2 DEF PasswordInv
<1>4. ~crowded' => user'.password = chosen'
  BY DEF PasswordInv
<1>5. ASSUME NEW v \in Workers, Holding(v)', ~crowded'
      PROVE  held'[v].password = chosen'
  <2>1. CASE v = w
    BY <1>1, <1>5, <2>1 DEF Holding, PasswordInv
  <2>2. CASE v # w
    BY <1>1, <1>5, <2>2 DEF Holding, PasswordInv
  <2>3. QED
    BY <2>1, <2>2
<1>6. QED
  BY <1>2, <1>3, <1>4, <1>5 DEF PasswordInv

LEMMA CountFailurePassword ==
  ASSUME NEW row \in User
  PROVE  CountFailure(row).password = row.password
BY DEF CountFailure, User

LEMMA PasswordNext ==
  AccountsTypeOK /\ PasswordInv /\ [AccountsNext]_accountsVars => PasswordInv'
<1> SUFFICES ASSUME AccountsTypeOK, PasswordInv, [AccountsNext]_accountsVars
             PROVE  PasswordInv'
  OBVIOUS
<1>a. /\ "idle" \in Step /\ "checked" \in Step /\ "accepted" \in Step
      /\ "refused" \in Step /\ "again" \in Step /\ "changing" \in Step
  BY DEF Step
<1>1. ASSUME NEW w \in Workers, NEW p \in Passwords, Register(w, p)
      PROVE  PasswordInv'
  <2>1. \A v \in Workers : step'[v] = IF v = w THEN "registering" ELSE step[v]
    BY <1>1 DEF Register, Proceed, AccountsTypeOK
  <2>2. /\ registered' = registered /\ token' = token /\ user' = user
        /\ chosen' = chosen /\ crowded' = crowded
    BY <1>1 DEF Register, accountsGhost
  <2>3. ~registered /\ \A v \in Workers : step[v] # "registering" /\ ~Holding(v)
    BY <1>1 DEF Register, PasswordInv
  <2>4. \A v \in Workers : ~Holding(v)'
    BY <2>1, <2>3 DEF Holding
  <2>5. QED
    BY <2>1, <2>2, <2>3, <2>4 DEF PasswordInv
<1>2. ASSUME NEW w \in Workers, CommitUser(w) PROVE PasswordInv'
  <2>1. \A v \in Workers : step'[v] = IF v = w THEN "idle" ELSE step[v]
    BY <1>2 DEF CommitUser, Answer, Proceed, AccountsTypeOK
  <2>2. \A v \in Workers : ~Holding(v) /\ (step[v] = "registering" => v = w)
    BY <1>2 DEF CommitUser, PasswordInv
  <2>3. \A v \in Workers : ~Holding(v)' /\ step'[v] # "registering"
    BY <2>1, <2>2 DEF Holding
  <2>4. registered' /\ user'.password = chosen'
    BY <1>2 DEF CommitUser, Fresh
  <2>5. QED
    BY <2>3, <2>4 DEF PasswordInv
<1>3. ASSUME NEW w \in Workers, NEW p \in Passwords, Login(w, p)
      PROVE  PasswordInv'
  <2>1. registered /\ (~crowded => user.password = chosen)
    BY <1>3 DEF Login, PasswordInv
  <2>2. QED
    BY <1>3, <1>a, <2>1, ProceedKeepsPassword DEF Login, accountsGhost
<1>4. ASSUME NEW w \in Workers, Authenticate(w) PROVE PasswordInv'
  <2>1. /\ registered
        /\ ~crowded => user.password = chosen /\ held[w].password = chosen
    BY <1>4 DEF Authenticate, PasswordInv, Holding
  <2>2. /\ registered' = registered /\ token' = token /\ user' = user
        /\ chosen' = chosen /\ crowded' = crowded
    BY <1>4 DEF Authenticate, accountsGhost
  <2>3. CASE Proceed(w, "accepted", user, given[w])
    BY <1>a, <2>1, <2>2, <2>3, ProceedKeepsPassword
  <2>4. CASE Proceed(w, "refused", held[w], given[w])
    BY <1>a, <2>1, <2>2, <2>4, ProceedKeepsPassword
  <2>5. QED
    BY <1>4, <2>3, <2>4 DEF Authenticate
<1>5. ASSUME NEW w \in Workers, SaveFailure(w) PROVE PasswordInv'
  <2>1. held[w] \in User /\ Holding(w)
    BY <1>5 DEF SaveFailure, Holding, AccountsTypeOK
  <2>2. user'.password = held[w].password
    BY <1>5, <2>1, CountFailurePassword DEF SaveFailure
  <2>3. QED
    BY <1>5, <1>a, <2>1, <2>2, SaveKeepsPassword DEF SaveFailure, Answer
<1>6. ASSUME NEW w \in Workers, SaveSuccess(w) PROVE PasswordInv'
  <2>1. held[w] \in User /\ Holding(w)
    BY <1>6 DEF SaveSuccess, Holding, AccountsTypeOK
  <2>2. user'.password \in {user.password, held[w].password}
    BY <1>6, <2>1 DEF SaveSuccess, User
  <2>3. QED
    BY <1>6, <1>a, <2>1, <2>2, SaveKeepsPassword DEF SaveSuccess
<1>7. ASSUME NEW w \in Workers, GetToken(w) PROVE PasswordInv'
  <2>1. registered
    BY <1>7 DEF GetToken, PasswordInv, Holding
  <2>2. QED
    BY <1>7, <1>a, <2>1, ProceedKeepsPassword DEF GetToken, Answer, accountsGhost
<1>8. ASSUME NEW w \in Workers, NEW old \in Passwords, NEW new \in Passwords,
             ChangePassword(w, old, new)
      PROVE  PasswordInv'
  <2>1. token /\ registered /\ (~crowded => user.password = chosen)
    BY <1>8 DEF ChangePassword, PasswordInv
  <2>2. QED
    BY <1>8, <1>a, <2>1, ProceedKeepsPassword DEF ChangePassword, accountsGhost
<1>9. ASSUME NEW w \in Workers, SavePassword(w) PROVE PasswordInv'
  <2>1. \A v \in Workers : step'[v] = IF v = w THEN "idle" ELSE step[v]
    BY <1>9 DEF SavePassword, Answer, Proceed, AccountsTypeOK
  <2>2. registered /\ registered' = registered /\ token' = token
    BY <1>9 DEF SavePassword, PasswordInv, Holding
  <2>3. \A v \in Workers : step'[v] # "registering"
    BY <2>1, <2>2 DEF PasswordInv
  <2>4. user'.password = chosen'
    BY <1>9 DEF SavePassword, StorePassword, AccountsTypeOK, User
  <2>5. ~crowded' => \A v \in Workers : ~Holding(v)'
    BY <1>9, <2>1 DEF SavePassword, Holding
  <2>6. QED
    BY <2>2, <2>3, <2>4, <2>5 DEF PasswordInv
<1>10. ASSUME NEW w \in Workers, WorkerCrash(w) PROVE PasswordInv'
  <2>1. token => registered
    BY DEF PasswordInv
  <2>2. QED
    BY <1>10, <1>a, <2>1, ProceedKeepsPassword DEF WorkerCrash, Answer, accountsGhost
<1>11. CASE Tick \/ UNCHANGED accountsVars
  BY <1>11 DEF Tick, accountsVars, accountsWork, accountsGhost, PasswordInv, Holding
<1>12. QED
  BY <1>1, <1>2, <1>3, <1>4, <1>5, <1>6, <1>7, <1>8, <1>9, <1>10, <1>11
     DEF AccountsNext

\* A password that update_password saved while no other request was at work is
\* the one in the row until the next is chosen: full-row saves of login bring
\* an old one back only if they had begun before.
THEOREM ChosenPasswordStays == AccountsSpec => []PasswordStays
<1>1. PasswordInv => PasswordStays
  BY DEF PasswordInv, PasswordStays
<1>2. QED
  BY AccountsTypeCorrect, PasswordInit, PasswordNext, <1>1, PTL DEF AccountsSpec

-----------------------------------------------------------------------------
(* Accounts: how many misses there can be                                    *)

\* A function is known by its graph, a subset of a finite product.
LEMMA TalliesFinite ==
  ASSUME NEW n \in Nat, NEW limit \in Nat
  PROVE  IsFiniteSet(Tallies(n, limit))
<1> DEFINE D == 0..limit-1
           Graph(t) == {<<v, t[v]>> : v \in D}
           G == [t \in Tallies(n, limit) |-> Graph(t)]
<1>1. IsFiniteSet(SUBSET (D \X (0..n)))
  <2>1. IsFiniteSet(D) /\ IsFiniteSet(0..n)
    <3>1. 0 \in Int /\ limit-1 \in Int /\ n \in Int
      OBVIOUS
    <3>2. QED
      BY <3>1, FS_Interval
  <2> HIDE DEF D
  <2>2. IsFiniteSet(D \X (0..n))
    BY <2>1, FS_Product
  <2>3. QED
    BY <2>2, FS_SUBSET
<1>2. ASSUME NEW t \in Tallies(n, limit)
      PROVE  t \in [D -> 0..n] /\ Graph(t) \in SUBSET (D \X (0..n))
  BY DEF Tallies
<1>3. ASSUME NEW t \in Tallies(n, limit), NEW u \in Tallies(n, limit),
             Graph(t) = Graph(u)
      PROVE  t = u
  <2>1. ASSUME NEW v \in D PROVE t[v] = u[v]
    <3>1. <<v, t[v]>> \in Graph(u)
      BY <1>3
    <3>2. QED
      BY <3>1
  <2>2. QED
    BY <1>2, <2>1
<1>4. G \in Injection(Tallies(n, limit), SUBSET (D \X (0..n)))
  BY <1>2, <1>3 DEF Injection, IsInjective
<1>5. QED
  BY <1>1, <1>4, FS_Injection

\* There are so many tallies, and of those that are under one of them.
LEMMA TalliesCount ==
  /\ Cardinality(Workers) \in Nat
  /\ IsFiniteSet(Tallies(Cardinality(Workers), Limit))
  /\ \A t : IsFiniteSet(Lower(t)) /\ Cardinality(Lower(t)) \in Nat
<1>1. Cardinality(Workers) \in Nat /\ Limit \in Nat
  BY AccountsAssumption, FS_CardinalityType
<1>2. IsFiniteSet(Tallies(Cardinality(Workers), Limit))
  BY <1>1, TalliesFinite
<1>3. ASSUME NEW t PROVE IsFiniteSet(Lower(t))
  <2>1. Lower(t) \in SUBSET Tallies(Cardinality(Workers), Limit)
    BY DEF Lower
  <2>2. QED
    BY <1>2, <2>1, FS_Subset
<1>4. QED
  BY <1>1, <1>2, <1>3, FS_CardinalityType

LEMMA TallyValues ==
  ASSUME NEW t \in Tallies(Cardinality(Workers), Limit), NEW v \in 0..Limit-1
  PROVE  t[v] \in Nat
BY TalliesCount DEF Tallies

LEMMA UnderTransitive ==
  ASSUME NEW s \in Tallies(Cardinality(Workers), Limit),
         NEW t \in Tallies(Cardinality(Workers), Limit),
         NEW u \in Tallies(Cardinality(Workers), Limit),
         Under(s, t), Under(t, u)
  PROVE  Under(s, u)
<1>0. Limit \in Nat
  BY AccountsAssumption
<1>1. PICK a \in 0..Limit-1 : s[a] > t[a] /\ \A k \in 0..a-1 : s[k] = t[k]
  BY DEF Under
<1>2. PICK b \in 0..Limit-1 : t[b] > u[b] /\ \A k \in 0..b-1 : t[k] = u[k]
  BY DEF Under
<1>3. /\ s[a] \in Nat /\ t[a] \in Nat /\ u[a] \in Nat
      /\ s[b] \in Nat /\ t[b] \in Nat /\ u[b] \in Nat
  BY TallyValues
<1>4. CASE a < b
  <2>1. s[a] > u[a]
    BY <1>0, <1>1, <1>2, <1>3, <1>4
  <2>2. \A k \in 0..a-1 : s[k] = u[k]
    BY <1>0, <1>1, <1>2, <1>4
  <2>3. QED
    BY <2>1, <2>2 DEF Under
<1>5. CASE a >= b
  <2>1. s[b] > u[b]
    <3>1. s[b] >= t[b]
      BY <1>0, <1>1, <1>3, <1>5
    <3>2. QED
      BY <1>2, <1>3, <3>1
  <2>2. \A k \in 0..b-1 : s[k] = u[k]
    BY <1>0, <1>1, <1>2, <1>5
  <2>3. QED
    BY <2>1, <2>2 DEF Under
<1>6. QED
  BY <1>0, <1>4, <1>5

\* A tally is not under itself ...
LEMMA LowerExcludes ==
  ASSUME NEW t \in Tallies(Cardinality(Workers), Limit)
  PROVE  t \notin Lower(t)
BY TallyValues DEF Lower, Under

\* ... so more are under one that it is under,
LEMMA LowerGrows ==
  ASSUME NEW t \in Tallies(Cardinality(Workers), Limit),
         NEW u \in Tallies(Cardinality(Workers), Limit), Under(t, u)
  PROVE  Cardinality(Lower(t)) + 1 <= Cardinality(Lower(u))
<1>1. Lower(t) \cup {t} \in SUBSET Lower(u)
  BY UnderTransitive DEF Lower
<1>2. Cardinality(Lower(t) \cup {t}) = Cardinality(Lower(t)) + 1
  BY TalliesCount, LowerExcludes, FS_AddElement
<1>3. Cardinality(Lower(t) \cup {t}) <= Cardinality(Lower(u))
  BY <1>1, TalliesCount, FS_Subset
<1>4. QED
  BY <1>2, <1>3

\* ... and never all of them.
LEMMA LowerFew ==
  ASSUME NEW t \in Tallies(Cardinality(Workers), Limit)
  PROVE  Cardinality(Lower(t)) < Cardinality(Tallies(Cardinality(Workers), Limit))
<1>1. Lower(t) \cup {t} \in SUBSET Tallies(Cardinality(Workers), Limit)
  BY DEF Lower
<1>2. Cardinality(Lower(t) \cup {t}) = Cardinality(Lower(t)) + 1
  BY TalliesCount, LowerExcludes, FS_AddElement
<1>3. /\ Cardinality(Lower(t) \cup {t})
             <= Cardinality(Tallies(Cardinality(Workers), Limit))
      /\ Cardinality(Tallies(Cardinality(Workers), Limit)) \in Nat
  BY <1>1, TalliesCount, FS_Subset, FS_CardinalityType
<1>4. QED
  BY <1>2, <1>3, TalliesCount

LEMMA KnownTyped ==
  AccountsTypeOK /\ CountsBelow =>
    \A w \in Workers : /\ Known(w) \in Nat /\ Known(w) < Limit
                      /\ user.failed \in Nat /\ held[w].failed \in Nat
                      /\ Known(w) <= user.failed
BY AccountsAssumption DEF AccountsTypeOK, CountsBelow, Known, User

\* ... after a step too.
LEMMA KnownTypedNext ==
  (AccountsTypeOK /\ CountsBelow)' =>
    \A w \in Workers : Known(w)' \in Nat /\ Known(w)' < Limit
<1>1. (AccountsTypeOK /\ CountsBelow =>
         \A w \in Workers : Known(w) \in Nat /\ Known(w) < Limit)'
  <2>1. AccountsTypeOK /\ CountsBelow =>
          \A w \in Workers : Known(w) \in Nat /\ Known(w) < Limit
    BY KnownTyped
  <2>2. QED
    BY <2>1, PTL
<1>2. QED
  BY <1>1

LEMMA TallyTyped ==
  AccountsTypeOK /\ CountsBelow => Tally \in Tallies(Cardinality(Workers), Limit)
<1> SUFFICES ASSUME AccountsTypeOK, CountsBelow
             PROVE  Tally \in Tallies(Cardinality(Workers), Limit)
  OBVIOUS
<1>0. Limit \in Nat /\ Limit > 0 /\ IsFiniteSet(Workers)
  BY AccountsAssumption
<1>1. ASSUME NEW v \in 0..Limit-1
      PROVE  Cardinality(AtMost(v)) \in 0..Cardinality(Workers)
  <2>1. AtMost(v) \in SUBSET Workers
    BY DEF AtMost
  <2>2. QED
    BY <1>0, <2>1, FS_Subset, FS_CardinalityType
<1>2. AtMost(Limit-1) = Workers
  BY <1>0, KnownTyped DEF AtMost
<1>3. ASSUME NEW v \in 1..Limit-1
      PROVE  Cardinality(AtMost(v-1)) <= Cardinality(AtMost(v))
  <2>1. AtMost(v-1) \in SUBSET AtMost(v)
    BY <1>0, KnownTyped DEF AtMost
  <2>2. AtMost(v) \in SUBSET Workers
    BY DEF AtMost
  <2>3. QED
    BY <1>0, <2>1, <2>2, FS_Subset
<1>4. Tally \in [0..Limit-1 -> 0..Cardinality(Workers)]
  BY <1>1 DEF Tally
<1>5. Tally[Limit-1] = Cardinality(Workers)
  BY <1>0, <1>2 DEF Tally
<1>6. \A v \in 1..Limit-1 : Tally[v-1] <= Tally[v]
  BY <1>0, <1>3 DEF Tally
<1>7. QED
  BY <1>4, <1>5, <1>6 DEF Tallies

\* One count rises beyond a; what was below it stays, and what was above it
\* stays above it.
LEMMA TallyRises ==
  ASSUME AccountsTypeOK, CountsBelow, AccountsTypeOK', CountsBelow',
         NEW w \in Workers, NEW a \in 0..Limit-1, Known(w) <= a, Known(w)' > a,
         \A v \in Workers : Known(v) < a => Known(v)' = Known(v),
         \A v \in Workers : Known(v) >= a => Known(v)' >= a,
         \A v \in Workers : Known(v) > a => Known(v)' > a
  PROVE  Under(Tally, Tally')
<1>0. Limit \in Nat /\ IsFiniteSet(Workers)
  BY AccountsAssumption
<1>1. \A v \in Workers : Known(v) \in Nat /\ Known(v)' \in Nat
  <2>1. \A v \in Workers : Known(v) \in Nat
    BY KnownTyped
  <2>2. \A v \in Workers : Known(v)' \in Nat
    BY KnownTypedNext
  <2>3. QED
    BY <2>1, <2>2
<1>2. ASSUME NEW k \in 0..a-1 PROVE Tally[k] = Tally'[k]
  <2>1. AtMost(k)' = AtMost(k)
    BY <1>0, <1>1 DEF AtMost
  <2>2. QED
    BY <1>0, <2>1 DEF Tally
<1>3. Tally[a] > Tally'[a]
  <2>1. AtMost(a)' \cup {w} \in SUBSET AtMost(a) /\ w \notin AtMost(a)'
    BY <1>0, <1>1 DEF AtMost
  <2>2. AtMost(a) \in SUBSET Workers /\ AtMost(a)' \in SUBSET Workers
    BY DEF AtMost
  <2>3. IsFiniteSet(AtMost(a)) /\ IsFiniteSet(AtMost(a)')
    BY <1>0, <2>2, FS_Subset
  <2>4. Cardinality(AtMost(a)' \cup {w}) = Cardinality(AtMost(a)') + 1
    BY <2>1, <2>3, FS_AddElement
  <2>5. Cardinality(AtMost(a)' \cup {w}) <= Cardinality(AtMost(a))
    BY <2>1, <2>3, FS_Subset
  <2>6. Cardinality(AtMost(a)) \in Nat /\ Cardinality(AtMost(a)') \in Nat
    BY <2>3, FS_CardinalityType
  <2>7. Tally[a] = Cardinality(AtMost(a)) /\ Tally'[a] = Cardinality(AtMost(a)')
    BY DEF Tally
  <2>8. QED
    BY <2>4, <2>5, <2>6, <2>7
<1>4. QED
  BY <1>2, <1>3 DEF Under

\* Where the row is not saved, worker w's count stays or rises.
LEMMA TallyKept ==
  ASSUME AccountsTypeOK, CountsBelow, AccountsTypeOK', CountsBelow',
         NEW w \in Workers, user' = user, Known(w)' >= Known(w),
         \A v \in Workers \ {w} : step'[v] = step[v] /\ held'[v] = held[v]
  PROVE  Tally' = Tally \/ Under(Tally, Tally')
<1>1. \A v \in Workers \ {w} : Known(v)' = Known(v)
  BY DEF Known
<1>2. /\ Known(w) \in Nat /\ Known(w) < Limit
      /\ Known(w)' \in Nat
      /\ Limit \in Nat
  <2>1. Known(w) \in Nat /\ Known(w) < Limit
    BY KnownTyped
  <2>2. Known(w)' \in Nat
    BY KnownTypedNext
  <2>3. QED
    BY <2>1, <2>2, AccountsAssumption
<1>3. CASE Known(w)' = Known(w)
  <2>1. \A v \in Workers : Known(v)' = Known(v)
    BY <1>1, <1>3
  <2>2. QED
    BY <2>1 DEF Tally, AtMost
<1>4. CASE Known(w)' > Known(w)
  <2> DEFINE a == Known(w)
  <2>1. a \in 0..Limit-1 /\ Known(w) <= a /\ Known(w)' > a
    BY <1>2, <1>4
  <2>2. \A v \in Workers : v # w => Known(v)' = Known(v)
    BY <1>1
  <2>3. \A v \in Workers : Known(v) < a => Known(v)' = Known(v)
    BY <2>2, <1>2
  <2>4. /\ \A v \in Workers : Known(v) >= a => Known(v)' >= a
        /\ \A v \in Workers : Known(v) > a => Known(v)' > a
    BY <2>2, <1>2, <1>4
  <2> HIDE DEF a
  <2>5. QED
    BY <2>1, <2>3, <2>4, TallyRises
<1>5. QED
  BY <1>2, <1>3, <1>4

\* A miss: worker w saves its copy, with one failure more, and is idle.
LEMMA MissRises ==
  ASSUME AccountsTypeOK, CountsBelow, AccountsTypeOK', CountsBelow',
         NEW w \in Workers, step[w] = "refused", step'[w] = "idle",
         user'.failed = held[w].failed + 1,
         \A v \in Workers \ {w} : step'[v] = step[v] /\ held'[v] = held[v]
  PROVE  Under(Tally, Tally')
<1> DEFINE c == held[w].failed
           f == user.failed
           a == Known(w)
<1>1. /\ c \in Nat /\ f \in Nat /\ Limit \in Nat
      /\ a \in Nat /\ a < Limit
      /\ a = IF c < f THEN c ELSE f
  BY KnownTyped, AccountsAssumption DEF Known
<1>2. Known(w)' = c + 1
  BY DEF Known
<1>3. ASSUME NEW v \in Workers, v # w
      PROVE  /\ Known(v) < a => Known(v)' = Known(v)
             /\ Known(v) >= a => Known(v)' >= a
             /\ Known(v) > a => Known(v)' > a
  <2>1. held[v].failed \in Nat /\ step'[v] = step[v] /\ held'[v] = held[v]
    BY <1>3, KnownTyped
  <2>2. CASE step[v] \in {"checked", "refused"}
    <3>1. /\ Known(v) = IF held[v].failed < f THEN held[v].failed ELSE f
          /\ Known(v)' = IF held[v].failed < c + 1 THEN held[v].failed ELSE c + 1
      BY <2>1, <2>2 DEF Known
    <3>2. QED
      BY <1>1, <2>1, <3>1
  <2>3. CASE step[v] \notin {"checked", "refused"}
    <3>1. Known(v) = f /\ Known(v)' = c + 1
      BY <2>1, <2>3 DEF Known
    <3>2. QED
      BY <1>1, <3>1
  <2>4. QED
    BY <2>2, <2>3
<1>4. a \in 0..Limit-1 /\ Known(w) <= a /\ Known(w)' > a
  BY <1>1, <1>2
<1>5. /\ \A v \in Workers : Known(v) < a => Known(v)' = Known(v)
      /\ \A v \in Workers : Known(v) >= a => Known(v)' >= a
      /\ \A v \in Workers : Known(v) > a => Known(v)' > a
  <2>1. ASSUME NEW v \in Workers
        PROVE  /\ Known(v) < a => Known(v)' = Known(v)
               /\ Known(v) >= a => Known(v)' >= a
               /\ Known(v) > a => Known(v)' > a
    <3>1. CASE v = w
      BY <1>1, <1>2, <3>1
    <3>2. CASE v # w
      BY <1>3, <3>2
    <3>3. QED
      BY <3>1, <3>2
  <2> HIDE DEF a
  <2>2. QED
    BY <2>1
<1> HIDE DEF a
<1>6. QED
  BY <1>4, <1>5, TallyRises

LEMMA MissInit == AccountsInit => MissInv
<1> SUFFICES ASSUME AccountsInit PROVE MissInv
  OBVIOUS
<1>1. CountsBelow
  <2>1. 0 < Limit /\ Blank.failed = 0
    BY AccountsAssumption DEF Blank, Fresh
  <2>2. QED
    BY <2>1 DEF AccountsInit, CountsBelow
<1>2. misses = 0 /\ Cardinality(Lower(Tally)) \in Nat
  BY TalliesCount DEF AccountsInit
<1>3. QED
  BY <1>1, <1>2 DEF MissInv

\* Copies are taken from the row, and counts that are saved are below the limit.
LEMMA NextCountsBelow ==
  AccountsTypeOK /\ CountsBelow /\ [AccountsNext]_accountsVars => CountsBelow'
<1> SUFFICES ASSUME AccountsTypeOK, CountsBelow, [AccountsNext]_accountsVars
             PROVE  CountsBelow'
  OBVIOUS
<1>0. /\ Limit \in Nat /\ Limit > 0 /\ Blank.failed = 0
      /\ user \in User /\ user.failed < Limit /\ user.failed \in Nat
      /\ \A w \in Workers : /\ held[w] \in User /\ held[w].failed < Limit
                            /\ held[w].failed \in Nat
  BY AccountsAssumption DEF AccountsTypeOK, CountsBelow, Blank, Fresh, User
<1>p. ASSUME NEW w \in Workers, NEW s, NEW row, NEW p, Proceed(w, s, row, p),
             row.failed < Limit
      PROVE  \A v \in Workers : held'[v].failed < Limit
  BY <1>p, <1>0 DEF Proceed, AccountsTypeOK
<1>1. ASSUME NEW w \in Workers, NEW p \in Passwords,
             Register(w, p) \/ Login(w, p)
      PROVE  CountsBelow'
  BY <1>1, <1>0, <1>p DEF Register, Login, CountsBelow
<1>2. ASSUME NEW w \in Workers, CommitUser(w) PROVE CountsBelow'
  BY <1>2, <1>0, <1>p DEF CommitUser, Answer, Fresh, CountsBelow
<1>3. ASSUME NEW w \in Workers, Authenticate(w) \/ GetToken(w) \/ WorkerCrash(w)
      PROVE  CountsBelow'
  BY <1>3, <1>0, <1>p DEF Authenticate, GetToken, WorkerCrash, Answer, CountsBelow
<1>4. ASSUME NEW w \in Workers, SaveFailure(w) PROVE CountsBelow'
  <2>1. CountFailure(held[w]).failed < Limit
    <3>1. CASE held[w].failed + 1 >= Limit
      <4>1. CountFailure(held[w]).failed = 0
        BY <1>0, <3>1 DEF CountFailure, User
      <4>2. QED
        BY <1>0, <4>1
    <3>2. CASE ~(held[w].failed + 1 >= Limit)
      <4>1. CountFailure(held[w]).failed = held[w].failed + 1
        BY <1>0, <3>2 DEF CountFailure, User
      <4>2. QED
        BY <1>0, <3>2, <4>1
    <3>3. QED
      BY <3>1, <3>2
  <2>2. QED
    BY <1>4, <1>0, <1>p, <2>1 DEF SaveFailure, Answer, CountsBelow
<1>5. ASSUME NEW w \in Workers, SaveSuccess(w) PROVE CountsBelow'
  <2>1. user'.failed < Limit
    BY <1>5, <1>0 DEF SaveSuccess, User
  <2>2. QED
    BY <1>5, <1>0, <1>p, <2>1 DEF SaveSuccess, CountsBelow
<1>6. ASSUME NEW w \in Workers, NEW old \in Passwords, NEW new \in Passwords,
             ChangePassword(w, old, new)
      PROVE  CountsBelow'
  BY <1>6, <1>0, <1>p DEF ChangePassword, CountsBelow
<1>7. ASSUME NEW w \in Workers, SavePassword(w) PROVE CountsBelow'
  <2>1. user'.failed < Limit
    BY <1>7, <1>0 DEF SavePassword, StorePassword, User
  <2>2. QED
    BY <1>7, <1>0, <1>p, <2>1 DEF SavePassword, Answer, CountsBelow
<1>8. CASE Tick \/ UNCHANGED accountsVars
  BY <1>8 DEF Tick, accountsVars, accountsWork, CountsBelow
<1>9. QED
  BY <1>1, <1>2, <1>3, <1>4, <1>5, <1>6, <1>7, <1>8 DEF AccountsNext

LEMMA MissNext ==
  AccountsTypeOK /\ AccountsTypeOK' /\ PasswordInv /\ MissInv
     /\ [AccountsNext]_accountsVars => MissInv'
<1> SUFFICES ASSUME AccountsTypeOK, AccountsTypeOK', PasswordInv, MissInv,
                    [AccountsNext]_accountsVars
             PROVE  MissInv'
  OBVIOUS
<1>0. CountsBelow /\ CountsBelow'
  BY NextCountsBelow DEF MissInv
<1>t. /\ Tally \in Tallies(Cardinality(Workers), Limit)
      /\ Tally' \in Tallies(Cardinality(Workers), Limit)
  <2>1. Tally \in Tallies(Cardinality(Workers), Limit)
    BY <1>0, TallyTyped
  <2>2. (AccountsTypeOK /\ CountsBelow
           => Tally \in Tallies(Cardinality(Workers), Limit))'
    BY TallyTyped, PTL
  <2>3. QED
    BY <1>0, <2>1, <2>2
<1>n. /\ misses \in Nat /\ misses <= Cardinality(Lower(Tally))
      /\ Cardinality(Lower(Tally)) \in Nat
      /\ Cardinality(Lower(Tally')) \in Nat
      /\ ~registered => misses = 0
  BY TalliesCount DEF AccountsTypeOK, MissInv
<1>l. Lower(Tally)' = Lower(Tally')
  BY DEF Lower, Under
<1>a. ASSUME Tally' = Tally \/ Under(Tally, Tally'), misses' = misses,
             registered' = registered
      PROVE  MissInv'
  <2>1. Cardinality(Lower(Tally)) <= Cardinality(Lower(Tally'))
    BY <1>a, <1>t, <1>n, LowerGrows
  <2>2. QED
    BY <1>a, <1>0, <1>n, <1>l, <2>1 DEF MissInv
<1>b. ASSUME misses' = 0
      PROVE  MissInv'
  BY <1>b, <1>0, <1>n, <1>l DEF MissInv
<1>p. ASSUME NEW w \in Workers, NEW s, NEW row, NEW p, Proceed(w, s, row, p)
      PROVE  /\ step'[w] = s /\ held'[w] = row
             /\ \A v \in Workers \ {w} : step'[v] = step[v] /\ held'[v] = held[v]
  BY <1>p DEF Proceed, AccountsTypeOK
<1>q. ASSUME NEW w \in Workers, NEW s, NEW row, NEW p, Proceed(w, s, row, p),
             user' = user, misses' = misses, registered' = registered,
             \/ s \notin {"checked", "refused"} \/ row = user
             \/ row = held[w] /\ step[w] \in {"checked", "refused"}
      PROVE  MissInv'
  <2>0. user.failed \in Nat /\ held[w].failed \in Nat /\ Known(w) <= user.failed
    BY <1>0, KnownTyped
  <2>1. Known(w)' >= Known(w)
    <3>1. CASE s \notin {"checked", "refused"} \/ row = user
      <4>1. Known(w)' = user.failed
        BY <1>q, <1>p, <3>1 DEF Known
      <4>2. QED
        BY <1>0, <2>0, <4>1, KnownTyped
    <3>2. CASE row = held[w] /\ step[w] \in {"checked", "refused"}
      <4>1. \/ Known(w)' = user.failed
            \/ Known(w)' = Known(w)
        BY <1>q, <1>p, <3>2 DEF Known
      <4>2. QED
        BY <1>0, <2>0, <4>1, KnownTyped
    <3>3. QED
      BY <1>q, <3>1, <3>2
  <2>2. Tally' = Tally \/ Under(Tally, Tally')
    BY <1>0, <1>q, <1>p, <2>1, TallyKept
  <2>3. QED
    BY <1>a, <1>q, <2>2
<1>1. ASSUME NEW w \in Workers, NEW p \in Passwords,
             Register(w, p) \/ Login(w, p)
      PROVE  MissInv'
  BY <1>1, <1>q DEF Register, Login, accountsGhost
<1>2. ASSUME NEW w \in Workers, CommitUser(w) PROVE MissInv'
  BY <1>2, <1>b, <1>n DEF CommitUser, PasswordInv
<1>3. ASSUME NEW w \in Workers, Authenticate(w) \/ GetToken(w) \/ WorkerCrash(w)
      PROVE  MissInv'
  BY <1>3, <1>q DEF Authenticate, GetToken, WorkerCrash, Answer, accountsGhost
<1>4. ASSUME NEW w \in Workers, SaveFailure(w) PROVE MissInv'
  <2>0. /\ clock \in Nat /\ Limit \in Nat /\ held[w] \in User
        /\ held[w].failed \in Nat /\ held[w].until \in Nat
    BY AccountsAssumption DEF AccountsTypeOK, User
  <2>1. /\ step[w] = "refused" /\ step'[w] = "idle"
        /\ registered' = registered
        /\ user' = CountFailure(held[w])
        /\ misses' = IF Locked(CountFailure(held[w])) THEN 0 ELSE misses + 1
        /\ \A v \in Workers \ {w} : step'[v] = step[v] /\ held'[v] = held[v]
    BY <1>4, <1>p DEF SaveFailure, Answer
  <2>2. registered
    BY <2>1 DEF PasswordInv, Holding
  <2>3. CASE Locked(CountFailure(held[w]))
    BY <1>b, <2>1, <2>3
  <2>4. CASE ~Locked(CountFailure(held[w]))
    <3>1. ~(held[w].failed + 1 >= Limit)
      <4>1. ASSUME held[w].failed + 1 >= Limit PROVE FALSE
        <5>1. CountFailure(held[w]).until = clock + 1
          BY <2>0, <4>1 DEF CountFailure, User
        <5>2. QED
          BY <2>0, <2>4, <5>1 DEF Locked
      <4>2. QED
        BY <4>1
    <3>2. user'.failed = held[w].failed + 1
      BY <2>0, <2>1, <3>1 DEF CountFailure, User
    <3>3. Under(Tally, Tally')
      BY <1>0, <2>1, <3>2, MissRises
    <3>4. Cardinality(Lower(Tally)) + 1 <= Cardinality(Lower(Tally'))
      BY <1>t, <3>3, LowerGrows
    <3>5. misses' = misses + 1
      BY <2>1, <2>4
    <3>6. QED
      BY <1>0, <1>n, <1>l, <2>1, <2>2, <3>4, <3>5 DEF MissInv
  <2>5. QED
    BY <2>3, <2>4
<1>5. ASSUME NEW w \in Workers, SaveSuccess(w) \/ SavePassword(w) PROVE MissInv'
  BY <1>5, <1>b DEF SaveSuccess, SavePassword
<1>6. ASSUME NEW w \in Workers, NEW old \in Passwords, NEW new \in Passwords,
             ChangePassword(w, old, new)
      PROVE  MissInv'
  BY <1>6, <1>q DEF ChangePassword, accountsGhost
<1>7. CASE Tick \/ UNCHANGED accountsVars
  <2>1. /\ user' = user /\ step' = step /\ held' = held
        /\ misses' = misses /\ registered' = registered
    BY <1>7 DEF Tick, accountsVars, accountsWork, accountsGhost
  <2>2. Tally' = Tally
    BY <2>1 DEF Tally, AtMost, Known
  <2>3. QED
    BY <1>a, <2>1, <2>2
<1>8. QED
  BY <1>1, <1>2, <1>3, <1>4, <1>5, <1>6, <1>7 DEF AccountsNext

\* Late copies undo counts and locks, but only so often: wrong passwords in a row
\* that lock nothing are fewer than the ways in which the counts of the workers
\* can stand, for any number of workers and every limit (MissesAreBounded).
THEOREM MissesStayBounded == AccountsSpec => []MissesAreBounded
<1>1. AccountsTypeOK /\ MissInv => MissesAreBounded
  <2> SUFFICES ASSUME AccountsTypeOK, MissInv PROVE MissesAreBounded
    OBVIOUS
  <2>1. Cardinality(Lower(Tally)) < Cardinality(Tallies(Cardinality(Workers), Limit))
    BY TallyTyped, LowerFew DEF MissInv
  <2>2. /\ Cardinality(Lower(Tally)) \in Nat /\ misses \in Nat
        /\ Cardinality(Tallies(Cardinality(Workers), Limit)) \in Nat
    BY TalliesCount, FS_CardinalityType DEF AccountsTypeOK
  <2>3. QED
    BY <2>1, <2>2 DEF MissInv, MissesAreBounded
<1>2. QED
  BY AccountsTypeCorrect, PasswordInit, PasswordNext, MissInit, MissNext, <1>1, PTL
     DEF AccountsSpec

-----------------------------------------------------------------------------
(* Kyc: type correctness                                                     *)

\* The copies that may be saved are rows, those of the others are gone.
CopiesOK ==
    \A a \in Actors :
        /\ hand[a] \in {"holding", "expiring"} => copy[a] \in Profile
        /\ hand[a] \in {"idle", "submitting"} => copy[a] = NoProfile

KycTyped == KycTypeOK /\ CopiesOK

LEMMA NoProfileIsNone == NoProfile \notin Profile
<1>1. SUFFICES ASSUME NoProfile \in Profile PROVE FALSE
  OBVIOUS
<1>2. DOMAIN NoProfile = {"id"}
  BY DEF NoProfile
<1>3. "status" \in DOMAIN NoProfile
  BY <1>1 DEF Profile
<1>4. QED
  BY <1>2, <1>3

LEMMA NewProfileOK ==
  ASSUME KycTypeOK
  PROVE  /\ NewProfile \in Profile
         /\ NewProfile.status = "pending"
         /\ NewProfile.verified = FALSE
<1>1. DefaultTier \in Tiers
  BY KycAssumption DEF DefaultTier
<1>2. QED
  BY <1>1 DEF NewProfile, Profile, KycTypeOK, KycStatus

LEMMA CreateOK ==
  ASSUME KycTypeOK, Create
  PROVE  /\ profile' \in Profile /\ profile'.status = "pending"
         /\ profile'.verified = FALSE /\ created' \in Nat
         /\ profile' = NewProfile
<1>1. profile' = NewProfile
  BY DEF Create
<1>2. created' \in Nat
  BY DEF Create, KycTypeOK
<1>3. QED
  BY <1>1, <1>2, NewProfileOK, Zenon

LEMMA TakeTyped ==
  ASSUME KycTyped, NEW a \in Actors, NEW s \in HandSteps, NEW row, Take(a, s, row),
         \/ s \in {"holding", "expiring"} /\ row \in Profile
         \/ s \in {"idle", "submitting"} /\ row = NoProfile
  PROVE  /\ hand' \in [Actors -> HandSteps]
         /\ copy' \in [Actors -> Profile \cup {NoProfile}]
         /\ CopiesOK'
<1>1. hand' \in [Actors -> HandSteps] /\ copy' \in [Actors -> Profile \cup {NoProfile}]
  BY DEF KycTyped, KycTypeOK, Take
<1>2. \A b \in Actors : /\ hand'[b] = IF b = a THEN s ELSE hand[b]
                        /\ copy'[b] = IF b = a THEN row ELSE copy[b]
  BY DEF KycTyped, KycTypeOK, Take
<1>3. CopiesOK'
  BY <1>2 DEF CopiesOK, KycTyped
<1>4. QED
  BY <1>1, <1>3

LEMMA DecisionTyped ==
  ASSUME NEW row \in Profile
  PROVE  Decision(row) \in Decisions
BY DEF Profile, Decision, Decisions

LEMMA StandTyped ==
  ASSUME KycTyped, NEW a \in Actors, NEW status \in KycStatus, NEW verified \in BOOLEAN,
         Stand(a, status, verified)
  PROVE  options' \subseteq Decisions
<1>1. [status |-> status, verified |-> verified] \in Decisions
  BY DEF Decisions
<1>2. ASSUME NEW b \in Handlers, hand[b] = "holding"
      PROVE  Decision(copy[b]) \in Decisions
  BY <1>2, DecisionTyped DEF KycTyped, CopiesOK, Actors
<1>3. QED
  BY <1>1, <1>2 DEF Stand

LEMMA KycInitTyped == KycInit => KycTyped
<1>1. SUFFICES ASSUME KycInit PROVE KycTyped
  OBVIOUS
<1>2. profile \in Profile \cup {NoProfile} /\ created \in Nat /\ month \in Nat
  BY <1>1 DEF KycInit
<1>3. /\ hand \in [Actors -> HandSteps]
      /\ copy \in [Actors -> Profile \cup {NoProfile}]
      /\ CopiesOK
  BY <1>1 DEF KycInit, CopiesOK, HandSteps
<1>4. granted \subseteq Grants /\ options \subseteq Decisions
  BY <1>1 DEF KycInit
<1>5. QED
  BY <1>2, <1>3, <1>4 DEF KycTyped, KycTypeOK

LEMMA FieldTyped ==
  ASSUME NEW row \in Profile
  PROVE  /\ \A s \in KycStatus : [row EXCEPT !.status = s] \in Profile
         /\ \A v \in BOOLEAN : [row EXCEPT !.verified = v] \in Profile
         /\ \A t \in Tiers : [row EXCEPT !.tier = t] \in Profile
         /\ \A n \in Nat : [row EXCEPT !.expires = n] \in Profile
BY DEF Profile

\* What a request or the task stores is a row, whatever copy it starts from.
Decided(row, status) == [row EXCEPT !.status = status, !.verified = FALSE]
Granted(row, tier) == [row EXCEPT !.status = "approved", !.verified = TRUE,
                                  !.tier = tier, !.expires = month + 1]

LEMMA StoredTyped ==
  ASSUME KycTypeOK, NEW row \in Profile
  PROVE  /\ \A s \in KycStatus : /\ Decided(row, s) \in Profile
                                 /\ Decided(row, s).status = s
                                 /\ Decided(row, s).verified = FALSE
         /\ \A t \in Tiers : /\ Granted(row, t) \in Profile
                             /\ Granted(row, t).status = "approved"
                             /\ Granted(row, t).verified = TRUE
                             /\ Granted(row, t).tier = t
<1>1. ASSUME NEW s \in KycStatus
      PROVE  /\ Decided(row, s) \in Profile
             /\ Decided(row, s).status = s
             /\ Decided(row, s).verified = FALSE
  <2>1. [row EXCEPT !.status = s] \in Profile
    BY FieldTyped
  <2>2. \A r \in Profile : [r EXCEPT !.verified = FALSE] \in Profile
    BY FieldTyped
  <2>3. Decided(row, s) \in Profile
    BY <2>1, <2>2 DEF Decided
  <2>4. QED
    BY <2>3 DEF Decided, Profile
<1>2. ASSUME NEW t \in Tiers
      PROVE  /\ Granted(row, t) \in Profile
             /\ Granted(row, t).status = "approved"
             /\ Granted(row, t).verified = TRUE
             /\ Granted(row, t).tier = t
  <2>1. "approved" \in KycStatus /\ TRUE \in BOOLEAN /\ month + 1 \in Nat
    BY DEF KycStatus, KycTypeOK
  <2>2. [row EXCEPT !.status = "approved"] \in Profile
    BY <2>1, FieldTyped
  <2>3. \A r \in Profile : [r EXCEPT !.verified = TRUE] \in Profile
    BY FieldTyped
  <2>4. [row EXCEPT !.status = "approved", !.verified = TRUE] \in Profile
    BY <2>2, <2>3
  <2>5. \A r \in Profile : [r EXCEPT !.tier = t] \in Profile
    BY FieldTyped
  <2>6. [row EXCEPT !.status = "approved", !.verified = TRUE, !.tier = t] \in Profile
    BY <2>4, <2>5
  <2>7. \A r \in Profile : [r EXCEPT !.expires = month + 1] \in Profile
    BY <2>1, FieldTyped
  <2>8. Granted(row, t) \in Profile
    BY <2>6, <2>7 DEF Granted
  <2>9. QED
    BY <2>8 DEF Granted, Profile
<1>3. QED
  BY <1>1, <1>2

-----------------------------------------------------------------------------
(* Kyc: the inductive invariant                                              *)

\* A row, be it stored or in the hands of an actor, counts as verified only in
\* the status and the tier of a decision.
Sound(row) == row.verified => [status |-> row.status, tier |-> row.tier] \in granted

\* What requests hold, and what is stored, is what the last decision has left.
KycInv ==
    /\ KycTyped
    /\ Exists => Sound(profile)
    /\ \A a \in Actors : copy[a] # NoProfile => Sound(copy[a])
    /\ OnlyOldCopiesUndo
    /\ \A h \in Handlers : hand[h] = "holding" => Decision(copy[h]) \in options

LEMMA KycInitInv == KycInit => KycInv
BY KycInitTyped DEF KycInit, KycInv, OnlyOldCopiesUndo, Exists, Actors

\* Steps that store nothing new: the row stays, goes, or becomes the copy of a
\* request; the actor takes a copy or leaves.
LEMMA KeepingInv ==
  ASSUME KycInv, NEW a \in Actors, NEW s \in HandSteps, NEW row, Take(a, s, row),
         \/ s \in {"holding", "expiring"} /\ row = profile /\ Exists
         \/ s \in {"idle", "submitting"} /\ row = NoProfile,
         \/ profile' \in {profile, NoProfile}
         \/ a \in Handlers /\ hand[a] = "holding" /\ profile' = copy[a],
         UNCHANGED <<created, month, granted, options>>
  PROVE  KycInv'
<1>1. profile \in Profile \cup {NoProfile} /\ copy[a] \in Profile \cup {NoProfile}
  BY DEF KycInv, KycTyped, KycTypeOK
<1>2. \/ s \in {"holding", "expiring"} /\ row \in Profile
      \/ s \in {"idle", "submitting"} /\ row = NoProfile
  BY <1>1 DEF Exists
<1>3. KycTyped'
  <2>1. /\ hand' \in [Actors -> HandSteps]
        /\ copy' \in [Actors -> Profile \cup {NoProfile}]
        /\ CopiesOK'
    BY <1>2, TakeTyped DEF KycInv
  <2>2. QED
    BY <1>1, <2>1 DEF KycTyped, KycTypeOK, KycInv
<1>4. NoProfile' = NoProfile
  BY DEF NoProfile
<1>5. ASSUME Exists' PROVE Sound(profile)' /\ (Decision(profile) \in options)'
  <2>1. profile' # NoProfile
    BY <1>4, <1>5 DEF Exists
  <2>2. Sound(profile')
    BY <2>1 DEF KycInv, Exists
  <2>3. Decision(profile') \in options
    <3>1. CASE profile' = profile
      BY <2>1, <3>1 DEF KycInv, OnlyOldCopiesUndo, Exists
    <3>2. CASE a \in Handlers /\ hand[a] = "holding" /\ profile' = copy[a]
      BY <3>2 DEF KycInv
    <3>3. QED
      BY <2>1, <3>1, <3>2
  <2>4. QED
    BY <2>2, <2>3 DEF Sound, Decision
<1>6. ASSUME NEW b \in Actors
      PROVE  /\ hand'[b] = IF b = a THEN s ELSE hand[b]
             /\ copy'[b] = IF b = a THEN row ELSE copy[b]
  BY DEF Take, KycInv, KycTyped, KycTypeOK
<1>7. ASSUME NEW b \in Actors, copy'[b] # NoProfile PROVE Sound(copy[b])'
  <2>1. Sound(copy'[b])
    BY <1>6, <1>7 DEF KycInv
  <2>2. QED
    BY <2>1 DEF Sound
<1>8. ASSUME NEW h \in Handlers, hand'[h] = "holding" PROVE (Decision(copy[h]) \in options)'
  <2>1. h \in Actors
    BY DEF Actors
  <2>2. CASE h = a
    BY <1>6, <1>8, <2>1, <2>2 DEF KycInv, OnlyOldCopiesUndo, Decision
  <2>3. CASE h # a
    BY <1>6, <1>8, <2>1, <2>3 DEF KycInv, Decision
  <2>4. QED
    BY <2>2, <2>3
<1>9. QED
  BY <1>3, <1>4, <1>5, <1>7, <1>8 DEF KycInv, OnlyOldCopiesUndo

\* Steps that store a status: it stands, and so may what others hold.
LEMMA DecidingInv ==
  ASSUME KycInv, NEW a \in Actors, NEW s \in {"idle", "holding"},
         NEW status \in KycStatus, NEW verified \in BOOLEAN,
         Stand(a, status, verified), profile' \in Profile,
         profile'.status = status, profile'.verified = verified,
         Take(a, s, IF s = "idle" THEN NoProfile ELSE profile'),
         verified => [status |-> status, tier |-> profile'.tier] \in granted',
         granted \subseteq granted', granted' \subseteq Grants,
         month' = month, created' \in Nat
  PROVE  KycInv'
<1> DEFINE row == IF s = "idle" THEN NoProfile ELSE profile'
<1>1. KycTyped'
  <2>1. /\ hand' \in [Actors -> HandSteps]
        /\ copy' \in [Actors -> Profile \cup {NoProfile}]
        /\ CopiesOK'
    <3>1. s \in HandSteps
      BY DEF HandSteps
    <3>2. \/ s \in {"holding", "expiring"} /\ row \in Profile
          \/ s \in {"idle", "submitting"} /\ row = NoProfile
      OBVIOUS
    <3>3. Take(a, s, row)
      OBVIOUS
    <3> HIDE DEF row
    <3>4. QED
      BY <3>1, <3>2, <3>3, TakeTyped DEF KycInv
  <2>2. options' \subseteq Decisions
    BY StandTyped DEF KycInv
  <2>3. QED
    BY <2>1, <2>2 DEF KycTyped, KycTypeOK, KycInv
<1>2. Sound(profile)'
  BY DEF Sound
<1>3. (Decision(profile) \in options)'
  BY DEF Decision, Stand
<1>4. ASSUME NEW b \in Actors
      PROVE  /\ hand'[b] = IF b = a THEN s ELSE hand[b]
             /\ copy'[b] = IF b = a THEN row ELSE copy[b]
  BY DEF Take, KycInv, KycTyped, KycTypeOK
<1>5. ASSUME NEW b \in Actors, copy'[b] # NoProfile PROVE Sound(copy[b])'
  <2>1. CASE b = a
    BY <1>2, <1>4, <1>5, <2>1 DEF Sound
  <2>2. CASE b # a
    BY <1>4, <1>5, <2>2 DEF KycInv, Sound
  <2>3. QED
    BY <2>1, <2>2
<1>6. ASSUME NEW h \in Handlers, hand'[h] = "holding" PROVE (Decision(copy[h]) \in options)'
  <2>1. h \in Actors
    BY DEF Actors
  <2>2. CASE h = a
    BY <1>3, <1>4, <1>6, <2>1, <2>2 DEF Decision
  <2>3. CASE h # a
    <3>1. hand[h] = "holding" /\ copy'[h] = copy[h]
      BY <1>4, <1>6, <2>1, <2>3
    <3>2. Decision(copy[h]) \in options'
      BY <2>3, <3>1 DEF Stand
    <3>3. QED
      BY <3>1, <3>2 DEF Decision
  <2>4. QED
    BY <2>2, <2>3
<1>7. QED
  BY <1>1, <1>2, <1>3, <1>5, <1>6 DEF KycInv, OnlyOldCopiesUndo

\* What a form says is a row, and what it verifies is granted.
LEMMA EnteredTyped ==
  ASSUME NEW id \in Nat, NEW form \in Forms
  PROVE  /\ Entered(id, form) \in Profile
         /\ Entered(id, form).status = form.status
         /\ Entered(id, form).verified = form.verified
         /\ form.status \in KycStatus /\ form.verified \in BOOLEAN
         /\ Verified(form) \subseteq Grants
         /\ form.verified =>
               [status |-> form.status, tier |-> Entered(id, form).tier] \in Verified(form)
<1>1. form \in [status : KycStatus, verified : BOOLEAN, tier : Tiers, expires : Nat]
  BY KycAssumption
<1>2. /\ form.status \in KycStatus /\ form.verified \in BOOLEAN
      /\ form.tier \in Tiers /\ form.expires \in Nat
  BY <1>1
<1>3. QED
  BY <1>2 DEF Entered, Profile, Verified, Grants

LEMMA KycNextInv == KycInv /\ [KycNext]_kycVars => KycInv'
<1> SUFFICES ASSUME KycInv, [KycNext]_kycVars PROVE KycInv'
  OBVIOUS
<1>a. KycTypeOK /\ profile \in Profile \cup {NoProfile}
  BY DEF KycInv, KycTyped, KycTypeOK
<1>b. Exists => profile \in Profile
  BY <1>a DEF Exists
<1>c. /\ "idle" \in HandSteps /\ "submitting" \in HandSteps
      /\ "holding" \in HandSteps /\ "expiring" \in HandSteps
      /\ "pending" \in KycStatus /\ "approved" \in KycStatus
      /\ "rejected" \in KycStatus /\ "expired" \in KycStatus
      /\ TRUE \in BOOLEAN /\ FALSE \in BOOLEAN
  BY DEF HandSteps, KycStatus
<1>d. \A h \in Handlers : h \in Actors
  BY DEF Actors
<1>1. ASSUME NEW h \in Handlers, Submit(h) \/ GetObject(h) \/ SaveCopy(h) \/ Destroy(h)
      PROVE  KycInv'
  <2>1. CASE Submit(h)
    BY <1>c, <1>d, <2>1, KeepingInv DEF Submit
  <2>2. CASE GetObject(h)
    BY <1>c, <1>d, <2>2, KeepingInv DEF GetObject
  <2>3. CASE SaveCopy(h)
    BY <1>c, <1>d, <2>3, KeepingInv DEF SaveCopy, Leave
  <2>4. CASE Destroy(h)
    BY <1>c, <1>d, <2>4, KeepingInv DEF Destroy, Leave
  <2>5. QED
    BY <1>1, <2>1, <2>2, <2>3, <2>4
<1>2. ASSUME NEW h \in Handlers, SaveSubmission(h) PROVE KycInv'
  <2>1. /\ profile' \in Profile /\ profile'.status = "pending"
        /\ profile'.verified = FALSE /\ created' \in Nat
    <3>1. CASE ~Exists /\ Create
      BY <1>a, <3>1, CreateOK
    <3>2. CASE Exists /\ profile' = Submitted(profile) /\ UNCHANGED created
      BY <1>a, <1>b, <1>c, <3>2, StoredTyped DEF Submitted, Decided, KycTypeOK
    <3>3. QED
      BY <1>2, <3>1, <3>2 DEF SaveSubmission
  <2>2. granted' = granted /\ granted \subseteq Grants
    BY <1>2, <1>a DEF SaveSubmission, KycTypeOK
  <2>3. QED
    BY <1>2, <1>c, <1>d, <2>1, <2>2, DecidingInv DEF SaveSubmission, Leave
<1>3. ASSUME NEW h \in Handlers, VerifyBiometric(h) PROVE KycInv'
  <2>1. /\ profile' \in Profile /\ profile'.status = "pending"
        /\ profile'.verified = FALSE /\ created' \in Nat
        /\ profile' = NewProfile
    BY <1>3, <1>a, CreateOK DEF VerifyBiometric
  <2>2. granted' = granted /\ granted \subseteq Grants
    BY <1>3, <1>a DEF VerifyBiometric, KycTypeOK
  <2>3. Take(h, "holding", IF "holding" = "idle" THEN NoProfile ELSE profile')
    BY <1>3, <2>1 DEF VerifyBiometric
  <2>4. QED
    BY <1>3, <1>c, <1>d, <2>1, <2>2, <2>3, DecidingInv DEF VerifyBiometric
<1>4. ASSUME NEW h \in Handlers, NEW t \in Tiers, Approve(h, t) PROVE KycInv'
  <2>1. copy[h] \in Profile
    BY <1>4, <1>d DEF Approve, KycInv, KycTyped, CopiesOK
  <2>2. profile' = Granted(copy[h], t)
    BY <1>4 DEF Approve, Granted
  <2>3. /\ profile' \in Profile /\ profile'.status = "approved"
        /\ profile'.verified = TRUE /\ profile'.tier = t
    BY <1>a, <2>1, <2>2, StoredTyped
  <2>4. /\ granted' = granted \cup {[status |-> "approved", tier |-> t]}
        /\ granted' \subseteq Grants /\ created' \in Nat
    BY <1>4, <1>a, <1>c DEF Approve, KycTypeOK, Grants
  <2>5. QED
    BY <1>4, <1>c, <1>d, <2>3, <2>4, DecidingInv DEF Approve, Leave
<1>5. ASSUME NEW h \in Handlers, Reject(h) PROVE KycInv'
  <2>1. copy[h] \in Profile
    BY <1>5, <1>d DEF Reject, KycInv, KycTyped, CopiesOK
  <2>2. profile' = Decided(copy[h], "rejected")
    BY <1>5 DEF Reject, Rejected, Decided
  <2>3. /\ profile' \in Profile /\ profile'.status = "rejected"
        /\ profile'.verified = FALSE
    BY <1>a, <1>c, <2>1, <2>2, StoredTyped
  <2>4. granted' = granted /\ granted \subseteq Grants /\ created' \in Nat
    BY <1>5, <1>a DEF Reject, KycTypeOK
  <2>5. QED
    BY <1>5, <1>c, <1>d, <2>3, <2>4, DecidingInv DEF Reject, Leave
<1>6. CASE SweepList
  BY <1>6, <1>c, KeepingInv DEF SweepList, Actors
<1>7. CASE SweepSave
  <2>s. Sweeper \in Actors
    BY DEF Actors
  <2>1. CASE /\ Savable(copy[Sweeper]) /\ Stand(Sweeper, "expired", FALSE)
             /\ profile' = [copy[Sweeper] EXCEPT !.status = "expired",
                                                 !.verified = FALSE]
    <3>1. copy[Sweeper] \in Profile
      BY <1>7, <2>s DEF SweepSave, KycInv, KycTyped, CopiesOK
    <3>2. profile' = Decided(copy[Sweeper], "expired")
      BY <2>1 DEF Decided
    <3>3. /\ profile' \in Profile /\ profile'.status = "expired"
          /\ profile'.verified = FALSE
      BY <1>a, <1>c, <3>1, <3>2, StoredTyped
    <3>4. granted' = granted /\ granted \subseteq Grants /\ created' \in Nat
      BY <1>7, <1>a DEF SweepSave, KycTypeOK
    <3>5. QED
      BY <1>7, <1>c, <2>s, <2>1, <3>3, <3>4, DecidingInv DEF SweepSave, Leave
  <2>2. CASE UNCHANGED <<profile, options>>
    BY <1>7, <1>c, <2>s, <2>2, KeepingInv DEF SweepSave, Leave
  <2>3. QED
    BY <1>7, <2>1, <2>2 DEF SweepSave
<1>8. ASSUME NEW a \in Actors, GiveUp(a) PROVE KycInv'
  BY <1>8, <1>c, KeepingInv DEF GiveUp, Leave
<1>9. ASSUME NEW h \in Handlers, NEW form \in Forms, SaveEntry(h, form) PROVE KycInv'
  <2>1. copy[h] \in Profile
    BY <1>9, <1>d DEF SaveEntry, KycInv, KycTyped, CopiesOK
  <2>2. copy[h].id \in Nat
    BY <2>1 DEF Profile
  <2>3. profile' = Entered(copy[h].id, form)
    BY <1>9 DEF SaveEntry
  <2>4. /\ profile' \in Profile /\ profile'.status = form.status
        /\ profile'.verified = form.verified
        /\ form.status \in KycStatus /\ form.verified \in BOOLEAN
        /\ form.verified => [status |-> form.status, tier |-> profile'.tier] \in Verified(form)
    BY <2>2, <2>3, EnteredTyped, Zenon
  <2>5. /\ granted' = granted \cup Verified(form) /\ granted' \subseteq Grants
        /\ created' \in Nat
    BY <1>9, <1>a, <2>2, EnteredTyped DEF SaveEntry, KycTypeOK
  <2>6. QED
    BY <1>9, <1>c, <1>d, <2>4, <2>5, DecidingInv DEF SaveEntry, Leave
<1>10. ASSUME NEW h \in Handlers, NEW form \in Forms, AddEntry(h, form) PROVE KycInv'
  <2>1. created + 1 \in Nat /\ created' = created + 1 /\ month' = month
    BY <1>10, <1>a DEF AddEntry, KycTypeOK
  <2>2. profile' = Entered(created + 1, form)
    BY <1>10 DEF AddEntry
  <2>3. /\ profile' \in Profile /\ profile'.status = form.status
        /\ profile'.verified = form.verified
        /\ form.status \in KycStatus /\ form.verified \in BOOLEAN
        /\ form.verified => [status |-> form.status, tier |-> profile'.tier] \in Verified(form)
    BY <2>1, <2>2, EnteredTyped, Zenon
  <2>4. granted' = granted \cup Verified(form) /\ granted' \subseteq Grants
    BY <1>10, <1>a, <2>1, EnteredTyped DEF AddEntry, KycTypeOK
  <2>5. Take(h, "idle", NoProfile)
    <3>1. copy[h] = NoProfile /\ hand[h] = "idle"
      BY <1>10, <1>d DEF AddEntry, KycInv, KycTyped, CopiesOK
    <3>2. hand' = hand /\ copy' = copy
      BY <1>10 DEF AddEntry, kycWork
    <3>3. QED
      BY <1>a, <1>d, <3>1, <3>2 DEF Take, KycTypeOK
  <2>6. QED
    BY <1>10, <1>c, <1>d, <2>1, <2>3, <2>4, <2>5, DecidingInv DEF AddEntry
<1>11. CASE NextMonth \/ UNCHANGED kycVars
  <2>1. UNCHANGED <<profile, created, hand, copy, granted, options>> /\ month' \in Nat
    BY <1>11, <1>a DEF NextMonth, kycVars, kycWork, KycTypeOK
  <2>2. KycTyped'
    BY <2>1 DEF KycInv, KycTyped, KycTypeOK, CopiesOK
  <2>3. QED
    BY <2>1, <2>2 DEF KycInv, Exists, Sound, OnlyOldCopiesUndo, Decision
<1>12. QED
  BY <1>1, <1>2, <1>3, <1>4, <1>5, <1>6, <1>7, <1>8, <1>9, <1>10, <1>11 DEF KycNext

LEMMA KycInvariant == KycSpec => []KycInv
BY KycInitInv, KycNextInv, PTL DEF KycSpec

-----------------------------------------------------------------------------
(* Kyc: theorems                                                             *)

\* The stored profile and the copies are rows of the table at all times; a
\* status that nobody assigned is never stored.
THEOREM KycTypeCorrect == KycSpec => []KycTypeOK
<1>1. KycInv => KycTypeOK
  BY DEF KycInv, KycTyped
<1>2. QED
  BY <1>1, KycInvariant, PTL

\* Whatever stale copies requests, forms and expire_old_kycs save, and whatever
\* rows they bring back, a verified profile has the status and the tier of one
\* decision of an administrator, for any tiers and any forms
\* (VerifiedWasGranted).
THEOREM OnlyTheGrantedAreVerified == KycSpec => []VerifiedWasGranted
<1>1. KycInv => VerifiedWasGranted
  BY DEF KycInv, Sound, VerifiedWasGranted
<1>2. QED
  BY <1>1, KycInvariant, PTL

\* Status and is_verified are those of the last decision, or what requests that
\* were under way when it was stored had read: no request that begins later
\* brings back anything else, however many copies are saved in whatever order
\* (OnlyOldCopiesUndo).
THEOREM DecisionsStand == KycSpec => []OnlyOldCopiesUndo
<1>1. KycInv => OnlyOldCopiesUndo
  BY DEF KycInv
<1>2. QED
  BY <1>1, KycInvariant, PTL
=============================================================================
